-------------------------------- MODULE Hook --------------------------------
(***************************************************************************)
(* The spawn hook (internal/hook), one process per invocation slot of the  *)
(* orchestrator.  Every API call is a step of its own, so that other       *)
(* invocations, the controller and agent-sandbox run between any two of    *)
(* them; what the hook computes from its last read is recomputed from      *)
(* "snap", the Sandbox as it read it.                                      *)
(*                                                                         *)
(* An invocation may die or lose the response of a call it made at any     *)
(* step (HookFails): the write, if there was one, stays.                   *)
(***************************************************************************)
EXTENDS SandboxAPI

CONSTANTS
  Hooks,           \* invocation slots (the orchestrator's hookConcurrency)
  MaxAttempts,     \* Hook.MaxAttempts, 12 in the code
  MaxInvocations   \* bound: invocations of the hook in a behaviour

ASSUME HookAssumption ==
  /\ MaxAttempts \in Nat \ {0}
  /\ MaxInvocations \in Nat

VARIABLES
  hooks,        \* [Hooks -> Invocation]
  invocations,  \* invocations started
  acked,        \* history: orders that exited 0, with the UID they were accepted on
  rejected      \* history: orders that exited 2, and why

hookVars == <<hooks, invocations, acked, rejected>>

PCs == {"idle", "get", "create", "secret", "patch"}

Invocation ==
  [ pc    : PCs,
    offer : OrNil(Offers),
    snap  : OrNil(Sandboxes),
    tries : Nat,
    seen  : Nat ]               \* history: a UID this invocation has observed, or 0

Idle == [pc |-> "idle", offer |-> Nil, snap |-> Nil, tries |-> 0, seen |-> 0]

HookTypeOK ==
  /\ hooks \in [Hooks -> Invocation]
  /\ invocations \in Nat
  /\ acked \in SUBSET [uid : Nat, id : OrderIds, attempt : Nat]
  /\ rejected \in SUBSET [offer : Offers, why : {"foreign", "attempt", "secret"}]

HookInit ==
  /\ hooks = [h \in Hooks |-> Idle]
  /\ invocations = 0
  /\ acked = {}
  /\ rejected = {}

-----------------------------------------------------------------------------
(***************************************************************************)
(* What the hook computes from one read.                                   *)
(***************************************************************************)

\* (mutant) the attempt does not order distinct orders
EvaluateByIdOnly(s, o) ==
  IF s.deleting            THEN "deleting"
  ELSE IF ~s.managed       THEN "foreign"
  ELSE IF o.id = s.lastId  THEN "redelivery"
  ELSE "newer"

\* (mutant) the attempt is compared before the id
EvaluateAttemptFirst(s, o) ==
  IF s.deleting                     THEN "deleting"
  ELSE IF ~s.managed                THEN "foreign"
  ELSE IF o.attempt = s.lastAttempt THEN "conflict"
  ELSE IF o.attempt < s.lastAttempt THEN "superseded"
  ELSE "newer"

\* (mutant) an equal attempt counts as newer
EvaluateTied(s, o) ==
  IF s.deleting                     THEN "deleting"
  ELSE IF ~s.managed                THEN "foreign"
  ELSE IF o.id = s.lastId           THEN "redelivery"
  ELSE IF o.attempt < s.lastAttempt THEN "superseded"
  ELSE "newer"

\* (mutant) the labels are not looked at
EvaluateUnlabelled(s, o) ==
  IF s.deleting                     THEN "deleting"
  ELSE IF o.id = s.lastId           THEN "redelivery"
  ELSE IF o.attempt < s.lastAttempt THEN "superseded"
  ELSE "newer"

\* evaluate: the request against the Sandbox's accepted order.
Evaluate(s, o) ==
  IF s.deleting                     THEN "deleting"
  ELSE IF ~s.managed                THEN "foreign"
  ELSE IF o.id = s.lastId           THEN "redelivery"
  ELSE IF o.attempt < s.lastAttempt THEN "superseded"
  ELSE IF o.attempt = s.lastAttempt THEN "conflict"
  ELSE "newer"

HoldsSlot(s) == ~s.deleting /\ (s.mode = "Running" \/ s.pending # Nil)

\* createSandbox: Suspended, with the pending order in the create body.
NewSandbox(uid, o) ==
  [ uid |-> uid, rv |-> 1, gen |-> 1, managed |-> TRUE, selected |-> TRUE,
    deleting |-> FALSE, mode |-> "Suspended", pending |-> o.id, pendingSecret |-> Nil,
    lastId |-> o.id, lastAttempt |-> o.attempt, lastSecret |-> Nil, applied |-> Nil,
    suspendedAt |-> FALSE, podOrder |-> Nil, podSecret |-> Nil,
    suspended |-> 0, finished |-> 0 ]

\* workOrderSecret
WorkOrderSecret(s, o) ==
  [name |-> WorkOrderSecretName(s.uid, o.id), order |-> o.id, attempt |-> o.attempt,
   owner |-> s.uid]

\* (mutant) only the last-order pointer is repaired
RepairedLastOnly(s, o) ==
  [s EXCEPT !.lastSecret = IF s.lastId = o.id /\ @ = Nil
                           THEN WorkOrderSecretName(s.uid, o.id) ELSE @]

\* repairRedelivery's mutation: the missing pointers, and no new pending intent.
Repaired(s, o) ==
  LET name == WorkOrderSecretName(s.uid, o.id)
  IN [s EXCEPT !.pendingSecret = IF s.pending = o.id /\ @ = Nil THEN name ELSE @,
               !.lastSecret    = IF s.lastId = o.id /\ @ = Nil THEN name ELSE @]

\* repairRedelivery finds the pending order pointing at another Secret.
PointsElsewhere(s, o) ==
  /\ s.pending = o.id
  /\ s.pendingSecret \notin {Nil, WorkOrderSecretName(s.uid, o.id)}

\* (mutant) last-order-attempt is forgotten
PublishedStaleAttempt(s, o) ==
  LET name == WorkOrderSecretName(s.uid, o.id)
  IN [s EXCEPT !.pending = o.id, !.pendingSecret = name,
               !.lastId = o.id, !.lastSecret = name, !.mode = "Suspended"]

\* publishNewer's mutation.  The refreshed podTemplate keeps the installed order and
\* Secret; applied-spawn and last-suspended-at are left alone.
Published(s, o) ==
  LET name == WorkOrderSecretName(s.uid, o.id)
  IN [s EXCEPT !.pending = o.id, !.pendingSecret = name,
               !.lastId = o.id, !.lastAttempt = o.attempt, !.lastSecret = name,
               !.mode = "Suspended"]

-----------------------------------------------------------------------------
(***************************************************************************)
(* Ends of an invocation.                                                  *)
(***************************************************************************)

Exit(h) == hooks' = [hooks EXCEPT ![h] = Idle]

\* exit 1: the control plane re-offers the session as a fresh order.
ExitRetryable(h) == Exit(h) /\ UNCHANGED <<acked, rejected>>

\* exit 2
ExitNonRetryable(h, why) ==
  /\ Exit(h)
  /\ rejected' = rejected \cup {[offer |-> hooks[h].offer, why |-> why]}
  /\ UNCHANGED acked

\* exit 0, for the incarnation of s
ExitSubmitted(h, s) ==
  /\ Exit(h)
  /\ acked' = acked \cup {[uid |-> s.uid, id |-> hooks[h].offer.id,
                           attempt |-> hooks[h].offer.attempt]}
  /\ UNCHANGED rejected

Goto(h, pc, s) ==
  /\ hooks' = [hooks EXCEPT ![h].pc = pc, ![h].snap = s,
                            ![h].seen = IF s = Nil THEN @ ELSE s.uid]
  /\ UNCHANGED <<acked, rejected>>

\* runSession's continue: re-read, up to MaxAttempts times.
Retry(h) ==
  IF hooks[h].tries + 1 = MaxAttempts
  THEN ExitRetryable(h)
  ELSE /\ hooks' = [hooks EXCEPT ![h].pc = "get", ![h].snap = Nil, ![h].tries = @ + 1]
       /\ UNCHANGED <<acked, rejected>>

-----------------------------------------------------------------------------
(***************************************************************************)
(* The steps of an invocation.                                             *)
(***************************************************************************)

\* The orchestrator runs the hook on an order, first or repeated delivery.
Deliver(h, o) ==
  /\ hooks[h].pc = "idle"
  /\ invocations < MaxInvocations
  /\ hooks' = [hooks EXCEPT ![h] = [Idle EXCEPT !.pc = "get", !.offer = o]]
  /\ invocations' = invocations + 1
  /\ UNCHANGED <<acked, rejected, apiVars>>

\* reconcileExisting up to its first API call.  checkCapacity lets a session that
\* holds a slot pass; whether the other sessions leave room is theirs to decide.
ReconcileExisting(h, s) ==
  LET d == Evaluate(s, hooks[h].offer)
  IN \/ d = "deleting"   /\ ExitRetryable(h)
     \/ d = "foreign"    /\ ExitNonRetryable(h, "foreign")
     \/ d = "conflict"   /\ ExitNonRetryable(h, "attempt")
     \/ d = "superseded" /\ ExitSubmitted(h, s)
     \/ d = "redelivery" /\ Goto(h, "secret", s)
     \/ d = "newer"      /\ Goto(h, "secret", s)
     \/ d = "newer"      /\ ~HoldsSlot(s) /\ ExitRetryable(h)

\* Get; on NotFound, the capacity check that precedes the create.
Get(h) ==
  /\ hooks[h].pc = "get"
  /\ \/ sb = Nil /\ Goto(h, "create", Nil)
     \/ sb = Nil /\ ExitRetryable(h)
     \/ sb # Nil /\ ReconcileExisting(h, sb)
  /\ UNCHANGED <<invocations, apiVars>>

CreateSandbox(h) ==
  /\ hooks[h].pc = "create"
  /\ sb = Nil
  /\ lastUid < MaxUID
  /\ sb' = NewSandbox(lastUid + 1, hooks[h].offer)
  /\ lastUid' = lastUid + 1
  /\ ReconcileExisting(h, sb')
  /\ UNCHANGED <<invocations, secrets, pod, spawned>>

\* AlreadyExists: another invocation created it; take the existing-object path.
CreateLost(h) ==
  /\ hooks[h].pc = "create"
  /\ sb # Nil
  /\ Retry(h)
  /\ UNCHANGED <<invocations, apiVars>>

\* ensureSecret: create it, or verify the one that is there (verifySecret).
EnsureSecret(h) ==
  LET s       == hooks[h].snap
      desired == WorkOrderSecret(s, hooks[h].offer)
      found   == {x \in secrets : x.name = desired.name}
  IN /\ hooks[h].pc = "secret"
     /\ \/ found = {}        /\ secrets' = secrets \cup {desired} /\ Goto(h, "patch", s)
        \/ found = {desired} /\ UNCHANGED secrets /\ Goto(h, "patch", s)
        \/ found \notin {{}, {desired}} /\ UNCHANGED secrets /\ ExitNonRetryable(h, "secret")
     /\ UNCHANGED <<invocations, sb, pod, lastUid, spawned>>

\* The pinned patch of either path, or a re-read when the Sandbox moved on.
PinnedPatch(h, new) ==
  LET s == hooks[h].snap
  IN \/ Current(s)  /\ sb' = new     /\ ExitSubmitted(h, s)
     \/ ~Current(s) /\ UNCHANGED sb  /\ Retry(h)

\* The rest of repairRedelivery.
RepairRedelivery(h) ==
  LET s == hooks[h].snap
      o == hooks[h].offer
  IN /\ hooks[h].pc = "patch"
     /\ Evaluate(s, o) = "redelivery"
     /\ \/ PointsElsewhere(s, o) /\ UNCHANGED sb /\ ExitNonRetryable(h, "secret")
        \/ ~PointsElsewhere(s, o) /\ Repaired(s, o) = s /\ UNCHANGED sb /\ ExitSubmitted(h, s)
        \/ ~PointsElsewhere(s, o) /\ Repaired(s, o) # s /\ PinnedPatch(h, Written(Repaired(s, o)))
     /\ UNCHANGED <<invocations, secrets, pod, lastUid, spawned>>

\* The rest of publishNewer.  The generation moves when the mode does, or when the
\* chart's podTemplate differs from the stored one (an upgrade in between).
PublishNewer(h) ==
  LET s   == hooks[h].snap
      new == Published(s, hooks[h].offer)
  IN /\ hooks[h].pc = "patch"
     /\ Evaluate(s, hooks[h].offer) = "newer"
     /\ \/ PinnedPatch(h, WrittenSpec(new))
        \/ s.mode = new.mode /\ PinnedPatch(h, Written(new))
     /\ UNCHANGED <<invocations, secrets, pod, lastUid, spawned>>

\* The process dies, its context ends, or a call fails with a retryable error.
HookFails(h) ==
  /\ hooks[h].pc # "idle"
  /\ ExitRetryable(h)
  /\ UNCHANGED <<invocations, apiVars>>

HookStep(h) ==
  \/ Get(h)
  \/ CreateSandbox(h)
  \/ CreateLost(h)
  \/ EnsureSecret(h)
  \/ RepairRedelivery(h)
  \/ PublishNewer(h)

HookNext ==
  \E h \in Hooks :
    \/ \E o \in Offers : Deliver(h, o)
    \/ HookStep(h)
    \/ HookFails(h)
=============================================================================
