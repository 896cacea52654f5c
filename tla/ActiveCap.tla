------------------------------ MODULE ActiveCap ------------------------------
(***************************************************************************)
(* The active-session cap (internal/hook checkCapacity) across the         *)
(* sessions of one release.  A hook that would take a slot lists the       *)
(* release's Sandboxes, counts the others that hold one, and writes later: *)
(* nothing ties the write to the count.                                    *)
(*                                                                         *)
(* Of a Sandbox only what HoldsSlot reads is kept.  A hook's UID and       *)
(* resourceVersion pin is a flag that every write to that Sandbox clears.  *)
(* What Hook and SessionController model of one session is here the choice *)
(* of the next write.  With MaxActiveSessions 0 there is no check.         *)
(***************************************************************************)
EXTENDS Naturals, FiniteSets

CONSTANTS
  Sessions,    \* the sessions of the release
  Hooks,       \* invocation slots of all orchestrator replicas
  MaxActive,   \* Config.MaxActiveSessions
  Nil

ASSUME CapAssumption ==
  /\ IsFiniteSet(Sessions)
  /\ IsFiniteSet(Hooks) /\ Hooks # {}
  /\ MaxActive \in Nat \ {0}
  /\ Nil \notin Sessions

VARIABLES
  boxes,   \* [Sessions -> the session's Sandbox, or "none"]
  calls    \* [Hooks -> the invocation]

vars == <<boxes, calls>>

\* "pending" carries an order and is Suspended, "waking" carries one and is Running.
HoldingStates == {"pending", "waking", "running"}
BoxStates == HoldingStates \cup {"none", "asleep", "deleting"}

\* What a hook in flight knows: its session, whether the Sandbox existed when it read it,
\* whether the pin would still hold, and whether it goes on without a slot of its own.
Calls ==
  [ pc      : {"idle", "get", "list", "write"},
    session : Sessions \cup {Nil},
    absent  : BOOLEAN,
    current : BOOLEAN,
    claims  : BOOLEAN ]

IdleCall == [pc |-> "idle", session |-> Nil, absent |-> FALSE, current |-> FALSE, claims |-> FALSE]

\* CapTypeOK: the states of Sandboxes and invocations.
CapTypeOK ==
  /\ boxes \in [Sessions -> BoxStates]
  /\ calls \in [Hooks -> Calls]

Init ==
  /\ boxes = [s \in Sessions |-> "none"]
  /\ calls = [h \in Hooks |-> IdleCall]

-----------------------------------------------------------------------------
\* holdsSlot
HoldsSlot(state) == state \in HoldingStates

Active == {s \in Sessions : HoldsSlot(boxes[s])}

\* A write on s: whoever read s before has lost its pin.
Unpinned(s) ==
  [h \in Hooks |-> [calls[h] EXCEPT !.current = @ /\ calls[h].session # s]]

Deliver(h, s) ==
  /\ calls[h].pc = "idle"
  /\ calls' = [calls EXCEPT ![h] = [IdleCall EXCEPT !.pc = "get", !.session = s]]
  /\ UNCHANGED boxes

\* An invocation ends: 0, 1 or 2, or it dies.  It writes nothing more.
Ends(h) ==
  /\ calls[h].pc # "idle"
  /\ calls' = [calls EXCEPT ![h] = IdleCall]
  /\ UNCHANGED boxes

Reads(h, pc, claims) ==
  calls' = [calls EXCEPT ![h].pc = pc, ![h].current = TRUE, ![h].claims = claims,
                         ![h].absent = (boxes[calls[h].session] = "none")]

\* Get, and for a newer order what checkCapacity decides without a List.  Redelivery,
\* superseded orders and a Sandbox being deleted end without taking a slot (Ends).
Get(h) ==
  /\ calls[h].pc = "get"
  /\ LET state == boxes[calls[h].session]
     IN \/ state \in {"none", "asleep"} /\ Reads(h, "list", TRUE)
        \/ HoldsSlot(state) /\ Reads(h, "write", FALSE)
  /\ UNCHANGED boxes

\* (mutant) the limit itself is let in
HasRoomAtLimit(s) == Cardinality(Active \ {s}) <= MaxActive

\* The count of checkCapacity leaves the session's own Sandbox out.
HasRoom(s) == Cardinality(Active \ {s}) < MaxActive

\* At the cap the invocation ends (Ends).
List(h) ==
  /\ calls[h].pc = "list"
  /\ HasRoom(calls[h].session)
  /\ calls' = [calls EXCEPT ![h].pc = "write"]
  /\ UNCHANGED boxes

\* The create finds the name free, the patch its pin intact.
Lands(h) ==
  IF calls[h].absent THEN boxes[calls[h].session] = "none" ELSE calls[h].current

\* createSandbox or publishNewer's patch, and the end of the invocation.
Accept(h) ==
  /\ calls[h].pc = "write"
  /\ Lands(h)
  /\ boxes' = [boxes EXCEPT ![calls[h].session] = "pending"]
  /\ calls' = [Unpinned(calls[h].session) EXCEPT ![h] = IdleCall]

\* (mutant) the re-read is skipped
RefusedInPlace(h) == [calls EXCEPT ![h].current = TRUE]

\* A refused write re-reads and decides again, the cap included.
Refused(h) == [calls EXCEPT ![h].pc = "get", ![h].current = FALSE, ![h].claims = FALSE]

Retry(h) ==
  /\ calls[h].pc = "write"
  /\ ~Lands(h)
  /\ calls' = Refused(h)
  /\ UNCHANGED boxes

\* Wake, Spawn observation, Sleep, GC, an operator's delete and its end.
Moves ==
  { <<"pending", "waking">>, <<"waking", "running">>, <<"running", "asleep">>,
    <<"asleep", "none">>, <<"deleting", "none">> }
  \cup {<<state, "deleting">> : state \in HoldingStates \cup {"asleep"}}

\* The rest of the system moves a Sandbox, or writes its status.
Others(s) ==
  /\ \/ \E next \in BoxStates : <<boxes[s], next>> \in Moves /\ boxes' = [boxes EXCEPT ![s] = next]
     \/ boxes[s] # "none" /\ UNCHANGED boxes
  /\ calls' = Unpinned(s)

Next ==
  \/ \E h \in Hooks :
       \/ \E s \in Sessions : Deliver(h, s)
       \/ Get(h) \/ List(h) \/ Accept(h) \/ Retry(h) \/ Ends(h)
  \/ \E s \in Sessions : Others(s)

Spec == Init /\ [][Next]_vars

-----------------------------------------------------------------------------
\* Overshoot: however hooks, sleeps, wakes and deletions interleave, the release never
\* holds more than MaxActive sessions plus one for each other hook in flight; with one
\* hook at a time the cap is exact (charts/shock/README.md "set hookConcurrency: 1 for a
\* tighter bound"; hook.go checkCapacity).
Overshoot == Cardinality(Active) < MaxActive + Cardinality(Hooks)

\* Sessions a hook in flight has been let in for.
Claimed == {s \in Sessions : \E h \in Hooks :
              calls[h].session = s /\ calls[h].pc = "write" /\ calls[h].claims}

\* CapInv: the bound counts the sessions already let in as well, and a hook that was let
\* through for its own slot writes only while that slot is held (hook.go
\* reconcileExisting, runSession's re-read); it is inductive.
CapInv ==
  /\ CapTypeOK
  /\ \A h \in Hooks : calls[h].pc # "idle" => calls[h].session # Nil
  /\ \A h \in Hooks : calls[h].pc = "list" => calls[h].claims
  /\ \A h \in Hooks : calls[h].pc = "write" /\ ~calls[h].claims =>
       ~calls[h].absent /\ (calls[h].current => calls[h].session \in Active)
  /\ Cardinality(Active \cup Claimed) < MaxActive + Cardinality(Hooks)
=============================================================================
