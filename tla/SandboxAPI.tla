----------------------------- MODULE SandboxAPI -----------------------------
(***************************************************************************)
(* The Kubernetes objects of ONE session, as the hook, the session         *)
(* controller and agent-sandbox share them through the API server: the     *)
(* Sandbox, its work-order Secrets and its runner Pod.                     *)
(*                                                                         *)
(* Names.  The Sandbox's name is a function of the release and the         *)
(* session, so there is one slot for it; agent-sandbox names the Pod after *)
(* the Sandbox, so there is one slot for the Pod; a Secret's name is       *)
(* derived from the Sandbox UID and the order id.                          *)
(*                                                                         *)
(* A resourceVersion is compared for equality only, together with the UID, *)
(* so a counter per incarnation stands for it.  A condition is represented *)
(* by the observedGeneration it was last written True with, and by 0 when  *)
(* it is False or absent: no reader asks for more.                         *)
(***************************************************************************)
EXTENDS Naturals

CONSTANTS
  OrderIds,   \* order ids of the control plane
  Offers,     \* the orders it hands out: records [id, attempt]
  Nil,        \* an absent object, annotation or pointer
  MaxUID      \* bound: at most this many incarnations of the Sandbox

OrNil(S) == S \cup {Nil}

Orders == [id : OrderIds, attempt : Nat]

\* naming.WorkOrderSecretName, for one release and session: injective in UID and order.
SecretNames == [uid : Nat, id : OrderIds]
WorkOrderSecretName(uid, id) == [uid |-> uid, id |-> id]

Modes == {"Running", "Suspended"}

Sandboxes ==
  [ uid           : Nat,
    rv            : Nat,                 \* metadata.resourceVersion
    gen           : Nat,                 \* metadata.generation
    managed       : BOOLEAN,             \* part-of, instance and session labels: evaluate's
    selected      : BOOLEAN,             \* instance and name labels: the cache selector's
    deleting      : BOOLEAN,             \* metadata.deletionTimestamp is set
    mode          : Modes,               \* spec.operatingMode
    pending       : OrNil(OrderIds),     \* annotation pending-spawn
    pendingSecret : OrNil(SecretNames),  \* annotation pending-secret
    lastId        : OrNil(OrderIds),     \* annotation last-order-id
    lastAttempt   : Nat,                 \* annotation last-order-attempt ("" reads as 0)
    lastSecret    : OrNil(SecretNames),  \* annotation last-order-secret
    applied       : OrNil(OrderIds),     \* annotation applied-spawn
    suspendedAt   : BOOLEAN,             \* annotation last-suspended-at is present
    podOrder      : OrNil(OrderIds),     \* podTemplate's order-id annotation
    podSecret     : OrNil(SecretNames),  \* podTemplate's work-order volume
    suspended     : Nat,                 \* condition Suspended
    finished      : Nat ]                \* condition Finished

Secrets ==
  [ name : SecretNames, order : OrderIds, attempt : Nat, owner : Nat ]

Pods ==
  [ owner : Nat, order : OrNil(OrderIds), secret : OrNil(SecretNames),
    phase : {"Live", "Finished"}, terminating : BOOLEAN ]

\* Order ids and attempts are the control plane's; Nil is none of the values above.
ASSUME APIAssumption ==
  /\ Offers \subseteq Orders
  /\ MaxUID \in Nat
  /\ Nil \notin OrderIds \cup SecretNames \cup Sandboxes \cup Pods \cup Offers

VARIABLES
  sb,        \* the Sandbox object, or Nil
  secrets,   \* the work-order Secrets
  pod,       \* the runner Pod, or Nil
  lastUid,   \* the last UID the API server handed out
  spawned    \* history: [uid, id] of every order a Pod was created for

apiVars == <<sb, secrets, pod, lastUid, spawned>>

APITypeOK ==
  /\ sb \in OrNil(Sandboxes)
  /\ secrets \in SUBSET Secrets
  /\ pod \in OrNil(Pods)
  /\ lastUid \in Nat
  /\ spawned \in SUBSET SecretNames

APIInit ==
  /\ sb = Nil
  /\ secrets = {}
  /\ pod = Nil
  /\ lastUid = 0
  /\ spawned = {}

-----------------------------------------------------------------------------
(***************************************************************************)
(* Conditional writes (internal/patch).                                    *)
(***************************************************************************)

\* (mutant) the pin leaves the resourceVersion out
CurrentByUid(read) == sb # Nil /\ sb.uid = read.uid

\* The pin Optimistic builds: the write is refused (409, 422 or 404, all IsStale)
\* unless the object is still the one that was read.
Current(read) ==
  sb # Nil /\ sb.uid = read.uid /\ sb.rv = read.rv

\* Every accepted write moves the resourceVersion.
Written(new) == [new EXCEPT !.rv = @ + 1]

\* A write that changes spec also moves the generation.
WrittenSpec(new) == [new EXCEPT !.rv = @ + 1, !.gen = @ + 1]

Owned(p, uid) == p # Nil /\ p.owner = uid

\* (mutant) True for some generation, not the current one
SuspensionConfirmedOnce(s) == s.suspended # 0

\* currentGenerationTrue(sb, Suspended) and (sb, Finished)
SuspensionConfirmed(s) == s.suspended = s.gen
RunnerFinished(s)      == s.finished = s.gen
=============================================================================
