------------------------- MODULE SessionController -------------------------
(***************************************************************************)
(* The session controller's lifecycle predicates (internal/               *)
(* sessioncontroller/reconciler.go) for one Sandbox.                       *)
(*                                                                         *)
(* Reconcile works on the informer cache.  The Sandbox and Pod caches are  *)
(* fed by two watches, so each lags the API server on its own; Secrets are *)
(* read uncached.  A reconcile makes at most one write, pinned to the      *)
(* cached Sandbox, and returns after it; Secrets are immutable and live as *)
(* long as their Sandbox, so reading them and writing is one step.  A      *)
(* refused write changes nothing: the object is requeued, as it is after   *)
(* a "wake blocked" error.                                                 *)
(*                                                                         *)
(* Several controllers stand for the overlap of an old and a new replica   *)
(* during a rollout; a restart empties nothing but the caches, which is a  *)
(* CacheSync.  Clocks are abstracted: an asleep Sandbox may or may not be  *)
(* past GCMaxIdleAge or among the oldest beyond GCMaxIdleSessions.         *)
(***************************************************************************)
EXTENDS SandboxAPI

CONSTANTS
  Controllers,  \* controller processes
  GCEnabled     \* Options.GCEnabled

ASSUME ControllerAssumption == GCEnabled \in BOOLEAN

VARIABLE cache  \* [Controllers -> the informer caches]

Caches == [sb : OrNil(Sandboxes), pod : OrNil(Pods)]

ControllerTypeOK == cache \in [Controllers -> Caches]

ControllerInit == cache = [c \in Controllers |-> [sb |-> Nil, pod |-> Nil]]

-----------------------------------------------------------------------------
\* Reconcile's early returns, and the cache's label selector: the instance and the name.
Reconcilable(s) == s # Nil /\ ~s.deleting /\ s.selected

\* (mutant) any owned Pod acknowledges the pending order
SpawnObservedAnyPod(s, p) == s.pending # Nil /\ Owned(p, s.uid)

\* (mutant) only a Pod that still runs counts
SpawnObservedLive(s, p) ==
  /\ s.pending # Nil
  /\ s.applied = s.pending
  /\ Owned(p, s.uid)
  /\ p.order = s.pending
  /\ p.secret = s.pendingSecret
  /\ p.phase = "Live"

\* spawnObservation: the applied order is still pending, and its owned Pod is in sight.
SpawnObserved(s, p) ==
  /\ s.pending # Nil
  /\ s.applied = s.pending
  /\ Owned(p, s.uid)
  /\ p.order = s.pending
  /\ s.pendingSecret # Nil
  /\ p.secret = s.pendingSecret

\* (mutant) Finished is not asked for
ShouldSleepUnfinished(s) == s.mode = "Running" /\ s.pending = Nil

\* sleep
ShouldSleep(s) ==
  /\ s.mode = "Running"
  /\ s.pending = Nil
  /\ RunnerFinished(s)

\* validateWorkOrderSecret
ValidWorkOrder(x, s) ==
  /\ x.order = s.pending
  /\ x.attempt = s.lastAttempt
  /\ x.name = WorkOrderSecretName(s.uid, s.pending)
  /\ x.owner = s.uid

\* (mutant) a Sandbox is woken for its first order only
ShouldWakeOnce(s) ==
  /\ s.mode = "Suspended"
  /\ s.pending # Nil
  /\ s.podOrder = Nil
  /\ SuspensionConfirmed(s)

ShouldWake(s) ==
  /\ s.mode = "Suspended"
  /\ s.pending # Nil
  /\ SuspensionConfirmed(s)

\* What wake checks before it installs the order: a prepared pointer, the last
\* accepted order, and a Secret that validates.
WakePrepared(s) ==
  /\ s.pendingSecret # Nil
  /\ s.lastId = s.pending
  /\ \E x \in secrets : x.name = s.pendingSecret /\ ValidWorkOrder(x, s)

\* idleSince
IdleSince(s) ==
  /\ ~s.deleting
  /\ s.mode = "Suspended"
  /\ s.pending = Nil
  /\ SuspensionConfirmed(s)
  /\ s.suspendedAt

\* (mutant) last-suspended-at is not recorded
AsleepUntimed(s) == [s EXCEPT !.mode = "Suspended"]

\* (mutant) the work-order volume keeps the Secret it had
WokenKeepingVolume(s) ==
  [s EXCEPT !.mode = "Running", !.applied = s.pending, !.suspendedAt = FALSE,
            !.podOrder = s.pending]

\* What spawnObservation, sleep and wake write.
Settled(s) == [s EXCEPT !.pending = Nil, !.pendingSecret = Nil]

Asleep(s) == [s EXCEPT !.mode = "Suspended", !.suspendedAt = TRUE]

Woken(s) ==
  [s EXCEPT !.mode = "Running", !.applied = s.pending, !.suspendedAt = FALSE,
            !.podOrder = s.pending, !.podSecret = s.pendingSecret]

-----------------------------------------------------------------------------
\* (mutant) the write is not pinned to what was read
ControllerPatchUnpinned(s, new) ==
  /\ sb # Nil
  /\ sb' = new
  /\ UNCHANGED <<cache, secrets, pod, lastUid, spawned>>

\* The pinned write every predicate makes.
ControllerPatch(s, new) ==
  /\ Current(s)
  /\ sb' = new
  /\ UNCHANGED <<cache, secrets, pod, lastUid, spawned>>

SpawnObservation(c) ==
  LET s == cache[c].sb IN
  /\ Reconcilable(s)
  /\ SpawnObserved(s, cache[c].pod)
  /\ ControllerPatch(s, Written(Settled(s)))

Sleep(c) ==
  LET s == cache[c].sb IN
  /\ Reconcilable(s)
  /\ ~SpawnObserved(s, cache[c].pod)
  /\ ShouldSleep(s)
  /\ ControllerPatch(s, WrittenSpec(Asleep(s)))

Wake(c) ==
  LET s == cache[c].sb IN
  /\ Reconcilable(s)
  /\ ~SpawnObserved(s, cache[c].pod)
  /\ ShouldWake(s)
  /\ WakePrepared(s)
  /\ ControllerPatch(s, WrittenSpec(Woken(s)))

\* (mutant) the delete goes without its preconditions
GCUnpinned(c) ==
  /\ GCEnabled
  /\ Reconcilable(cache[c].sb)
  /\ IdleSince(cache[c].sb)
  /\ sb # Nil
  /\ sb' = Nil
  /\ UNCHANGED <<cache, secrets, pod, lastUid, spawned>>

\* Delete with UID and resourceVersion preconditions; nothing holds the object, so
\* it is gone at once and the garbage collector follows (Cascade).
GC(c) ==
  LET s == cache[c].sb IN
  /\ GCEnabled
  /\ Reconcilable(s)
  /\ IdleSince(s)
  /\ ControllerPatch(s, Nil)

Reconcile(c) == SpawnObservation(c) \/ Sleep(c) \/ Wake(c) \/ GC(c)

\* The Sandbox watch and the Pod watch catch up, each in its own time.
SyncSandbox(c) ==
  /\ cache[c].sb # sb
  /\ cache' = [cache EXCEPT ![c].sb = sb]
  /\ UNCHANGED apiVars

SyncPod(c) ==
  /\ cache[c].pod # pod
  /\ cache' = [cache EXCEPT ![c].pod = pod]
  /\ UNCHANGED apiVars

CacheSync(c) == SyncSandbox(c) \/ SyncPod(c)

ControllerNext == \E c \in Controllers : Reconcile(c) \/ CacheSync(c)
=============================================================================
