------------------------------ MODULE CRDProbe ------------------------------
(***************************************************************************)
(* The session controller's process and its view of the Sandbox CRD        *)
(* (internal/sessioncontroller/manager.go): it waits for the CRD before it *)
(* builds the manager, re-checks by a ticker once the caches are synced,   *)
(* and answers /readyz and the shock_crd_served gauge from what it found.  *)
(*                                                                         *)
(* Discovery answers "served", "unlisted" (the group version is there, the *)
(* resource is not), "gone" (NotFound: the group version is not there) or  *)
(* "failed" (any other error).  The answer is stored later than it was     *)
(* true.                                                                   *)
(***************************************************************************)
EXTENDS Naturals

CONSTANTS
  MaxChanges,  \* bound: changes of what discovery answers
  MaxCrashes   \* bound: ends of the process other than by a failing cache sync

ASSUME ProbeAssumption == MaxChanges \in Nat /\ MaxCrashes \in Nat

VARIABLES
  crd,      \* what discovery answers
  changes,
  proc,     \* the process: Run's phases
  check,    \* an answer crdProbe.check has and has not stored, or "none"
  served,   \* crdProbe.served
  gauge,    \* CRDServed
  synced,   \* Run's synced flag
  crashes

probeVars == <<crd, changes, proc, check, served, gauge, synced, crashes>>

Answers == {"served", "unlisted", "gone", "failed"}

ProbeTypeOK ==
  /\ crd \in Answers
  /\ changes \in 0..MaxChanges
  /\ proc \in {"down", "waiting", "starting", "running"}
  /\ check \in Answers \cup {"none"}
  /\ served \in BOOLEAN
  /\ gauge \in {0, 1}
  /\ synced \in BOOLEAN
  /\ crashes \in 0..MaxCrashes

ProbeInit ==
  /\ crd \in Answers
  /\ changes = 0
  /\ proc = "down"
  /\ check = "none"
  /\ served = FALSE
  /\ gauge = 0
  /\ synced = FALSE
  /\ crashes = 0

-----------------------------------------------------------------------------
\* The CRD is installed or removed, the API server goes or comes back.
Cluster ==
  /\ changes < MaxChanges
  /\ changes' = changes + 1
  /\ crd' \in Answers \ {crd}
  /\ UNCHANGED <<proc, check, served, gauge, synced, crashes>>

Start ==
  /\ proc = "down"
  /\ proc' = "waiting"
  /\ UNCHANGED <<crd, changes, check, served, gauge, synced, crashes>>

\* Nothing the process knew is left.
Stops ==
  /\ proc' = "down"
  /\ check' = "none"
  /\ served' = FALSE
  /\ gauge' = 0
  /\ synced' = FALSE
  /\ UNCHANGED <<crd, changes>>

Crash ==
  /\ proc # "down"
  /\ crashes < MaxCrashes
  /\ crashes' = crashes + 1
  /\ Stops

\* waitForCRD's checks, and after the sync those of the ticker.
Discover ==
  /\ proc = "waiting" \/ (proc = "running" /\ synced)
  /\ check = "none"
  /\ check' = crd
  /\ UNCHANGED <<crd, changes, proc, served, gauge, synced, crashes>>

\* (mutant) an error leaves the answer of the last check standing
ServedStickyOnError(answer) == answer = "served" \/ (answer = "failed" /\ served)

\* What check stores in crdProbe.served.
Served(answer) == answer = "served"

\* What check sets the gauge to: on an error of any kind it returns before it.
Gauge(answer) ==
  CASE answer = "served"   -> 1
    [] answer = "unlisted" -> 0
    [] OTHER               -> gauge

\* The rest of check; a first positive answer ends the wait.
Conclude ==
  /\ check # "none"
  /\ served' = Served(check)
  /\ gauge' = Gauge(check)
  /\ proc' = IF proc = "waiting" /\ Served(check) THEN "starting" ELSE proc
  /\ check' = "none"
  /\ UNCHANGED <<crd, changes, synced, crashes>>

\* The manager and its servers come up.
ManagerStarts ==
  /\ proc = "starting"
  /\ proc' = "running"
  /\ UNCHANGED <<crd, changes, check, served, gauge, synced, crashes>>

\* WaitForCacheSync returns once the Sandboxes could be listed.
CachesSync ==
  /\ proc = "running"
  /\ ~synced
  /\ crd = "served"
  /\ synced' = TRUE
  /\ UNCHANGED <<crd, changes, proc, check, served, gauge, crashes>>

\* A cache that cannot list ends Run with an error, and the kubelet starts it again.
SyncFails ==
  /\ proc = "running"
  /\ ~synced
  /\ crd # "served"
  /\ Stops
  /\ UNCHANGED crashes

Checks == Discover \/ Conclude

Comes == Start \/ ManagerStarts \/ CachesSync

-----------------------------------------------------------------------------
\* Reconciles run and the cache answers.
Operating == proc = "running" /\ synced

\* /readyz answers 200: the waiting process's own server always answers 503.
Ready == proc = "running" /\ served /\ synced

\* The alert ShockSessionControllerNotReady: the gauge is scraped as 0 or not at all,
\* as before the manager serves /metrics.
AlertOn == proc # "running" \/ gauge = 0
=============================================================================
