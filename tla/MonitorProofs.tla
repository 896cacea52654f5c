---------------------------- MODULE MonitorProofs ----------------------------
(***************************************************************************)
(* A stuck Pod gets one Event from each life of the controller's process,  *)
(* for any Pods, incarnations and changes, and however often the cache     *)
(* sync fails.                                                             *)
(*                                                                         *)
(* The bound counts crashes, but a failed sync empties the map as well.    *)
(* It is harmless because no reconcile ran in that life: before the sync   *)
(* the map is empty (FreshBefore).                                         *)
(***************************************************************************)
EXTENDS Monitor, TLAPS

\* A life that has not synced has alarmed of nothing.
FreshBefore == ~synced => zombiesAlerted = {}

\* The Events of a Pod were raised one in each earlier life, and one in this if it is
\* remembered.
OncePerLife ==
  \A p \in PodUids : stranded[p] <= IF p \in zombiesAlerted THEN 1 + crashes ELSE crashes

MonitorInv == TypeOK /\ FreshBefore /\ OncePerLife

-----------------------------------------------------------------------------
LEMMA InitMonitorInv == Init => MonitorInv
<1> SUFFICES ASSUME Init PROVE MonitorInv
  OBVIOUS
<1> USE DEF Init
<1>1. ProbeTypeOK
  <2>1. 0 \in 0..MaxChanges /\ 0 \in 0..MaxCrashes
    BY ProbeAssumption
  <2> QED
    BY <2>1, Zenon DEF ProbeInit, ProbeTypeOK
<1>2. NoBox \in BoxStates /\ NoPod \in PodStates
  BY AlarmAssumption DEF NoBox, BoxStates, NoPod, PodStates
<1>3. AlarmTypeOK
  BY <1>2, AlarmAssumption DEF AlarmInit, AlarmTypeOK
<1>4. FreshBefore /\ OncePerLife
  BY DEF ProbeInit, AlarmInit, FreshBefore, OncePerLife
<1> QED
  BY <1>1, <1>3, <1>4 DEF MonitorInv, TypeOK

\* The process, short of ending, keeps what it stores in bounds.
LEMMA ProcessStepTypes ==
  ASSUME ProbeTypeOK, Checks \/ Comes
  PROVE  ProbeTypeOK' /\ crashes' = crashes /\ (synced => synced')
<1> USE DEF ProbeTypeOK
<1>1. CASE Discover
  BY <1>1 DEF Discover
<1>2. CASE Conclude
  <2>1. Gauge(check) \in {0, 1} /\ Served(check) \in BOOLEAN
    BY DEF Gauge, Served
  <2> QED
    BY <1>2, <2>1 DEF Conclude
<1>3. CASE Comes
  BY <1>3 DEF Comes, Start, ManagerStarts, CachesSync
<1> QED
  BY <1>1, <1>2, <1>3 DEF Checks

\* The end of a life: by a crash, which counts, or by a sync that never came.
LEMMA EndsTypes ==
  ASSUME ProbeTypeOK, Crash \/ SyncFails
  PROVE  /\ ProbeTypeOK'
         /\ \/ crashes' = crashes + 1
            \/ crashes' = crashes /\ ~synced
<1> USE DEF ProbeTypeOK
<1>1. CASE Crash
  <2>1. crashes' = crashes + 1 /\ crashes' \in 0..MaxCrashes
    BY <1>1, ProbeAssumption DEF Crash
  <2> QED
    BY <1>1, <2>1, Zenon DEF Crash, Stops
<1>2. CASE SyncFails
  BY <1>2, Zenon DEF SyncFails, Stops
<1> QED
  BY <1>1, <1>2

LEMMA AlarmsRestartTypes == ASSUME AlarmTypeOK, AlarmsRestart PROVE AlarmTypeOK'
<1>1. NoBox \in BoxStates /\ NoPod \in PodStates
  BY AlarmAssumption DEF NoBox, BoxStates, NoPod, PodStates
<1> QED
  BY <1>1 DEF AlarmTypeOK, AlarmsRestart

\* A reconcile raises an Event for a Pod it did not remember, and remembers it.
LEMMA RaiseAlarmsOnce ==
  ASSUME AlarmTypeOK, RaiseAlarms
  PROVE  /\ AlarmTypeOK'
         /\ \A p \in PodUids :
              \/ stranded'[p] = stranded[p] /\ (p \in zombiesAlerted => p \in zombiesAlerted')
              \/ /\ stranded'[p] = stranded[p] + 1
                 /\ p \notin zombiesAlerted
                 /\ p \in zombiesAlerted'
<1> USE DEF AlarmTypeOK
<1>1. zombiesAlerted' = zombiesAlerted \cup Zombies /\ Zombies \subseteq PodUids
  BY DEF RaiseAlarms, Remembered, Zombies, Owned
<1>2. \A p \in PodUids :
        stranded'[p] = IF p \in Zombies \ zombiesAlerted THEN stranded[p] + 1 ELSE stranded[p]
  BY DEF RaiseAlarms
<1>3. stranded' \in [PodUids -> Nat]
  BY DEF RaiseAlarms
<1>4. AlarmKey \in Uids
  BY AlarmAssumption DEF RaiseAlarms, AlarmKey, Uids, BoxStates
<1>5. multiplePods' \subseteq Uids /\ crowded' \in [Uids -> Nat]
  <2>1. CASE RaiseCrowded
    <3>1. multiplePods' \subseteq Uids
      BY <1>4, <2>1 DEF RaiseCrowded
    <3>2. crowded' \in [Uids -> Nat]
      BY <1>4, <2>1 DEF RaiseCrowded, AlarmKey
    <3> QED
      BY <3>1, <3>2
  <2>2. CASE UNCHANGED <<multiplePods, crowded>>
    BY <2>2
  <2> QED
    BY <2>1, <2>2 DEF RaiseAlarms
<1>6. AlarmTypeOK'
  BY <1>1, <1>3, <1>5 DEF RaiseAlarms
<1> QED
  BY <1>1, <1>2, <1>6

LEMMA WatchesTypes ==
  ASSUME AlarmTypeOK, SeePods \/ SeeBox
  PROVE  AlarmTypeOK' /\ UNCHANGED <<stranded, zombiesAlerted>>
BY DEF AlarmTypeOK, SeePods, SeeBox

LEMMA WorldTypes ==
  ASSUME AlarmTypeOK, World
  PROVE  AlarmTypeOK' /\ UNCHANGED <<stranded, zombiesAlerted>>
<1> USE AlarmAssumption DEF AlarmTypeOK, ClusterStep
<1>1. NoBox \in BoxStates
  BY DEF NoBox, BoxStates
<1>2. CASE Created
  <2>1. born' \in 0..MaxUid
    BY <1>2 DEF Created
  <2>2. box' \in BoxStates
    BY <1>2, <1>1, <2>1 DEF Created, BoxStates
  <2> QED
    BY <1>2, <2>1, <2>2 DEF Created
<1>3. CASE Flips
  <2>1. flips' \in 0..MaxFlips
    BY <1>3 DEF Flips
  <2>2. box' \in BoxStates
    BY <1>3 DEF Flips, BoxStates
  <2> QED
    BY <1>3, <2>1, <2>2 DEF Flips
<1>4. CASE Settles
  <2>1. box' \in BoxStates
    BY <1>4 DEF Settles, BoxStates
  <2> QED
    BY <1>4, <2>1 DEF Settles
<1>5. CASE Deleted
  <2>1. box' \in BoxStates
    BY <1>5, <1>1 DEF Deleted, BoxStates
  <2> QED
    BY <1>5, <2>1 DEF Deleted
<1>6. ASSUME NEW p \in PodUids, PodMoves(p)
      PROVE  AlarmTypeOK' /\ UNCHANGED <<stranded, zombiesAlerted>>
  <2>1. pods' \in [PodUids -> PodStates]
    BY <1>6 DEF PodMoves, PodStates, BoxStates
  <2>2. late' \subseteq PodUids
    BY <1>6 DEF PodMoves
  <2> QED
    BY <1>6, <2>1, <2>2 DEF PodMoves
<1> QED
  BY <1>2, <1>3, <1>4, <1>5, <1>6 DEF World, Created, Flips, Settles, Deleted

-----------------------------------------------------------------------------
LEMMA NextMonitorInv == MonitorInv /\ [Next]_vars => MonitorInv'
<1> SUFFICES ASSUME MonitorInv, [Next]_vars PROVE MonitorInv'
  OBVIOUS
<1>1. ProbeTypeOK /\ AlarmTypeOK /\ FreshBefore /\ OncePerLife
  BY DEF MonitorInv, TypeOK
<1>2. crashes \in Nat /\ stranded \in [PodUids -> Nat]
  BY <1>1, ProbeAssumption DEF ProbeTypeOK, AlarmTypeOK
<1>3. ASSUME UNCHANGED alarmVars, ProbeTypeOK', crashes' = crashes, synced => synced'
      PROVE  MonitorInv'
  BY <1>1, <1>3 DEF MonitorInv, TypeOK, AlarmTypeOK, FreshBefore, OncePerLife, alarmVars
<1>4. ASSUME UNCHANGED probeVars, AlarmTypeOK', UNCHANGED <<stranded, zombiesAlerted>>
      PROVE  MonitorInv'
  BY <1>1, <1>4 DEF MonitorInv, TypeOK, ProbeTypeOK, FreshBefore, OncePerLife, probeVars
<1>5. CASE ProcessStep
  BY <1>1, <1>3, <1>5, ProcessStepTypes DEF ProcessStep
<1>6. CASE ProcessEnds
  <2>1. ProbeTypeOK' /\ AlarmTypeOK'
    BY <1>1, <1>6, EndsTypes, AlarmsRestartTypes DEF ProcessEnds
  <2>2. zombiesAlerted' = {} /\ stranded' = stranded
    BY <1>6 DEF ProcessEnds, AlarmsRestart
  <2>3. ASSUME NEW p \in PodUids PROVE stranded[p] <= crashes'
    <3>1. crashes' = crashes + 1 \/ (crashes' = crashes /\ p \notin zombiesAlerted)
      BY <1>1, <1>6, EndsTypes DEF ProcessEnds, FreshBefore
    <3> QED
      BY <1>1, <1>2, <3>1 DEF OncePerLife
  <2> QED
    BY <2>1, <2>2, <2>3 DEF MonitorInv, TypeOK, FreshBefore, OncePerLife
<1>7. CASE Reconciles
  <2>1. AlarmTypeOK' /\ ProbeTypeOK' /\ synced' /\ crashes' = crashes
    BY <1>1, <1>7, RaiseAlarmsOnce DEF Reconciles, Operating, ProbeTypeOK, probeVars
  <2>2. ASSUME NEW p \in PodUids
        PROVE  stranded'[p] <= IF p \in zombiesAlerted' THEN 1 + crashes ELSE crashes
    BY <1>1, <1>2, <1>7, RaiseAlarmsOnce DEF Reconciles, OncePerLife
  <2> QED
    BY <2>1, <2>2 DEF MonitorInv, TypeOK, FreshBefore, OncePerLife
<1>8. CASE Watches
  BY <1>1, <1>4, <1>8, WatchesTypes DEF Watches
<1>9. CASE Cluster /\ UNCHANGED alarmVars
  <2>1. changes' \in 0..MaxChanges
    BY <1>1, <1>9, ProbeAssumption DEF Cluster, ProbeTypeOK
  <2>2. ProbeTypeOK'
    BY <1>1, <1>9, <2>1, Zenon DEF Cluster, ProbeTypeOK
  <2> QED
    BY <1>3, <1>9, <2>2 DEF Cluster
<1>10. CASE World /\ UNCHANGED probeVars
  BY <1>1, <1>4, <1>10, WorldTypes
<1>11. CASE UNCHANGED vars
  BY <1>1, <1>3, <1>11 DEF vars, probeVars, ProbeTypeOK
<1> QED
  BY <1>5, <1>6, <1>7, <1>8, <1>9, <1>10, <1>11 DEF Next

\* The Events of a Pod are one in each life of the process at most, for any number of Pods,
\* incarnations, crashes and failed syncs (reconciler.go zombie, manager.go Run).
THEOREM MonitorInvariance == Spec => []MonitorInv
BY InitMonitorInv, NextMonitorInv, PTL DEF Spec

\* Process, probe, caches and maps keep their types.
THEOREM MonitorTypeCorrect == Spec => []TypeOK
<1>1. MonitorInv => TypeOK
  BY DEF MonitorInv
<1> QED
  BY <1>1, MonitorInvariance, PTL

\* No Pod is alarmed of more often than the process was started after a crash.
THEOREM AlarmedOnce == Spec => []AlarmsOnce
<1>1. ASSUME MonitorInv PROVE AlarmsOnce
  <2>1. crashes \in Nat /\ stranded \in [PodUids -> Nat]
    BY <1>1, ProbeAssumption DEF MonitorInv, TypeOK, ProbeTypeOK, AlarmTypeOK
  <2> QED
    BY <1>1, <2>1 DEF MonitorInv, OncePerLife, AlarmsOnce
<1> QED
  BY <1>1, MonitorInvariance, PTL
=============================================================================
