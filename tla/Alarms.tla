------------------------------- MODULE Alarms -------------------------------
(***************************************************************************)
(* The session controller's alarms on one Sandbox name: an Event per Pod   *)
(* stuck Terminating (zombie), an Event per MultiplePods transition        *)
(* (alarm), and the Terminating series of the state collector.  Both       *)
(* Events are remembered by UID in maps that live as long as the process   *)
(* and from which nothing is dropped (forget).                             *)
(*                                                                         *)
(* Of a reconcile's earlier predicates it only matters that they may       *)
(* return first.  Time enters as the set of Pods whose deletion is longer  *)
(* ago than ZombieAlertAfter.                                              *)
(***************************************************************************)
EXTENDS Naturals, FiniteSets

CONSTANTS
  PodUids,    \* Pods, each of which lives once
  MaxUid,     \* bound: incarnations of the Sandbox
  MaxFlips    \* bound: changes of the Sandbox's Ready condition and spec

ASSUME AlarmAssumption == MaxUid \in Nat /\ MaxFlips \in Nat

VARIABLES
  box,             \* the Sandbox: uid (0 when there is none) and what the alarms read
  born,            \* incarnations so far
  pods,            \* [PodUids -> owner and phase]
  late,            \* Pods Terminating for longer than ZombieAlertAfter
  seenBox,         \* the Sandbox cache
  seenPods,        \* the Pod cache
  zombiesAlerted,  \* Reconciler.zombiesAlerted
  multiplePods,    \* Reconciler.multiplePods: the UIDs it holds true
  flips,
  stranded,        \* history: [PodUids -> PodStuckTerminating Events]
  crowded          \* history: [UIDs -> MultiplePods Events]

alarmVars ==
  <<box, born, pods, late, seenBox, seenPods, zombiesAlerted, multiplePods, flips,
    stranded, crowded>>

Uids == 1..MaxUid

\* "settled": spawnObservation, sleep and wake have nothing to do, so that a reconcile
\* gets as far as the alarms.
BoxStates == [uid : 0..MaxUid, deleting : BOOLEAN, multiple : BOOLEAN, settled : BOOLEAN]
PodStates == [owner : 0..MaxUid, phase : {"none", "live", "terminating", "gone"}]

NoBox == [uid |-> 0, deleting |-> FALSE, multiple |-> FALSE, settled |-> TRUE]
NoPod == [owner |-> 0, phase |-> "none"]

AlarmTypeOK ==
  /\ box \in BoxStates /\ seenBox \in BoxStates
  /\ born \in 0..MaxUid
  /\ pods \in [PodUids -> PodStates] /\ seenPods \in [PodUids -> PodStates]
  /\ late \subseteq PodUids
  /\ zombiesAlerted \subseteq PodUids
  /\ multiplePods \subseteq Uids
  /\ flips \in 0..MaxFlips
  /\ stranded \in [PodUids -> Nat]
  /\ crowded \in [Uids -> Nat]

AlarmInit ==
  /\ box = NoBox /\ seenBox = NoBox
  /\ born = 0
  /\ pods = [p \in PodUids |-> NoPod] /\ seenPods = pods
  /\ late = {}
  /\ zombiesAlerted = {}
  /\ multiplePods = {}
  /\ flips = 0
  /\ stranded = [p \in PodUids |-> 0]
  /\ crowded = [u \in Uids |-> 0]

-----------------------------------------------------------------------------
(***************************************************************************)
(* The cluster.                                                            *)
(***************************************************************************)

ClusterStep ==
  UNCHANGED <<seenBox, seenPods, zombiesAlerted, multiplePods, stranded, crowded>>

Created ==
  /\ box.uid = 0
  /\ born < MaxUid
  /\ born' = born + 1
  /\ box' = [NoBox EXCEPT !.uid = born']
  /\ UNCHANGED <<pods, late, flips>>
  /\ ClusterStep

\* The Ready condition, or whether an earlier predicate has work.
Flips ==
  /\ box.uid # 0
  /\ flips < MaxFlips
  /\ flips' = flips + 1
  /\ \/ box' = [box EXCEPT !.multiple = ~@]
     \/ box.settled /\ box' = [box EXCEPT !.settled = FALSE]
  /\ UNCHANGED <<born, pods, late>>
  /\ ClusterStep

\* The predicates' writes get through.
Settles ==
  /\ box.uid # 0
  /\ ~box.settled
  /\ box' = [box EXCEPT !.settled = TRUE]
  /\ UNCHANGED <<born, pods, late, flips>>
  /\ ClusterStep

Deleted ==
  /\ box.uid # 0
  /\ \/ ~box.deleting /\ box' = [box EXCEPT !.deleting = TRUE]
     \/ box' = NoBox
  /\ UNCHANGED <<born, pods, late, flips>>
  /\ ClusterStep

PodMoves(p) ==
  /\ \/ /\ pods[p].phase = "none" /\ box.uid # 0 /\ ~box.deleting
        /\ pods' = [pods EXCEPT ![p] = [owner |-> box.uid, phase |-> "live"]]
        /\ UNCHANGED late
     \/ /\ pods[p].phase = "live"
        /\ pods' = [pods EXCEPT ![p].phase = "terminating"]
        /\ UNCHANGED late
     \/ /\ pods[p].phase = "terminating"
        /\ pods' = [pods EXCEPT ![p].phase = "gone"]
        /\ late' = late \ {p}
     \/ /\ pods[p].phase = "terminating" /\ p \notin late
        /\ late' = late \cup {p}
        /\ UNCHANGED pods
  /\ UNCHANGED <<box, born, flips>>
  /\ ClusterStep

\* Whoever deletes, fails or crowds Sandboxes and Pods.
World == Created \/ Flips \/ Settles \/ Deleted \/ \E p \in PodUids : PodMoves(p)

-----------------------------------------------------------------------------
(***************************************************************************)
(* The controller.                                                         *)
(***************************************************************************)

SeeBox ==
  /\ seenBox # box
  /\ seenBox' = box
  /\ UNCHANGED <<box, born, pods, late, seenPods, zombiesAlerted, multiplePods, flips,
                 stranded, crowded>>

SeePods ==
  /\ seenPods # pods
  /\ seenPods' = pods
  /\ UNCHANGED <<box, born, pods, late, seenBox, zombiesAlerted, multiplePods, flips,
                 stranded, crowded>>

\* The cached Pods controlled by the cached Sandbox's UID.
Owned ==
  {p \in PodUids : seenPods[p].owner = seenBox.uid
                  /\ seenPods[p].phase \in {"live", "terminating"}}

\* The Pods zombie finds past the threshold: the deletion time is the cache's, the
\* clock is not.
Zombies == {p \in Owned : seenPods[p].phase = "terminating" /\ (p \in late \/ pods[p].phase = "gone")}

\* (mutant) remembered by name, not by UID
AlarmKeyByName == 0

\* The key of multiplePods.
AlarmKey == seenBox.uid

\* (mutant) a Pod is forgotten with its Event
RememberedForgetful == {}

\* (mutant) a Pod is remembered before its age is looked at
RememberedEarly == zombiesAlerted \cup {p \in Owned : seenPods[p].phase = "terminating"}

Remembered == zombiesAlerted \cup Zombies

\* alarm: one Event each time MultiplePods comes up.
RaiseCrowded ==
  /\ multiplePods' = IF seenBox.multiple THEN multiplePods \cup {AlarmKey}
                     ELSE multiplePods \ {AlarmKey}
  /\ crowded' = IF seenBox.multiple /\ AlarmKey \notin multiplePods
                THEN [crowded EXCEPT ![seenBox.uid] = @ + 1] ELSE crowded

\* A reconcile that gets past spawnObservation, sleep and wake: zombie, and alarm unless
\* gc, in between, returns first: it deletes, or fails.
RaiseAlarms ==
  /\ seenBox.uid # 0
  /\ ~seenBox.deleting
  /\ seenBox.settled
  /\ zombiesAlerted' = Remembered
  /\ stranded' = [p \in PodUids |->
                    IF p \in Zombies \ zombiesAlerted THEN stranded[p] + 1 ELSE stranded[p]]
  /\ RaiseCrowded \/ UNCHANGED <<multiplePods, crowded>>
  /\ <<zombiesAlerted, stranded, multiplePods, crowded>>'
       # <<zombiesAlerted, stranded, multiplePods, crowded>>
  /\ UNCHANGED <<box, born, pods, late, seenBox, seenPods, flips>>

\* The next process begins with a new Reconciler, whose maps are empty (Run), and with
\* caches that are listed anew.
AlarmsRestart ==
  /\ seenBox' = NoBox
  /\ seenPods' = [p \in PodUids |-> NoPod]
  /\ zombiesAlerted' = {}
  /\ multiplePods' = {}
  /\ UNCHANGED <<box, born, pods, late, flips, stranded, crowded>>

\* (mutant) Pods are matched to Sandboxes that are not being deleted
ExportedUndeleted == IF seenBox.deleting THEN {} ELSE Owned

\* Collect: the Pods whose Sandbox the cache lists and that are Terminating.
Exported == {p \in Owned : seenBox.uid # 0 /\ seenPods[p].phase = "terminating"}
=============================================================================
