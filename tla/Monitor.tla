------------------------------- MODULE Monitor -------------------------------
(***************************************************************************)
(* What operators see of the session controller: its readiness, its alerts *)
(* and its alarms, over one process that starts, waits, runs and crashes.  *)
(***************************************************************************)
EXTENDS CRDProbe, Alarms

vars == <<probeVars, alarmVars>>

Init == ProbeInit /\ AlarmInit

\* The maps and the caches go with the process.
ProcessEnds == (Crash \/ SyncFails) /\ AlarmsRestart

ProcessStep == (Checks \/ Comes) /\ UNCHANGED alarmVars

\* Reconciles need synced caches; the Sandbox watch needs the CRD.
Reconciles == Operating /\ RaiseAlarms /\ UNCHANGED probeVars

Watches ==
  /\ Operating
  /\ \/ SeePods
     \/ crd = "served" /\ SeeBox
  /\ UNCHANGED probeVars

Next ==
  \/ ProcessStep
  \/ ProcessEnds
  \/ Reconciles
  \/ Watches
  \/ Cluster /\ UNCHANGED alarmVars
  \/ World /\ UNCHANGED probeVars

Spec == Init /\ [][Next]_vars

\* The kubelet restarts the process, tickers tick, informers list and watch, and the
\* queue comes to every Sandbox.
Fairness ==
  /\ WF_vars(Checks /\ UNCHANGED alarmVars)
  /\ WF_vars(Comes /\ UNCHANGED alarmVars)
  /\ WF_vars(SyncFails /\ AlarmsRestart)
  /\ WF_vars(Reconciles)
  /\ WF_vars(Operating /\ SeePods /\ UNCHANGED probeVars)
  /\ WF_vars(Operating /\ crd = "served" /\ SeeBox /\ UNCHANGED probeVars)

FairSpec == Spec /\ Fairness

-----------------------------------------------------------------------------
TypeOK == ProbeTypeOK /\ AlarmTypeOK

\* AlarmsOnce: one process raises one Event for a stuck Pod, whatever reconciles,
\* recreations of the Sandbox and late caches come in between (reconciler.go zombie).
AlarmsOnce ==
  \A p \in PodUids : stranded[p] <= 1 + crashes

\* ReadinessFollowsCRD: a CRD that stays makes the controller ready for good and stops the
\* not-ready alert, whatever came before; one that stays away makes it unready for good
\* (manager.go Run, check; charts/shock/templates/prometheusrule.yaml).
ReadinessFollowsCRD ==
  /\ <>[](crd = "served") => <>[](Ready /\ ~AlertOn)
  /\ <>[](crd # "served") => <>[]~Ready

\* AlertRaised: when the CRD is removed for good, the gauge comes to say so
\* (metrics.go CRDServed "is 1 while sandboxes.agents.x-k8s.io/v1beta1 is served").
AlertRaised == <>[](crd = "gone") => <>[]AlertOn

HasStranded(p) == box.uid # 0 /\ pods[p].owner = box.uid /\ p \in late

\* A reconcile does not get to the alarms, or sees nothing new.
LeftAlone == box.deleting \/ ~box.settled \/ crd # "served"

\* StrandedAlarmed: a Pod stuck Terminating gets its Event, unless it goes, or reconciles
\* never stay able to reach the alarm (reconciler.go Reconcile, zombie).
StrandedAlarmed ==
  \A p \in PodUids :
    HasStranded(p) ~>
      (stranded[p] > 0 \/ ~HasStranded(p) \/ LeftAlone)

\* StrandedExported: such a Pod is in the scrapes, also when its Sandbox is being deleted
\* and no Event will come (metrics.go Collect).
StrandedExported ==
  \A p \in PodUids :
    HasStranded(p) ~>
      ((Operating /\ p \in Exported) \/ ~HasStranded(p) \/ crd # "served")

\* CrowdAlarmed: every incarnation of a Sandbox with too many Pods gets an Event of its
\* own, though the maps never forget an earlier one (reconciler.go alarm, forget).
CrowdAlarmed ==
  \A u \in Uids :
    (box.uid = u /\ box.multiple) ~>
      (crowded[u] > 0 \/ box.uid # u \/ ~box.multiple \/ LeftAlone)
=============================================================================
