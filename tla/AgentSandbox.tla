---------------------------- MODULE AgentSandbox ----------------------------
(***************************************************************************)
(* EXTERNAL: what SHOCK relies on around it, modelled from how its code    *)
(* and its conformance test use it (src/test/e2e, src/plans/shock-spec.md).*)
(*                                                                         *)
(* agent-sandbox takes one Sandbox at a time: it reads it, then either     *)
(* acts on the Pod or writes status, pinned to what it read.  The read may *)
(* be stale by the time it acts, so a Pod of a superseded order may still  *)
(* be created after suspension was requested.  It sees the Pod as it is.   *)
(*                                                                         *)
(* The kubelet ends Pods, the runner finishes, nodes are drained, an       *)
(* operator deletes the Sandbox, something else may hold its name, and the *)
(* garbage collector removes what a gone Sandbox owned.                    *)
(***************************************************************************)
EXTENDS SandboxAPI

CONSTANTS
  Disruptions,     \* which of {"drain", "delete", "foreign"} may happen
  MaxDisruptions   \* bound: how many of them

ASSUME AgentAssumption ==
  /\ Disruptions \subseteq {"drain", "delete", "foreign"}
  /\ MaxDisruptions \in Nat

VARIABLES
  agent,        \* the Sandbox agent-sandbox is working on, as it read it, or Nil
  disruptions   \* disruptions so far

agentVars == <<agent, disruptions>>

AgentTypeOK ==
  /\ agent \in OrNil(Sandboxes)
  /\ disruptions \in Nat

AgentInit == agent = Nil /\ disruptions = 0

-----------------------------------------------------------------------------
AgentObserve ==
  /\ agent = Nil
  /\ sb # Nil
  /\ agent' = sb
  /\ UNCHANGED <<disruptions, apiVars>>

NeedsPod(s) == s.mode = "Running" /\ ~s.deleting /\ pod = Nil

\* Suspension deletes the owned Pod whatever its phase.
NeedsNoPod(s) == s.mode = "Suspended" /\ Owned(pod, s.uid) /\ ~pod.terminating

\* The Pod of the installed order.  A terminal Pod is never replaced while it exists.
AgentCreatePod ==
  /\ agent # Nil
  /\ NeedsPod(agent)
  /\ pod' = [owner |-> agent.uid, order |-> agent.podOrder, secret |-> agent.podSecret,
             phase |-> "Live", terminating |-> FALSE]
  /\ spawned' = spawned \cup {WorkOrderSecretName(agent.uid, agent.podOrder)}
  /\ agent' = Nil
  /\ UNCHANGED <<disruptions, sb, secrets, lastUid>>

AgentDeletePod ==
  /\ agent # Nil
  /\ NeedsNoPod(agent)
  /\ pod' = [pod EXCEPT !.terminating = TRUE]
  /\ agent' = Nil
  /\ UNCHANGED <<disruptions, sb, secrets, lastUid, spawned>>

\* Suspended=True only once no owned Pod is left; Finished=True for a terminal Pod.
Observed(s) ==
  [s EXCEPT !.suspended = IF s.mode = "Suspended" /\ ~Owned(pod, s.uid) THEN s.gen ELSE 0,
            !.finished  = IF Owned(pod, s.uid) /\ pod.phase = "Finished" THEN s.gen ELSE 0]

AgentStatus ==
  /\ agent # Nil
  /\ ~NeedsPod(agent)
  /\ ~NeedsNoPod(agent)
  /\ sb' = IF Current(agent) /\ Observed(agent) # agent THEN Written(Observed(agent)) ELSE sb
  /\ agent' = Nil
  /\ UNCHANGED <<disruptions, secrets, pod, lastUid, spawned>>

AgentStep == AgentObserve \/ AgentCreatePod \/ AgentDeletePod \/ AgentStatus

-----------------------------------------------------------------------------
\* The runner exits or fails: the Pod is terminal and stays.
RunnerFinishes ==
  /\ pod # Nil
  /\ pod.phase = "Live"
  /\ pod' = [pod EXCEPT !.phase = "Finished"]
  /\ UNCHANGED <<agentVars, sb, secrets, lastUid, spawned>>

PodGone ==
  /\ pod # Nil
  /\ pod.terminating
  /\ pod' = Nil
  /\ UNCHANGED <<agentVars, sb, secrets, lastUid, spawned>>

Orphaned(owner) == ~(sb # Nil /\ sb.uid = owner)

\* Garbage collection of what a gone Sandbox owned.
Cascade ==
  \/ /\ pod # Nil /\ ~pod.terminating /\ Orphaned(pod.owner)
     /\ pod' = [pod EXCEPT !.terminating = TRUE]
     /\ UNCHANGED <<agentVars, sb, secrets, lastUid, spawned>>
  \/ /\ \E x \in secrets : Orphaned(x.owner)
     /\ secrets' = {x \in secrets : ~Orphaned(x.owner)}
     /\ UNCHANGED <<agentVars, sb, pod, lastUid, spawned>>

-----------------------------------------------------------------------------
Disrupt(kind) ==
  /\ kind \in Disruptions
  /\ disruptions < MaxDisruptions
  /\ disruptions' = disruptions + 1
  /\ UNCHANGED agent

\* A node drain deletes the Pod.
Drain ==
  /\ Disrupt("drain")
  /\ pod # Nil
  /\ ~pod.terminating
  /\ pod' = [pod EXCEPT !.terminating = TRUE]
  /\ UNCHANGED <<sb, secrets, lastUid, spawned>>

\* kubectl delete with foreground propagation: the object stays, being deleted ...
OperatorDeletes ==
  /\ Disrupt("delete")
  /\ sb # Nil
  /\ ~sb.deleting
  /\ sb' = WrittenSpec([sb EXCEPT !.deleting = TRUE])
  /\ UNCHANGED <<secrets, pod, lastUid, spawned>>

\* ... until its dependents are gone.
DeletionCompletes ==
  /\ sb # Nil
  /\ sb.deleting
  /\ sb' = Nil
  /\ UNCHANGED <<agentVars, secrets, pod, lastUid, spawned>>

\* A bare Sandbox of that name that SHOCK did not make: evaluate tells it by its labels, and
\* the controller may see it all the same.
ForeignAppears ==
  /\ Disrupt("foreign")
  /\ sb = Nil
  /\ lastUid < MaxUID
  /\ \E selected \in BOOLEAN :
       sb' = [ uid |-> lastUid + 1, rv |-> 1, gen |-> 1, managed |-> FALSE,
               selected |-> selected, deleting |-> FALSE, mode |-> "Suspended",
               pending |-> Nil, pendingSecret |-> Nil, lastId |-> Nil, lastAttempt |-> 0,
               lastSecret |-> Nil, applied |-> Nil, suspendedAt |-> FALSE,
               podOrder |-> Nil, podSecret |-> Nil, suspended |-> 0, finished |-> 0 ]
  /\ lastUid' = lastUid + 1
  /\ UNCHANGED <<secrets, pod, spawned>>

Environment ==
  \/ RunnerFinishes \/ PodGone \/ Cascade
  \/ Drain \/ OperatorDeletes \/ DeletionCompletes \/ ForeignAppears

AgentNext == AgentStep \/ Environment
=============================================================================
