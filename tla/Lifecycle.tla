----------------------------- MODULE Lifecycle -----------------------------
(***************************************************************************)
(* One session of a SHOCK release: concurrent hooks, the session           *)
(* controller and everything around them, over one API server.             *)
(***************************************************************************)
EXTENDS Hook, SessionController, AgentSandbox

vars == <<apiVars, hookVars, cache, agentVars>>

Init ==
  /\ APIInit
  /\ HookInit
  /\ ControllerInit
  /\ AgentInit

Next ==
  \/ HookNext       /\ UNCHANGED <<cache, agentVars>>
  \/ ControllerNext /\ UNCHANGED <<hookVars, agentVars>>
  \/ AgentNext      /\ UNCHANGED <<hookVars, cache>>

Spec == Init /\ [][Next]_vars

\* Weak fairness, where the code or Kubernetes keeps trying: an invocation has a
\* deadline and no waits, controller-runtime requeues on watch events, errors and
\* resync, agent-sandbox is a controller too, and the kubelet ends a Pod it was told
\* to.  Nothing makes the control plane deliver, a runner finish, or a disruption happen.
Fairness ==
  /\ \A h \in Hooks : WF_vars(HookStep(h) /\ UNCHANGED <<cache, agentVars>>)
  /\ \A c \in Controllers :
       /\ WF_vars(Reconcile(c) /\ UNCHANGED <<hookVars, agentVars>>)
       /\ WF_vars(SyncSandbox(c) /\ UNCHANGED <<hookVars, agentVars>>)
       /\ WF_vars(SyncPod(c) /\ UNCHANGED <<hookVars, agentVars>>)
  /\ WF_vars(AgentStep /\ UNCHANGED <<hookVars, cache>>)
  /\ WF_vars(PodGone /\ UNCHANGED <<hookVars, cache>>)
  /\ WF_vars(Cascade /\ UNCHANGED <<hookVars, cache>>)
  /\ WF_vars(DeletionCompletes /\ UNCHANGED <<hookVars, cache>>)

FairSpec == Spec /\ Fairness

-----------------------------------------------------------------------------
TypeOK == APITypeOK /\ HookTypeOK /\ ControllerTypeOK /\ AgentTypeOK

Live(s) == s # Nil /\ s.managed

\* WakeGate: a current-generation Suspended=True, which is what Wake and GC act on,
\* means that this Sandbox has no Pod - not a terminating one, and none that
\* agent-sandbox is still about to create from an older read (shock-spec section 7,
\* "normative reading rule"; reconciler.go wake and idleSince).
WakeGate ==
  sb # Nil /\ SuspensionConfirmed(sb) =>
    /\ ~Owned(pod, sb.uid)
    /\ ~(agent # Nil /\ agent.uid = sb.uid /\ agent.mode = "Running")

\* SettledOrderRan: the pending intent is cleared only for an order whose own Pod was
\* created: an acknowledgement of order A never clears order B (reconciler.go
\* spawnObservation, with its independently stale Pod cache).
SettledOrderRan ==
  Live(sb) /\ sb.pending = Nil => WorkOrderSecretName(sb.uid, sb.lastId) \in spawned

\* The order is pending with everything Wake needs.
Prepared(s) ==
  s.pendingSecret # Nil /\ \E x \in secrets : x.name = s.pendingSecret /\ ValidWorkOrder(x, s)

\* AckedOrderKept: an order the hook answered exit 0 for has, as long as its Sandbox
\* lives, run, or been superseded by a higher attempt, or is pending with everything Wake
\* needs (hook.go reconcileExisting, repairRedelivery, publishNewer).
AckedOrderKept ==
  \A a \in acked :
    Live(sb) /\ sb.uid = a.uid =>
      \/ WorkOrderSecretName(a.uid, a.id) \in spawned
      \/ a.attempt < sb.lastAttempt
      \/ a.id = sb.pending /\ Prepared(sb)

\* PreparedOrderWakeable: once the hook has recorded pending-secret, Wake never
\* refuses the order: the Secret exists, is this Sandbox's and carries the accepted
\* attempt.  Otherwise the session is wedged until a newer order (reconciler.go wake).
PreparedOrderWakeable ==
  Live(sb) /\ sb.pendingSecret # Nil => WakePrepared(sb)

\* PodMatchesSecret: a Pod of the live Sandbox mounts the Secret of its own order, and
\* that Secret is there (reconciler.go wake, hook.go publishNewer's kept template).
PodMatchesSecret ==
  Live(sb) /\ Owned(pod, sb.uid) =>
    \E x \in secrets : x.name = pod.secret /\ x.order = pod.order /\ x.owner = sb.uid

\* NoSpuriousReject: exit 2 circuit-breaks the session until an admin retries, so
\* concurrent or repeated deliveries must never end in it: only two orders that really
\* share an attempt, or a Sandbox that is not SHOCK's (hook.go evaluate, verifySecret).
NoSpuriousReject ==
  \A r \in rejected :
    \/ r.why = "attempt" /\ \E o \in Offers : o.id # r.offer.id /\ o.attempt = r.offer.attempt
    \/ r.why = "foreign" /\ "foreign" \in Disruptions

\* NoSilentRecreate (shock-spec section 6): once an invocation has observed a Sandbox,
\* it never goes on to create another one.
NoSilentRecreate ==
  \A h \in Hooks : hooks[h].pc = "create" => hooks[h].seen = 0

\* AcceptanceMonotone: on one Sandbox the accepted attempt never goes back, and two
\* different orders are never accepted at one attempt, whatever hooks race (hook.go
\* evaluate and the pinned patch).
AcceptanceMonotone ==
  [][ sb # Nil /\ sb' # Nil /\ sb'.uid = sb.uid =>
        \/ sb'.lastAttempt > sb.lastAttempt
        \/ sb'.lastAttempt = sb.lastAttempt /\ sb'.lastId = sb.lastId ]_sb

\* WakesOnlyWhenStopped: the mode goes to Running only on a Sandbox that has no Pod, not
\* even one agent-sandbox is about to create from an older read: two runners never share
\* a workspace (reconciler.go wake, the current-generation Suspended=True gate).
WakesOnlyWhenStopped ==
  [][ sb # Nil /\ sb' # Nil /\ sb'.uid = sb.uid /\ sb.mode # "Running" /\ sb'.mode = "Running" =>
        /\ ~Owned(pod, sb.uid)
        /\ ~(agent # Nil /\ agent.uid = sb.uid /\ agent.mode = "Running") ]_sb

\* SleepsOnlyFinished: short of a drain, Sleep suspends only a Sandbox whose last
\* accepted order has a terminal Pod (reconciler.go sleep).
SleepsOnlyFinished ==
  [][ Live(sb) /\ sb' # Nil /\ sb.mode = "Running" /\ sb'.mode = "Suspended" /\ sb'.pending = Nil =>
        /\ Owned(pod, sb.uid)
        /\ pod.phase = "Finished"
        /\ pod.order = sb.lastId ]_sb

\* OneRunPerOrder: short of a drain or a deletion by an operator, no order gets a second
\* Pod on the same Sandbox: a consumed work order is left to the control plane (shock-spec
\* section 7; hook.go repairRedelivery, reconciler.go spawnObservation before sleep).
OneRunPerOrder ==
  [][ pod = Nil /\ pod' # Nil =>
        WorkOrderSecretName(pod'.owner, pod'.order) \notin spawned ]_pod

\* SpawnsInOrder: a Pod is never created for an order once a Pod of a higher attempt ran
\* on the same Sandbox, though agent-sandbox works from stale reads (Wake's gate).
SpawnsInOrder ==
  [][ pod = Nil /\ pod' # Nil =>
        \A a, b \in Offers :
          /\ a.id = pod'.order
          /\ WorkOrderSecretName(pod'.owner, b.id) \in spawned
          => b.attempt <= a.attempt ]_pod

\* CollectsOnlyRest: a live Sandbox disappears under SHOCK's hand only when it has no
\* pending order, its last order ran and no Pod is left: GC never takes a Sandbox a hook
\* has just published onto (reconciler.go gc, the delete preconditions).
CollectsOnlyRest ==
  [][ Live(sb) /\ sb' = Nil /\ ~sb.deleting =>
        /\ sb.pending = Nil
        /\ WorkOrderSecretName(sb.uid, sb.lastId) \in spawned
        /\ ~Owned(pod, sb.uid) ]_sb

\* ForeignUntouched: a bare Sandbox that is not SHOCK's, though the controller's selector
\* may let it through, is written by nobody but its own controller and an operator, and
\* nothing is made in its name (hook.go evaluate; the predicates of reconciler.go).
ForeignUntouched ==
  [][ sb # Nil /\ ~sb.managed =>
        /\ sb' # Nil => [sb' EXCEPT !.rv = sb.rv, !.gen = sb.gen, !.deleting = sb.deleting,
                                    !.suspended = sb.suspended] = sb
        /\ \A x \in secrets' : x.owner # sb.uid ]_<<sb, secrets>>

-----------------------------------------------------------------------------
\* PreparedOrderRuns: a prepared pending order is eventually started, or superseded, or
\* its Sandbox goes away: no schedule of hooks, caches and agent-sandbox wedges it.
PreparedOrderRuns ==
  \A id \in OrderIds :
    (Live(sb) /\ sb.pending = id /\ Prepared(sb)) ~>
      (\/ sb = Nil \/ sb.deleting \/ sb.lastId # id
       \/ WorkOrderSecretName(sb.uid, id) \in spawned)

\* FinishedRunnerSleeps: a Sandbox whose runner has finished does not stay Running.
FinishedRunnerSleeps ==
  (sb # Nil /\ sb.mode = "Running" /\ Owned(pod, sb.uid) /\ pod.phase = "Finished") ~>
  (sb = Nil \/ sb.mode = "Suspended")

\* IdleCollected: with GC on, a Sandbox asleep with nothing pending is collected unless
\* a newer order arrives: no path to sleep leaves out what GC goes by (idleSince).
IdleCollected ==
  (Live(sb) /\ ~sb.deleting /\ sb.mode = "Suspended" /\ sb.pending = Nil) ~>
  (sb = Nil \/ sb.deleting \/ sb.pending # Nil)
=============================================================================
