------------------------------ MODULE OrderInv ------------------------------
(***************************************************************************)
(* The inductive invariant behind what Lifecycle says about orders: where  *)
(* an accepted order is, which Secret and Pod stand for it, and what the   *)
(* reads held by hooks, caches and agent-sandbox still say of it.          *)
(* Built on LifecycleInv; OrderProofs and AttemptProofs prove its parts.   *)
(***************************************************************************)
EXTENDS LifecycleInv

\* The control plane delivers an order with one attempt (shock-spec section 6, "stable
\* attempts for redelivery").  wedge shows what happens otherwise.
OneAttemptPerId == \A a, b \in Offers : a.id = b.id => a.attempt = b.attempt

\* The Sandbox as it is and as it has been read.
Objects == Reads \cup ({sb} \ {Nil})

\* The Pod as it is and as it has been read.
PodReads == ({cache[c].pod : c \in Controllers} \cup {pod}) \ {Nil}

\* An order that was offered, by its id and attempt.
Offered(id, attempt) == \E o \in Offers : o.id = id /\ o.attempt = attempt

Spawned(uid, id) == WorkOrderSecretName(uid, id) \in spawned

HasSecret(uid, id) == \E x \in secrets : x.name = WorkOrderSecretName(uid, id)

\* What the annotations and the podTemplate of one Sandbox say fits together, at every
\* write: the pending order is the last accepted one, pointers are to its own Secret, and
\* the order installed is the one last applied.
Coherent(s) ==
  /\ s.pending \in {Nil, s.lastId}
  /\ s.pendingSecret # Nil =>
       s.pending # Nil /\ s.pendingSecret = WorkOrderSecretName(s.uid, s.pending)
  /\ s.podOrder = s.applied
  /\ s.podOrder # Nil => s.podSecret = WorkOrderSecretName(s.uid, s.podOrder)
  /\ s.pending = Nil => s.applied = s.lastId

\* Only SHOCK's Sandboxes have orders; their last one was offered, and the one applied is
\* it or an earlier one.
Accepted(s) ==
  IF s.managed
  THEN /\ Offered(s.lastId, s.lastAttempt)
       /\ s.applied \notin {Nil, s.lastId} =>
            \E o \in Offers : o.id = s.applied /\ o.attempt < s.lastAttempt
  ELSE /\ s.lastId = Nil
       /\ s.mode = "Suspended"
       /\ s.finished = 0
       /\ ~s.suspendedAt

ObjectsFit == \A s \in Objects : Coherent(s) /\ Accepted(s)

\* An order no longer pending had its Pod.
SettledReads == \A s \in Objects : s.managed /\ s.pending = Nil => Spawned(s.uid, s.lastId)

\* A later write of the same Sandbox: the labels stay, and within one acceptance a pending
\* order is only prepared, or settled.
Follows(s, t) ==
  /\ s.managed = t.managed
  /\ \/ s.lastAttempt < t.lastAttempt
     \/ /\ s.lastAttempt = t.lastAttempt
        /\ s.lastId = t.lastId
        /\ s.pending = Nil => t.pending = Nil
        /\ s.pendingSecret # Nil => t.pending = Nil \/ t.pendingSecret # Nil

ReadsFollowed == \A s \in Reads : sb # Nil /\ s.uid = sb.uid => Follows(s, sb)

\* A Pod is of an order it mounts the Secret of; it is on record.
PodsKnown ==
  /\ \A p \in PodReads :
       /\ p.order # Nil
       /\ p.secret = WorkOrderSecretName(p.owner, p.order)
       /\ Spawned(p.owner, p.order)
       /\ p.owner <= lastUid
  /\ \A n \in spawned : n.uid <= lastUid

\* Secrets are of offered orders, by their names.
SecretsKnown ==
  \A x \in secrets :
    /\ x.name = WorkOrderSecretName(x.owner, x.order)
    /\ Offered(x.order, x.attempt)
    /\ x.owner <= lastUid

\* Nothing is made in the name of a Sandbox that is not SHOCK's, which nothing but the
\* environment makes.
ForeignBare ==
  sb # Nil /\ ~sb.managed =>
    /\ "foreign" \in Disruptions
    /\ ~Owned(pod, sb.uid)
    /\ \A x \in secrets : x.owner # sb.uid

\* Where a write or a Pod of the live Sandbox points at a Secret, or a hook is about to
\* point, the Secret is there.
Backed ==
  sb # Nil =>
    /\ \A s \in Objects :
         s.uid = sb.uid =>
           /\ s.pendingSecret # Nil => HasSecret(s.uid, s.pending)
           /\ s.podOrder # Nil => HasSecret(s.uid, s.podOrder)
    /\ Owned(pod, sb.uid) => HasSecret(pod.owner, pod.order)
    /\ \A h \in Hooks :
         hooks[h].pc = "patch" /\ hooks[h].snap.uid = sb.uid =>
           HasSecret(hooks[h].snap.uid, hooks[h].offer.id)

\* A hook past Get holds a Sandbox it may repair or publish onto.
HookReady ==
  \A h \in Hooks :
    hooks[h].pc \in {"secret", "patch"} =>
      Evaluate(hooks[h].snap, hooks[h].offer) \in {"redelivery", "newer"}

\* OrderInv: inductive whatever is offered (hook.go and reconciler.go, every write of the
\* order annotations).
OrderInv ==
  /\ IInv
  /\ ObjectsFit
  /\ SettledReads
  /\ ReadsFollowed
  /\ PodsKnown
  /\ SecretsKnown
  /\ ForeignBare
  /\ Backed
  /\ HookReady

-----------------------------------------------------------------------------
\* An order answered 0 is of a UID handed out, and on its Sandbox it ran, was superseded,
\* or is pending and prepared.
OnTheWay(a) ==
  /\ Offered(a.id, a.attempt)
  /\ a.uid <= lastUid
  /\ Live(sb) /\ sb.uid = a.uid =>
       \/ Spawned(a.uid, a.id)
       \/ a.attempt < sb.lastAttempt
       \/ a.id = sb.pending /\ sb.pendingSecret # Nil

AckedOnTheWay == \A a \in acked : OnTheWay(a)

\* AnswerInv: what an answer of the hook stands for, when offers have one attempt per id.
AnswerInv == OrderInv /\ AckedOnTheWay /\ NoSpuriousReject

-----------------------------------------------------------------------------
\* No order with a higher attempt than the installed one has had a Pod.
SpawnedUpTo(s) ==
  \A b \in Offers :
    Spawned(s.uid, b.id) =>
      s.podOrder # Nil /\ \A a \in Offers : a.id = s.podOrder => b.attempt <= a.attempt

\* Pods follow the installed order, also the one agent-sandbox is about to make from an
\* older read; an order pending on a Suspended Sandbox is not installed yet.
InOrder ==
  /\ sb # Nil =>
       /\ SpawnedUpTo(sb)
       /\ Owned(pod, sb.uid) => pod.order = sb.podOrder
       /\ sb.mode = "Suspended" /\ sb.pending # Nil => sb.applied # sb.pending
  /\ agent # Nil /\ agent.mode = "Running" =>
       /\ SpawnedUpTo(agent)
       /\ sb # Nil /\ agent.uid = sb.uid => agent.podOrder = sb.podOrder

\* Deleting is an operator's doing.
DeletedByOperator == \A s \in Objects : s.deleting => "delete" \in Disruptions

PrecedenceInv == OrderInv /\ InOrder /\ DeletedByOperator

-----------------------------------------------------------------------------
\* Short of a drain: a Running Sandbox keeps its Pod, which is the one a current
\* Finished=True speaks of.
PodKept ==
  sb # Nil =>
    /\ sb.finished <= sb.gen
    /\ Owned(pod, sb.uid) /\ pod.terminating => sb.mode = "Suspended"
    /\ agent # Nil /\ agent.uid = sb.uid /\ agent.mode = "Suspended" /\ sb.mode = "Running" =>
         ~Owned(pod, sb.uid)
    /\ agent # Nil /\ agent.uid = sb.uid /\ agent.mode = "Running" =>
         ~(Owned(pod, sb.uid) /\ pod.terminating)
    /\ sb.mode = "Running" /\ RunnerFinished(sb) => Owned(pod, sb.uid) /\ pod.phase = "Finished"

\* Short of a deletion, too: no Pod outlives its Sandbox, and a Running Sandbox whose order
\* had a Pod has it still.
RunsOnce ==
  /\ pod # Nil => sb # Nil /\ pod.owner = sb.uid
  /\ agent # Nil /\ agent.mode = "Running" => sb # Nil /\ agent.uid = sb.uid
  /\ \A s \in ({sb} \cup {agent}) \ {Nil} :
       s.mode = "Running" /\ Spawned(s.uid, s.podOrder) => pod # Nil

RestInv == PrecedenceInv /\ ("drain" \notin Disruptions => PodKept)

RunInv ==
  PrecedenceInv /\ (Disruptions \cap {"drain", "delete"} = {} => PodKept /\ RunsOnce)
=============================================================================
