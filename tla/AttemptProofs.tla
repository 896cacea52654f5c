---------------------------- MODULE AttemptProofs ----------------------------
(***************************************************************************)
(* What holds of Spec when no two offers give one order different attempts *)
(* (OneAttemptPerId).  Everything is argued from the course a step takes   *)
(* (OrderProofs).                                                          *)
(*                                                                         *)
(* Answers: an order answered 0 is on its way and can be woken, and an     *)
(* order is only rejected for a real conflict or a foreign Sandbox         *)
(* (AnswerInv).  Each call of an invocation gives an answer that is true   *)
(* when it is given (HookAnswers), and later steps keep it true.           *)
(*                                                                         *)
(* Precedence: Pods follow the order of attempts (PrecedenceInv); the      *)
(* installed order changes only in Wake, the Pod only starts from          *)
(* agent-sandbox's read, and a read is gone once it has been acted on.     *)
(* Short of a drain a Running Sandbox keeps its Pod (RestInv), and short   *)
(* of an operator's deletion too no order gets a second Pod (RunInv).      *)
(*                                                                         *)
(* Refinement: Lifecycle implements SessionOrders.  Each move of the API   *)
(* objects is one action of the abstract session, or nothing it sees;      *)
(* PrecedenceInv tells which.                                              *)
(***************************************************************************)
EXTENDS OrderProofs, LifecycleRefinement

\* What NoSpuriousReject asks of one rejection.
Excused(r) ==
  \/ r.why = "attempt" /\ \E o \in Offers : o.id # r.offer.id /\ o.attempt = r.offer.attempt
  \/ r.why = "foreign" /\ "foreign" \in Disruptions

\* What a step may answer.
Answers ==
  /\ \A a \in acked' : a \in acked \/ OnTheWay(a)'
  /\ \A r \in rejected' : r \in rejected \/ Excused(r)

-----------------------------------------------------------------------------
(***************************************************************************)
(* An answer is true when it is given.                                     *)
(***************************************************************************)

\* An order has one attempt.
LEMMA AttemptOf ==
  ASSUME OneAttemptPerId, NEW o \in Offers, NEW attempt, Offered(o.id, attempt)
  PROVE  o.attempt = attempt
BY DEF OneAttemptPerId, Offered

\* exit 1, or none yet
LEMMA Silent == ASSUME UNCHANGED <<acked, rejected>> PROVE Answers
BY DEF Answers

LEMMA RetrySilent ==
  ASSUME NEW h \in Hooks, Retry(h)
  PROVE  Answers
BY Silent DEF Retry, ExitRetryable

\* exit 2, with cause
LEMMA Rejects ==
  ASSUME NEW h \in Hooks, NEW why, ExitNonRetryable(h, why),
         Excused([offer |-> hooks[h].offer, why |-> why])
  PROVE  Answers
BY DEF ExitNonRetryable, Answers

\* exit 0, on a Sandbox where the order is on its way
LEMMA Submits ==
  ASSUME NEW h \in Hooks, hooks[h].offer \in Offers, NEW s, ExitSubmitted(h, s),
         s.uid <= lastUid',
         sb' # Nil /\ sb'.managed /\ sb'.uid = s.uid =>
           \/ WorkOrderSecretName(s.uid, hooks[h].offer.id) \in spawned'
           \/ hooks[h].offer.attempt < sb'.lastAttempt
           \/ hooks[h].offer.id = sb'.pending /\ sb'.pendingSecret # Nil
  PROVE  Answers
<1>1. PICK a : a = [uid |-> s.uid, id |-> hooks[h].offer.id,
                    attempt |-> hooks[h].offer.attempt]
  OBVIOUS
<1>2. /\ acked' = acked \cup {a} /\ rejected' = rejected
      /\ a.uid = s.uid /\ a.id = hooks[h].offer.id /\ a.attempt = hooks[h].offer.attempt
  BY <1>1 DEF ExitSubmitted
<1>3. OnTheWay(a)'
  BY <1>2 DEF OnTheWay, Offered, Spawned, Live
<1> QED
  BY <1>2, <1>3 DEF Answers

LEMMA GetAnswers ==
  ASSUME OrderInv, NEW h \in Hooks, Get(h)
  PROVE  Answers
<1> DEFINE o == hooks[h].offer
<1>1. o \in Offers
  BY OfferTaken DEF OrderInv, Get
<1>2. UNCHANGED <<sb, lastUid, spawned>>
  BY DEF Get, apiVars
<1>3. CASE sb = Nil
  BY <1>3, Silent DEF Get, Goto, ExitRetryable
<1>4. CASE sb # Nil /\ ReconcileExisting(h, sb)
  <2>1. sb \in Sandboxes /\ sb \in Objects /\ Accepted(sb) /\ sb.uid <= lastUid
    BY <1>4, Grounds DEF OrderInv, IInv, TypeOK, APITypeOK, OrNil, Objects, ObjectsFit, NewestUid
  <2>2. CASE Evaluate(sb, o) = "foreign" /\ ExitNonRetryable(h, "foreign")
    <3>1. "foreign" \in Disruptions
      BY <1>4, <2>2 DEF Evaluate, OrderInv, ForeignBare
    <3> QED
      BY <2>2, <3>1, Rejects DEF Excused
  <2>3. CASE Evaluate(sb, o) = "conflict" /\ ExitNonRetryable(h, "attempt")
    <3>1. sb.managed /\ o.id # sb.lastId /\ o.attempt = sb.lastAttempt
      BY <2>3 DEF Evaluate
    <3>2. \E p \in Offers : p.id # o.id /\ p.attempt = o.attempt
      BY <2>1, <3>1 DEF Accepted, Offered
    <3> QED
      BY <2>3, <3>2, Rejects DEF Excused
  <2>4. CASE Evaluate(sb, o) = "superseded" /\ ExitSubmitted(h, sb)
    <3>1. o.attempt < sb'.lastAttempt
      BY <1>2, <2>4 DEF Evaluate
    <3> QED
      BY <1>1, <1>2, <2>1, <2>4, <3>1, Submits
  <2>5. CASE ExitRetryable(h) \/ Goto(h, "secret", sb)
    BY <2>5, Silent DEF ExitRetryable, Goto
  <2> QED
    BY <1>4, <2>2, <2>3, <2>4, <2>5 DEF ReconcileExisting
<1> QED
  BY <1>3, <1>4 DEF Get

\* The create body is a Sandbox that has the order: nothing to answer yet.
LEMMA CreateSandboxAnswers ==
  ASSUME NEW h \in Hooks, CreateSandbox(h)
  PROVE  Answers
<1>1. Evaluate(sb', hooks[h].offer) = "redelivery"
  BY DEF CreateSandbox, NewSandbox, Evaluate
<1> QED
  BY <1>1, Silent DEF CreateSandbox, ReconcileExisting, Goto

\* The Secret that is there is the one this order asks for.
LEMMA EnsureSecretAnswers ==
  ASSUME OneAttemptPerId, OrderInv, NEW h \in Hooks, EnsureSecret(h)
  PROVE  Answers
<1> DEFINE s == hooks[h].snap
           o == hooks[h].offer
           desired == WorkOrderSecret(s, o)
           found == {x \in secrets : x.name = desired.name}
<1>1. o \in Offers
  BY OfferTaken DEF OrderInv, EnsureSecret
<1>2. ASSUME NEW x \in secrets, x.name = desired.name
      PROVE  x = desired
  <2>1. /\ x.name = WorkOrderSecretName(x.owner, x.order)
        /\ Offered(x.order, x.attempt)
        /\ x \in Secrets
    BY DEF OrderInv, SecretsKnown, IInv, TypeOK, APITypeOK
  <2>2. x.name = WorkOrderSecretName(s.uid, o.id)
    BY <1>2 DEF WorkOrderSecret
  <2>3. x.owner = s.uid /\ x.order = o.id
    BY <2>1, <2>2 DEF WorkOrderSecretName
  <2>4. x.attempt = o.attempt
    BY <1>1, <2>1, <2>3, AttemptOf
  <2>5. x = [name |-> x.name, order |-> x.order, attempt |-> x.attempt, owner |-> x.owner]
    BY <2>1 DEF Secrets
  <2> QED
    BY <2>2, <2>3, <2>4, <2>5 DEF WorkOrderSecret
<1>3. found \in {{}, {desired}}
  BY <1>2
<1> QED
  BY <1>3, Silent DEF EnsureSecret, Goto

\* A pinned patch that went through leaves the order it accepted pending and prepared, or
\* settled.
LEMMA PatchAnswers ==
  ASSUME OrderInv, OrderInv', NEW h \in Hooks, hooks[h].pc = "patch", NEW t,
         PinnedPatch(h, t), UNCHANGED <<lastUid, spawned>>,
         t.uid = hooks[h].snap.uid, t.lastId = hooks[h].offer.id,
         t.pending = hooks[h].offer.id => t.pendingSecret # Nil
  PROVE  Answers
<1> DEFINE s == hooks[h].snap
           o == hooks[h].offer
<1>1. o \in Offers /\ s \in Reads
  BY OfferTaken, SnapHeld DEF OrderInv
<1>2. CASE Current(s) /\ sb' = t /\ ExitSubmitted(h, s)
  <2>1. s.uid <= lastUid'
    BY <1>1 DEF OrderInv, IInv, DatedReads, Dated
  <2>2. ASSUME sb' # Nil, sb'.managed
        PROVE  \/ WorkOrderSecretName(s.uid, o.id) \in spawned'
               \/ o.id = sb'.pending /\ sb'.pendingSecret # Nil
    <3>1. sb' \in Objects'
      BY <2>2 DEF Objects
    <3>2. /\ sb'.pending \in {Nil, sb'.lastId}
          /\ sb'.pending = Nil => WorkOrderSecretName(sb'.uid, sb'.lastId) \in spawned'
      BY <2>2, <3>1 DEF OrderInv, ObjectsFit, Coherent, SettledReads, Spawned
    <3> QED
      BY <1>2, <3>2
  <2> QED
    BY <1>1, <1>2, <2>1, <2>2, Submits
<1>3. CASE Retry(h)
  BY <1>3, RetrySilent
<1> QED
  BY <1>2, <1>3 DEF PinnedPatch

LEMMA RepairAnswers ==
  ASSUME OneAttemptPerId, OrderInv, OrderInv', NEW h \in Hooks, RepairRedelivery(h)
  PROVE  Answers
<1> DEFINE s == hooks[h].snap
           o == hooks[h].offer
           name == WorkOrderSecretName(s.uid, o.id)
<1>1. /\ hooks[h].pc = "patch" /\ o \in Offers /\ o.id # Nil /\ s \in Reads /\ s \in Sandboxes
      /\ UNCHANGED <<lastUid, spawned>>
  BY OfferHeld, SnapHeld DEF OrderInv, RepairRedelivery
<1>2. s.managed /\ o.id = s.lastId
  BY DEF RepairRedelivery, Evaluate
<1>3. Coherent(s) /\ Accepted(s) /\ s.uid <= lastUid'
  BY <1>1 DEF OrderInv, ObjectsFit, Objects, IInv, DatedReads, Dated
<1>4. ~PointsElsewhere(s, o)
  BY <1>1, <1>2, <1>3 DEF PointsElsewhere, Coherent
<1>5. name # Nil
  <2>1. o.id \in OrderIds /\ s.uid \in Nat
    BY <1>1, OfferHeld DEF Sandboxes
  <2>2. name \in SecretNames
    BY <2>1 DEF WorkOrderSecretName, SecretNames
  <2> QED
    BY <2>2, APIAssumption
<1>6. CASE Repaired(s, o) = s /\ UNCHANGED sb /\ ExitSubmitted(h, s)
  <2>1. s.pending = o.id => s.pendingSecret # Nil
    <3>1. Repaired(s, o).pendingSecret =
            IF s.pending = o.id /\ s.pendingSecret = Nil THEN name ELSE s.pendingSecret
      BY <1>1 DEF Repaired, Sandboxes
    <3> QED
      BY <1>5, <1>6, <3>1
  <2>2. ASSUME sb # Nil, sb.managed, sb.uid = s.uid
        PROVE  \/ WorkOrderSecretName(s.uid, o.id) \in spawned
               \/ o.attempt < sb.lastAttempt
               \/ o.id = sb.pending /\ sb.pendingSecret # Nil
    <3>1. Follows(s, sb)
      BY <1>1, <2>2 DEF OrderInv, ReadsFollowed
    <3>2. o.attempt = s.lastAttempt
      BY <1>1, <1>2, <1>3, AttemptOf DEF Accepted
    <3>3. sb \in Objects
      BY <2>2 DEF Objects
    <3>4. /\ sb.pending \in {Nil, sb.lastId}
          /\ sb.pending = Nil => WorkOrderSecretName(sb.uid, sb.lastId) \in spawned
      BY <2>2, <3>3 DEF OrderInv, ObjectsFit, Coherent, SettledReads, Spawned
    <3> QED
      BY <1>2, <1>3, <2>1, <2>2, <3>1, <3>2, <3>4 DEF Follows, Coherent
  <2> QED
    BY <1>1, <1>3, <1>6, <2>2, Submits
<1>7. CASE PinnedPatch(h, Written(Repaired(s, o)))
  <2> DEFINE t == Written(Repaired(s, o))
  <2>1. Repointed(s, t, o)
    BY <1>1, RepairedTurn
  <2> HIDE DEF t
  <2>2. t.uid = s.uid /\ t.lastId = o.id /\ (t.pending = o.id => t.pendingSecret # Nil)
    BY <1>2, <1>5, <2>1 DEF Repointed, SameSelf, SameOrder
  <2> QED
    BY <1>1, <1>7, <2>2, PatchAnswers DEF t
<1> QED
  BY <1>4, <1>6, <1>7 DEF RepairRedelivery

LEMMA PublishAnswers ==
  ASSUME OrderInv, OrderInv', NEW h \in Hooks, PublishNewer(h)
  PROVE  Answers
<1> DEFINE s == hooks[h].snap
           o == hooks[h].offer
<1>1. /\ hooks[h].pc = "patch" /\ o \in Offers /\ s \in Sandboxes
      /\ UNCHANGED <<lastUid, spawned>> /\ Evaluate(s, o) = "newer"
  BY OfferHeld, SnapHeld DEF OrderInv, PublishNewer
<1>2. WorkOrderSecretName(s.uid, o.id) # Nil
  <2>1. o.id \in OrderIds /\ s.uid \in Nat
    BY <1>1, OfferHeld DEF Sandboxes
  <2>2. WorkOrderSecretName(s.uid, o.id) \in SecretNames
    BY <2>1 DEF WorkOrderSecretName, SecretNames
  <2> QED
    BY <2>2, APIAssumption
<1>3. PICK t : /\ PinnedPatch(h, t)
               /\ \/ t = WrittenSpec(Published(s, o))
                  \/ t = Written(Published(s, o)) /\ Published(s, o).mode = s.mode
  BY DEF PublishNewer
<1>4. Superseded(s, t, o)
  BY <1>1, <1>3, PublishedTurn
<1>5. t.uid = s.uid /\ t.lastId = o.id /\ t.pendingSecret # Nil
  BY <1>2, <1>4 DEF Superseded, SameSelf
<1> QED
  BY <1>1, <1>3, <1>5, PatchAnswers
LEMMA NextAnswers ==
  ASSUME OneAttemptPerId, OrderInv, OrderInv', Next
  PROVE  Answers
<1>1. CASE HookNext
  <2>1. PICK h \in Hooks :
          (\E o \in Offers : Deliver(h, o)) \/ HookStep(h) \/ HookFails(h)
    BY <1>1 DEF HookNext
  <2>2. CASE (\E o \in Offers : Deliver(h, o)) \/ HookFails(h)
    BY <2>2, Silent DEF Deliver, HookFails, ExitRetryable
  <2>3. CASE HookStep(h)
    <3>1. CASE CreateLost(h)
      BY <3>1, RetrySilent DEF CreateLost
    <3> QED
      BY <2>3, <3>1, GetAnswers, CreateSandboxAnswers, EnsureSecretAnswers, RepairAnswers,
         PublishAnswers DEF HookStep
  <2> QED
    BY <2>1, <2>2, <2>3
<1>2. CASE UNCHANGED hookVars
  BY <1>2, Silent DEF hookVars
<1> QED
  BY <1>1, <1>2 DEF Next

-----------------------------------------------------------------------------
(***************************************************************************)
(* ... and stays true.                                                     *)
(***************************************************************************)

LEMMA AnswerStays ==
  ASSUME OneAttemptPerId, OrderInv, OrderInv', Course, NEW a \in acked, OnTheWay(a)
  PROVE  OnTheWay(a)'
<1>1. /\ a.uid \in Nat /\ a.attempt \in Nat /\ a.uid <= lastUid
      /\ lastUid \in Nat /\ lastUid' \in Nat /\ lastUid <= lastUid'
  BY Grounds DEF OnTheWay, OrderInv, IInv, TypeOK, HookTypeOK
<1>2. ASSUME sb' # Nil, sb'.managed, sb'.uid = a.uid
      PROVE  \/ WorkOrderSecretName(a.uid, a.id) \in spawned'
             \/ a.attempt < sb'.lastAttempt
             \/ a.id = sb'.pending /\ sb'.pendingSecret # Nil
  <2>1. sb # Nil /\ sb'.uid = sb.uid
    BY <1>1, <1>2, Becomes DEF Appeared
  <2>2. Follows(sb, sb')
    <3>1. CASE Turned
      BY <2>1, <3>1, TurnFollows DEF Turned
    <3> QED
      BY <1>2, <2>1, <3>1, Becomes DEF Follows
  <2>3. /\ sb \in Objects /\ sb' \in Objects' /\ sb \in Sandboxes /\ sb' \in Sandboxes
        /\ sb.managed
    BY <1>2, <2>1, <2>2, Grounds DEF Objects, OrNil, Follows
  <2>4. Coherent(sb) /\ Accepted(sb)
    BY <2>3 DEF OrderInv, ObjectsFit
  <2>5. /\ sb'.pending \in {Nil, sb'.lastId}
        /\ sb'.pendingSecret # Nil => sb'.pending # Nil
        /\ sb'.pending = Nil => WorkOrderSecretName(sb'.uid, sb'.lastId) \in spawned'
    BY <1>2, <2>3 DEF OrderInv, ObjectsFit, Coherent, SettledReads, Spawned
  <2>6. CASE Spawned(a.uid, a.id)
    BY <2>6, SpawnedGrows DEF Spawned
  <2>7. CASE a.attempt < sb.lastAttempt
    <3>1. sb.lastAttempt <= sb'.lastAttempt /\ sb.lastAttempt \in Nat /\ sb'.lastAttempt \in Nat
      BY <2>2, <2>3 DEF Follows, Sandboxes
    <3> QED
      BY <1>1, <2>7, <3>1
  <2>8. CASE a.id = sb.pending /\ sb.pendingSecret # Nil
    <3>1. a.id = sb.lastId
      BY <2>4, <2>8 DEF Coherent
    <3>2. a.attempt = sb.lastAttempt
      BY <2>3, <2>4, <3>1 DEF Accepted, Offered, OnTheWay, OneAttemptPerId
    <3>3. CASE sb.lastAttempt < sb'.lastAttempt
      BY <3>2, <3>3
    <3>4. CASE sb'.lastId = sb.lastId /\ (sb'.pending = Nil \/ sb'.pendingSecret # Nil)
      BY <1>2, <2>5, <3>1, <3>4
    <3> QED
      BY <2>2, <2>8, <3>3, <3>4 DEF Follows
  <2> QED
    BY <1>2, <2>1, <2>3, <2>6, <2>7, <2>8 DEF OnTheWay, Live
<1> QED
  BY <1>1, <1>2 DEF OnTheWay, Offered, Spawned, Live

-----------------------------------------------------------------------------
(***************************************************************************)
(* AnswerInv is inductive; what follows from it.                           *)
(***************************************************************************)

LEMMA InitAnswerInv == Init => AnswerInv
BY InitOrderInv DEF Init, HookInit, AnswerInv, AckedOnTheWay, NoSpuriousReject

LEMMA NextAnswerInv ==
  ASSUME OneAttemptPerId
  PROVE  AnswerInv /\ [Next]_vars => AnswerInv'
<1> SUFFICES ASSUME AnswerInv, [Next]_vars PROVE AnswerInv'
  OBVIOUS
<1>1. OrderInv /\ OrderInv' /\ \A a \in acked : OnTheWay(a)
  BY NextOrderInv DEF AnswerInv, AckedOnTheWay
<1>2. \A r \in rejected : Excused(r)
  BY DEF AnswerInv, NoSpuriousReject, Excused
<1>3. CASE Next
  <2>1. Answers /\ Course
    BY <1>1, <1>3, NextAnswers, NextCourse DEF OrderInv
  <2>2. \A a \in acked' : OnTheWay(a)'
    BY <1>1, <2>1, AnswerStays DEF Answers
  <2>3. \A r \in rejected' : Excused(r)
    BY <1>2, <2>1 DEF Answers
  <2> QED
    BY <1>1, <2>2, <2>3 DEF AnswerInv, AckedOnTheWay, NoSpuriousReject, Excused
<1>4. CASE UNCHANGED vars
  <2> USE <1>4 DEF vars, apiVars, hookVars
  <2>1. \A a \in acked' : OnTheWay(a)'
    BY <1>1 DEF OnTheWay, Offered, Spawned, Live
  <2>2. \A r \in rejected' : Excused(r)
    BY <1>2
  <2> QED
    BY <1>1, <2>1, <2>2 DEF AnswerInv, AckedOnTheWay, NoSpuriousReject, Excused
<1> QED
  BY <1>3, <1>4

\* What the hook has answered stays true, whatever hooks race and calls are lost, if the
\* control plane keeps to one attempt per order.
THEOREM AnswerInvariance ==
  ASSUME OneAttemptPerId
  PROVE  Spec => []AnswerInv
BY InitAnswerInv, NextAnswerInv, PTL DEF Spec

\* Wake never refuses a prepared order: its Secret is there, this Sandbox's, and of the
\* accepted attempt (reconciler.go wake; hook.go verifySecret).
LEMMA PreparedIsWakeable ==
  ASSUME OneAttemptPerId, OrderInv
  PROVE  PreparedOrderWakeable
<1>1. SUFFICES ASSUME Live(sb), sb.pendingSecret # Nil
               PROVE  WakePrepared(sb)
  BY DEF PreparedOrderWakeable
<1>2. sb \in Objects /\ Coherent(sb) /\ Accepted(sb)
  BY <1>1 DEF OrderInv, ObjectsFit, Objects, Live
<1>3. /\ sb.pending # Nil /\ sb.lastId = sb.pending
      /\ sb.pendingSecret = WorkOrderSecretName(sb.uid, sb.pending)
      /\ Offered(sb.pending, sb.lastAttempt)
  BY <1>1, <1>2 DEF Coherent, Accepted, Live
<1>4. PICK x \in secrets : x.name = WorkOrderSecretName(sb.uid, sb.pending)
  BY <1>1, <1>2 DEF OrderInv, Backed, HasSecret, Live
<1>5. x.name = WorkOrderSecretName(x.owner, x.order) /\ Offered(x.order, x.attempt)
  BY DEF OrderInv, SecretsKnown
<1>6. x.owner = sb.uid /\ x.order = sb.pending
  BY <1>4, <1>5 DEF WorkOrderSecretName
<1>7. x.attempt = sb.lastAttempt
  BY <1>3, <1>5, <1>6 DEF OneAttemptPerId, Offered
<1> QED
  BY <1>1, <1>3, <1>4, <1>6, <1>7 DEF WakePrepared, ValidWorkOrder

\* A session is never wedged by a Secret its pending order cannot be woken with.
THEOREM PreparedWakeable ==
  ASSUME OneAttemptPerId
  PROVE  Spec => []PreparedOrderWakeable
<1>1. OrderInv => PreparedOrderWakeable
  BY PreparedIsWakeable
<1> QED
  BY <1>1, OrderInvariance, PTL

\* exit 0 is never forgotten: the order ran, was superseded by a higher attempt, or waits
\* with all that Wake needs (hook.go reconcileExisting, repairRedelivery, publishNewer).
THEOREM AckedKept ==
  ASSUME OneAttemptPerId
  PROVE  Spec => []AckedOrderKept
<1>1. ASSUME AnswerInv PROVE AckedOrderKept
  <2>1. SUFFICES ASSUME NEW a \in acked, Live(sb), sb.uid = a.uid
                 PROVE  \/ WorkOrderSecretName(a.uid, a.id) \in spawned
                        \/ a.attempt < sb.lastAttempt
                        \/ a.id = sb.pending /\ Prepared(sb)
    BY DEF AckedOrderKept
  <2>2. OnTheWay(a)
    BY <1>1 DEF AnswerInv, AckedOnTheWay
  <2>3. sb.pendingSecret # Nil => Prepared(sb)
    BY <1>1, <2>1, PreparedIsWakeable
       DEF AnswerInv, PreparedOrderWakeable, WakePrepared, Prepared
  <2> QED
    BY <2>1, <2>2, <2>3 DEF OnTheWay, Spawned
<1>2. AnswerInv => AckedOrderKept
  BY <1>1
<1> QED
  BY <1>2, AnswerInvariance, PTL

\* exit 2 is only for orders that really share an attempt, or a Sandbox that is not SHOCK's:
\* no race or redelivery circuit-breaks a session (hook.go evaluate, verifySecret).
THEOREM RejectsWithCause ==
  ASSUME OneAttemptPerId
  PROVE  Spec => []NoSpuriousReject
<1>1. AnswerInv => NoSpuriousReject
  BY DEF AnswerInv
<1> QED
  BY <1>1, AnswerInvariance, PTL

-----------------------------------------------------------------------------
(***************************************************************************)
(* What a turn does to the installed order and the mode.                   *)
(***************************************************************************)

\* Wake alone installs an order and sets the mode to Running.
LEMMA TurnKeepsInstalled ==
  ASSUME Turn(sb, sb')
  PROVE  \/ sb'.podOrder = sb.podOrder /\ sb'.mode \in {sb.mode, "Suspended"}
         \/ WokeUp(sb, sb')
BY DEF Turn, Touched, Alike, HookWrites, Repointed, Superseded, Acknowledged, FellAsleep,
       SameInstalled

\* A confirmed suspension, before Wake, is of a Sandbox without a Pod, present or to come.
LEMMA WakesBare ==
  ASSUME IInv, sb # Nil, WokeUp(sb, sb')
  PROVE  /\ ~Owned(pod, sb.uid)
         /\ ~(agent # Nil /\ agent.uid = sb.uid /\ agent.mode = "Running")
         /\ sb.mode = "Suspended"
BY DEF WokeUp, ShouldWake, IInv, WakeGate

\* The record of Pods changes only when one is started.
LEMMA RecordBecomes ==
  ASSUME Course
  PROVE  spawned' = spawned \/ PodStarted
BY DEF Course, Moves, Quiet, apiVars, Opened, Appeared, Turned, Closed, SecretMade,
       SecretsCollected, PodWentOn, PodLeft

\* Agent-sandbox holds its read, takes a new one or has none.
LEMMA AgentBecomes ==
  ASSUME OrderInv, Course
  PROVE  /\ agent' \in {agent, sb, Nil}
         /\ agent # Nil => agent \in Sandboxes /\ agent \in Objects /\ agent.uid <= lastUid
         /\ PodStarted => agent' = Nil
<1>1. agent' \in {agent, sb, Nil}
  BY DEF Course, Shape, RunnerStep
<1>2. agent # Nil => agent \in Objects
  BY DEF Objects, Reads
<1> QED
  BY <1>1, <1>2, Grounds DEF PodStarted

\* A new incarnation has neither Pod nor read.
LEMMA NewIsBare ==
  ASSUME OrderInv, Course, sb = Nil, sb' # Nil
  PROVE  /\ sb'.mode = "Suspended" /\ sb'.podOrder = Nil /\ sb'.gen = 1 /\ sb'.finished = 0
         /\ sb'.applied = Nil
         /\ ~sb'.deleting
         /\ pod' = pod /\ spawned' = spawned
         /\ ~Owned(pod, sb'.uid)
         /\ agent' # Nil => agent' = agent /\ agent.uid # sb'.uid
         /\ \A n \in spawned : n.uid # sb'.uid
<1>1. Opened \/ Appeared
  BY Becomes
<1>2. /\ sb'.mode = "Suspended" /\ sb'.podOrder = Nil /\ sb'.gen = 1 /\ sb'.finished = 0
      /\ sb'.applied = Nil /\ ~sb'.deleting /\ pod' = pod /\ spawned' = spawned
  BY <1>1 DEF Opened, Appeared, NewSandbox
<1>3. sb'.uid = lastUid + 1 /\ lastUid \in Nat
  BY Becomes, Grounds
<1>4. ~Owned(pod, sb'.uid)
  BY <1>3 DEF Owned, OrderInv, PodsKnown, PodReads, IInv, TypeOK, APITypeOK, OrNil, Pods
<1>5. agent' # Nil => agent' = agent /\ agent.uid # sb'.uid
  BY <1>3, AgentBecomes DEF Sandboxes
<1>6. \A n \in spawned : n.uid # sb'.uid
  BY <1>3 DEF OrderInv, PodsKnown, IInv, TypeOK, APITypeOK, SecretNames
<1> QED
  BY <1>2, <1>4, <1>5, <1>6

-----------------------------------------------------------------------------
(***************************************************************************)
(* PrecedenceInv.                                                          *)
(***************************************************************************)

\* The order pending on a Suspended Sandbox has had no Pod, nor has any of its attempt.
LEMMA PendingNotSpawned ==
  ASSUME OneAttemptPerId, OrderInv, InOrder, sb # Nil, sb.managed,
         sb.mode = "Suspended", sb.pending # Nil
  PROVE  /\ ~Spawned(sb.uid, sb.pending)
         /\ \A b \in Offers : Spawned(sb.uid, b.id) => b.attempt < sb.lastAttempt
<1>1. sb \in Sandboxes /\ Coherent(sb) /\ Accepted(sb)
  BY DEF OrderInv, ObjectsFit, Objects, IInv, TypeOK, APITypeOK, OrNil
<1>2. sb.pending = sb.lastId /\ sb.podOrder = sb.applied /\ sb.applied # sb.lastId
  BY <1>1 DEF Coherent, InOrder
<1>3. ASSUME NEW b \in Offers, Spawned(sb.uid, b.id)
      PROVE  b.attempt < sb.lastAttempt
  <2>1. sb.podOrder # Nil /\ \A a \in Offers : a.id = sb.podOrder => b.attempt <= a.attempt
    BY <1>3 DEF InOrder, SpawnedUpTo
  <2>2. PICK a \in Offers : a.id = sb.applied /\ a.attempt < sb.lastAttempt
    BY <1>1, <1>2, <2>1 DEF Accepted
  <2>3. b.attempt <= a.attempt
    BY <1>2, <2>1, <2>2
  <2>4. a.attempt \in Nat /\ b.attempt \in Nat /\ sb.lastAttempt \in Nat
    BY <1>1, APIAssumption DEF Orders, Sandboxes
  <2> QED
    BY <2>2, <2>3, <2>4
<1>4. PICK o \in Offers : o.id = sb.lastId /\ o.attempt = sb.lastAttempt
  BY <1>1 DEF Accepted, Offered
<1>5. ~(o.attempt < sb.lastAttempt)
  BY <1>1, <1>4 DEF Sandboxes
<1> QED
  BY <1>2, <1>3, <1>4, <1>5

\* The installed order stays the latest that had a Pod, of the Sandbox ...
LEMMA SpawnedUpToKept ==
  ASSUME OneAttemptPerId, OrderInv, InOrder, Course, sb' # Nil
  PROVE  SpawnedUpTo(sb)'
<1>1. SUFFICES ASSUME NEW b \in Offers, WorkOrderSecretName(sb'.uid, b.id) \in spawned'
               PROVE  /\ sb'.podOrder # Nil
                      /\ \A a \in Offers : a.id = sb'.podOrder => b.attempt <= a.attempt
  BY DEF SpawnedUpTo, Spawned
<1>2. CASE sb = Nil
  BY <1>1, <1>2, NewIsBare DEF WorkOrderSecretName
<1>3. CASE sb # Nil /\ WorkOrderSecretName(sb'.uid, b.id) \in spawned
  <2>1. sb'.uid = sb.uid /\ Spawned(sb.uid, b.id)
    BY <1>3, Becomes DEF Spawned
  <2>2. sb.podOrder # Nil /\ \A a \in Offers : a.id = sb.podOrder => b.attempt <= a.attempt
    BY <1>3, <2>1 DEF InOrder, SpawnedUpTo
  <2>3. CASE sb'.podOrder = sb.podOrder
    BY <2>2, <2>3
  <2>4. CASE WokeUp(sb, sb')
    <3>1. sb.managed /\ sb.mode = "Suspended" /\ sb.pending # Nil /\ sb'.podOrder = sb.pending
      BY <2>4 DEF WokeUp, ShouldWake
    <3>2. b.attempt < sb.lastAttempt
      BY <1>3, <2>1, <3>1, PendingNotSpawned
    <3>3. sb \in Sandboxes /\ Coherent(sb) /\ Accepted(sb)
      BY <1>3 DEF OrderInv, ObjectsFit, Objects, IInv, TypeOK, APITypeOK, OrNil
    <3>4. \A a \in Offers : a.id = sb.pending => a.attempt = sb.lastAttempt
      BY <3>1, <3>3 DEF Coherent, Accepted, Offered, OneAttemptPerId
    <3>5. b.attempt \in Nat /\ sb.lastAttempt \in Nat
      BY <3>3, APIAssumption DEF Orders, Sandboxes
    <3> QED
      BY <3>1, <3>2, <3>4, <3>5
  <2> QED
    BY <1>3, <2>3, <2>4, Becomes, TurnKeepsInstalled DEF Turned
<1>4. CASE sb # Nil /\ WorkOrderSecretName(sb'.uid, b.id) \notin spawned
  <2>1. PodStarted
    BY <1>1, <1>4, RecordBecomes
  <2>2. sb' = sb /\ agent.uid = sb.uid /\ b.id = agent.podOrder
    BY <1>1, <1>4, <2>1 DEF PodStarted, WorkOrderSecretName
  <2>3. agent.mode = "Running" /\ agent.podOrder # Nil /\ agent # Nil
    BY <2>1, StartsFrom DEF PodStarted
  <2>4. agent.podOrder = sb.podOrder
    BY <1>4, <2>2, <2>3 DEF InOrder
  <2>5. \A a \in Offers : a.id = b.id => b.attempt = a.attempt /\ b.attempt \in Nat
    BY APIAssumption DEF OneAttemptPerId, Orders
  <2> QED
    BY <2>2, <2>3, <2>4, <2>5
<1> QED
  BY <1>2, <1>3, <1>4

\* ... and of what agent-sandbox has read of it.
LEMMA AgentUpToKept ==
  ASSUME OrderInv, InOrder, Course, agent' # Nil, agent'.mode = "Running"
  PROVE  /\ SpawnedUpTo(agent)'
         /\ sb' # Nil /\ agent'.uid = sb'.uid => agent'.podOrder = sb'.podOrder
<1>1. spawned' = spawned
  BY RecordBecomes, AgentBecomes
<1>2. CASE agent' = agent
  <2>1. SpawnedUpTo(agent)
    BY <1>2 DEF InOrder
  <2>2. SpawnedUpTo(agent)'
    BY <1>1, <1>2, <2>1 DEF SpawnedUpTo, Spawned
  <2>3. ASSUME sb' # Nil, agent'.uid = sb'.uid
        PROVE  agent'.podOrder = sb'.podOrder
    <3>1. sb # Nil /\ sb'.uid = sb.uid
      BY <1>2, <2>3, NewIsBare, Becomes
    <3>2. agent.podOrder = sb.podOrder
      BY <1>2, <2>3, <3>1 DEF InOrder
    <3>3. sb'.podOrder = sb.podOrder
      BY <1>2, <2>3, <3>1, Becomes, TurnKeepsInstalled, WakesBare DEF Turned, OrderInv
    <3> QED
      BY <1>2, <3>2, <3>3
  <2> QED
    BY <2>2, <2>3
<1>3. CASE agent' = sb
  <2>1. SpawnedUpTo(sb)
    BY <1>3 DEF InOrder
  <2>2. SpawnedUpTo(agent)'
    BY <1>1, <1>3, <2>1 DEF SpawnedUpTo, Spawned
  <2>3. sb' # Nil => sb'.podOrder = sb.podOrder
    BY <1>3, Becomes, TurnKeepsInstalled, WakesBare DEF Turned, OrderInv
  <2> QED
    BY <1>3, <2>2, <2>3
<1> QED
  BY <1>2, <1>3, AgentBecomes

\* The Pod is of the installed order.
LEMMA PodInstalledKept ==
  ASSUME OrderInv, InOrder, Course, sb' # Nil, Owned(pod', sb'.uid)
  PROVE  pod'.order = sb'.podOrder
<1>1. sb # Nil /\ sb'.uid = sb.uid
  BY NewIsBare, Becomes
<1>2. CASE PodStarted
  <2>1. agent # Nil /\ agent.mode = "Running" /\ agent.uid = sb.uid /\ pod'.order = agent.podOrder
    BY <1>1, <1>2, StartsFrom DEF PodStarted, Owned
  <2> QED
    BY <1>1, <1>2, <2>1 DEF InOrder, PodStarted
<1>3. CASE pod # Nil /\ pod'.owner = pod.owner /\ pod'.order = pod.order
  <2>1. Owned(pod, sb.uid) /\ pod.order = sb.podOrder
    BY <1>1, <1>3 DEF Owned, InOrder
  <2>2. sb'.podOrder = sb.podOrder
    BY <1>1, <2>1, Becomes, TurnKeepsInstalled, WakesBare DEF Turned, OrderInv
  <2> QED
    BY <1>3, <2>1, <2>2
<1> QED
  BY <1>2, <1>3, PodBecomes DEF Owned

\* An order pending on a Suspended Sandbox is not installed: publishNewer only takes a
\* higher attempt, and Sleep leaves nothing pending.
LEMMA PendingNotInstalledKept ==
  ASSUME OneAttemptPerId, OrderInv, InOrder, Course,
         sb' # Nil, sb'.mode = "Suspended", sb'.pending # Nil
  PROVE  sb'.applied # sb'.pending
<1>1. CASE sb = Nil
  BY <1>1, NewIsBare
<1>2. CASE sb # Nil /\ sb' = sb
  BY <1>2 DEF InOrder
<1>3. CASE sb # Nil /\ Turn(sb, sb')
  <2>1. sb \in Sandboxes /\ Coherent(sb) /\ Accepted(sb)
    BY <1>3 DEF OrderInv, ObjectsFit, Objects, IInv, TypeOK, APITypeOK, OrNil
  <2>2. sb.mode = "Suspended" /\ sb.pending # Nil => sb.applied # sb.pending
    BY <1>3 DEF InOrder
  <2>3. CASE Touched(sb, sb')
    BY <2>2, <2>3 DEF Touched, Alike, SamePending, SameInstalled
  <2>4. ASSUME NEW h \in Hooks, HookWrites(h, sb, sb')
        PROVE  sb'.applied # sb'.pending
    <3> DEFINE o == hooks[h].offer
    <3>1. CASE Repointed(sb, sb', o)
      BY <2>2, <3>1 DEF Repointed, SameInstalled
    <3>2. CASE Superseded(sb, sb', o)
      <4>1. o \in Offers /\ o.attempt \in Nat /\ o.id # Nil
        BY <2>4, OfferHeld DEF HookWrites
      <4>2. /\ sb.managed /\ o.id # sb.lastId /\ o.attempt > sb.lastAttempt
            /\ sb'.pending = o.id /\ sb'.applied = sb.applied
        BY <3>2 DEF Superseded, SameInstalled
      <4>3. ASSUME sb.applied = o.id PROVE FALSE
        <5>1. PICK a \in Offers : a.id = o.id /\ a.attempt < sb.lastAttempt
          BY <2>1, <4>1, <4>2, <4>3 DEF Accepted
        <5>2. a.attempt = o.attempt
          BY <4>1, <5>1 DEF OneAttemptPerId
        <5> QED
          BY <2>1, <4>1, <4>2, <5>1, <5>2 DEF Sandboxes
      <4> QED
        BY <4>2, <4>3
    <3> QED
      BY <2>4, <3>1, <3>2 DEF HookWrites
  <2>5. CASE Acknowledged(sb, sb')
    BY <2>5 DEF Acknowledged
  <2>6. CASE FellAsleep(sb, sb')
    BY <2>6 DEF FellAsleep, ShouldSleep, SamePending
  <2>7. CASE WokeUp(sb, sb')
    BY <2>7 DEF WokeUp
  <2> QED
    BY <1>3, <2>3, <2>4, <2>5, <2>6, <2>7 DEF Turn
<1> QED
  BY <1>1, <1>2, <1>3, Becomes DEF Turned

LEMMA InOrderKept ==
  ASSUME OneAttemptPerId, OrderInv, InOrder, Course
  PROVE  InOrder'
<1>1. sb' # Nil => SpawnedUpTo(sb)'
  BY SpawnedUpToKept
<1>2. sb' # Nil /\ Owned(pod', sb'.uid) => pod'.order = sb'.podOrder
  BY PodInstalledKept
<1>3. sb' # Nil /\ sb'.mode = "Suspended" /\ sb'.pending # Nil => sb'.applied # sb'.pending
  BY PendingNotInstalledKept
<1>4. agent' # Nil /\ agent'.mode = "Running" =>
        /\ SpawnedUpTo(agent)'
        /\ sb' # Nil /\ agent'.uid = sb'.uid => agent'.podOrder = sb'.podOrder
  BY AgentUpToKept
<1> QED
  BY <1>1, <1>2, <1>3, <1>4 DEF InOrder, Owned

LEMMA DeletedByOperatorKept ==
  ASSUME OrderInv, DeletedByOperator, Course
  PROVE  DeletedByOperator'
<1>1. sb' # Nil /\ sb'.deleting => "delete" \in Disruptions
  <2>1. CASE Turned
    <3>1. SameSelf(sb, sb') /\ sb \in Objects
      BY <2>1 DEF Turned, Turn, Touched, Alike, HookWrites, Repointed, Superseded,
         Acknowledged, FellAsleep, WokeUp, Objects
    <3> QED
      BY <3>1 DEF SameSelf, DeletedByOperator
  <2>2. CASE sb' = sb
    BY <2>2 DEF DeletedByOperator, Objects
  <2> QED
    BY <2>1, <2>2, NewIsBare, Becomes
<1> QED
  BY <1>1, ObjectsStep DEF DeletedByOperator
LEMMA InitPrecedenceInv == Init => PrecedenceInv
<1> SUFFICES ASSUME Init PROVE PrecedenceInv
  OBVIOUS
<1>1. Objects = {}
  BY DEF Init, APIInit, HookInit, ControllerInit, AgentInit, Objects, Reads, Idle
<1> QED
  BY <1>1, InitOrderInv
     DEF Init, APIInit, AgentInit, PrecedenceInv, InOrder, DeletedByOperator

LEMMA NextPrecedenceInv ==
  ASSUME OneAttemptPerId
  PROVE  PrecedenceInv /\ [Next]_vars => PrecedenceInv'
<1> SUFFICES ASSUME PrecedenceInv, [Next]_vars PROVE PrecedenceInv'
  OBVIOUS
<1>1. OrderInv'
  BY NextOrderInv DEF PrecedenceInv
<1>2. CASE Next
  BY <1>1, <1>2, NextCourse, InOrderKept, DeletedByOperatorKept DEF PrecedenceInv, OrderInv
<1>3. CASE UNCHANGED vars
  <2> USE <1>3 DEF vars, apiVars, hookVars, agentVars
  <2>1. Objects' = Objects
    BY DEF Objects, Reads
  <2>2. DeletedByOperator'
    BY <2>1 DEF PrecedenceInv, DeletedByOperator
  <2>3. InOrder'
    BY DEF PrecedenceInv, InOrder, SpawnedUpTo, Spawned, Owned
  <2> QED
    BY <1>1, <2>2, <2>3 DEF PrecedenceInv
<1> QED
  BY <1>2, <1>3

\* On every Sandbox the Pods that ran, the Pod there is and the Pod agent-sandbox is about
\* to make follow the order of attempts.
THEOREM PrecedenceInvariance ==
  ASSUME OneAttemptPerId
  PROVE  Spec => []PrecedenceInv
BY InitPrecedenceInv, NextPrecedenceInv, PTL DEF Spec

\* A step that makes a Pod is agent-sandbox's.
LEMMA SpawnIsStart ==
  ASSUME OrderInv, [Next]_vars, pod = Nil, pod' # Nil
  PROVE  PodStarted
<1>1. Course
  BY NextCourse DEF OrderInv, vars, apiVars
<1> QED
  BY <1>1, PodBecomes

\* No Pod is made for an order after one of a higher attempt ran on the Sandbox
\* (reconciler.go wake's gate against agent-sandbox's stale reads).
THEOREM SpawnsOrdered ==
  ASSUME OneAttemptPerId
  PROVE  Spec => SpawnsInOrder
<1>1. ASSUME PrecedenceInv, [Next]_vars, pod = Nil, pod' # Nil,
             NEW a \in Offers, NEW b \in Offers, a.id = pod'.order,
             WorkOrderSecretName(pod'.owner, b.id) \in spawned
      PROVE  b.attempt <= a.attempt
  <2>1. PodStarted /\ OrderInv
    BY <1>1, SpawnIsStart DEF PrecedenceInv
  <2>2. /\ agent # Nil /\ agent.mode = "Running"
        /\ pod'.owner = agent.uid /\ pod'.order = agent.podOrder
    BY <2>1, StartsFrom DEF PodStarted
  <2>3. SpawnedUpTo(agent)
    BY <1>1, <2>2 DEF PrecedenceInv, InOrder
  <2> QED
    BY <1>1, <2>2, <2>3 DEF SpawnedUpTo, Spawned
<1>2. PrecedenceInv /\ [Next]_vars =>
        [pod = Nil /\ pod' # Nil =>
           \A a, b \in Offers :
             /\ a.id = pod'.order
             /\ WorkOrderSecretName(pod'.owner, b.id) \in spawned
             => b.attempt <= a.attempt]_pod
  BY <1>1
<1> QED
  BY <1>2, PrecedenceInvariance, PTL DEF Spec, SpawnsInOrder

-----------------------------------------------------------------------------
(***************************************************************************)
(* RestInv: short of a drain.                                              *)
(***************************************************************************)

\* Nothing but a suspension marks the Pod of the live Sandbox terminating.
LEMMA MarkedBySuspension ==
  ASSUME "drain" \notin Disruptions, Course, pod # Nil, pod' # Nil,
         sb # Nil, pod.owner = sb.uid, pod'.terminating, ~pod.terminating
  PROVE  agent # Nil /\ agent.mode = "Suspended" /\ agent.uid = sb.uid /\ agent' = Nil
BY DEF Course, Moves, Quiet, apiVars, Opened, Appeared, Turned, Closed, SecretMade,
       SecretsCollected, PodStarted, NeedsPod, PodWentOn, PodLeft, Orphaned, NeedsNoPod, Owned

\* PodKept, for the Sandbox and the read agent-sandbox has of it after the step.
LEMMA PodKeptKept ==
  ASSUME "drain" \notin Disruptions, OrderInv, PodKept, Course
  PROVE  PodKept'
<1>1. SUFFICES ASSUME sb' # Nil
               PROVE  /\ sb'.finished <= sb'.gen
                      /\ Owned(pod', sb'.uid) /\ pod'.terminating => sb'.mode = "Suspended"
                      /\ agent' # Nil /\ agent'.uid = sb'.uid /\ agent'.mode = "Suspended"
                           /\ sb'.mode = "Running" => ~Owned(pod', sb'.uid)
                      /\ agent' # Nil /\ agent'.uid = sb'.uid /\ agent'.mode = "Running" =>
                           ~(Owned(pod', sb'.uid) /\ pod'.terminating)
                      /\ sb'.mode = "Running" /\ sb'.finished = sb'.gen =>
                           Owned(pod', sb'.uid) /\ pod'.phase = "Finished"
  BY DEF PodKept, Owned, RunnerFinished
<1>2. CASE sb = Nil
  BY <1>1, <1>2, NewIsBare DEF Owned
<1>3. CASE sb # Nil
  <2>1. sb'.uid = sb.uid /\ (sb' = sb \/ Turned)
    BY <1>1, <1>3, Becomes
  <2>2. /\ sb.finished <= sb.gen /\ sb.gen > 0 /\ sb.finished \in Nat /\ sb.gen \in Nat
        /\ Owned(pod, sb.uid) /\ pod.terminating => sb.mode = "Suspended"
        /\ agent # Nil /\ agent.uid = sb.uid /\ agent.mode = "Suspended"
             /\ sb.mode = "Running" => ~Owned(pod, sb.uid)
        /\ agent # Nil /\ agent.uid = sb.uid /\ agent.mode = "Running" =>
             ~(Owned(pod, sb.uid) /\ pod.terminating)
        /\ sb.mode = "Running" /\ sb.finished = sb.gen =>
             Owned(pod, sb.uid) /\ pod.phase = "Finished"
    BY <1>3 DEF PodKept, RunnerFinished, OrderInv, IInv, HonestStatus, TypeOK, APITypeOK,
           OrNil, Sandboxes
  <2>3. sb.mode \in Modes
    BY <1>3 DEF OrderInv, IInv, TypeOK, APITypeOK, OrNil, Sandboxes
  <2>4. \/ sb'.mode \in {sb.mode, "Suspended"}
        \/ WokeUp(sb, sb') /\ pod' = pod
    BY <2>1, TurnKeepsInstalled DEF Turned
  <2>5. sb'.finished <= sb'.gen
    <3>1. CASE sb' = sb
      BY <2>2, <3>1
    <3>2. CASE Turned
      <4>1. ByUser(sb, sb') \/ ByAgent(sb, sb')
        BY <3>2 DEF Turned, Turn, Touched, HookWrites, Repointed, Superseded, Acknowledged,
               FellAsleep, WokeUp
      <4> QED
        BY <2>2, <4>1 DEF ByUser, ByAgent
    <3> QED
      BY <2>1, <3>1, <3>2
  <2>6. ASSUME Owned(pod', sb.uid), pod'.terminating
        PROVE  /\ pod # Nil /\ pod.owner = sb.uid
               /\ \/ pod.terminating
                  \/ agent # Nil /\ agent.mode = "Suspended" /\ agent.uid = sb.uid /\ agent' = Nil
    <3>1. ~PodStarted
      BY <2>6 DEF PodStarted
    <3>2. pod # Nil /\ pod'.owner = pod.owner /\ pod' # Nil
      BY <2>6, <3>1, PodBecomes DEF Owned
    <3> QED
      BY <1>3, <2>6, <3>2, MarkedBySuspension DEF Owned
  <2>7. Owned(pod', sb.uid) /\ pod'.terminating => sb'.mode = "Suspended"
    <3>1. CASE WokeUp(sb, sb') /\ pod' = pod
      BY <1>3, <3>1, WakesBare DEF OrderInv
    <3>2. CASE sb'.mode \in {sb.mode, "Suspended"}
      BY <2>2, <2>3, <2>6, <3>2 DEF Modes, Owned
    <3> QED
      BY <2>4, <3>1, <3>2
  <2>8. ASSUME agent' # Nil, agent'.uid = sb.uid, agent'.mode = "Suspended", sb'.mode = "Running"
        PROVE  ~Owned(pod', sb.uid)
    <3>1. ~PodStarted
      BY <2>8, AgentBecomes
    <3>2. Owned(pod', sb.uid) => Owned(pod, sb.uid)
      BY <3>1, PodBecomes DEF Owned
    <3>3. CASE WokeUp(sb, sb')
      BY <1>3, <3>2, <3>3, WakesBare DEF OrderInv
    <3>4. CASE sb.mode = "Running"
      BY <2>2, <2>8, <3>2, <3>4, AgentBecomes
    <3> QED
      BY <2>4, <2>8, <3>3, <3>4
  <2>9. ASSUME agent' # Nil, agent'.uid = sb.uid, agent'.mode = "Running"
        PROVE  ~(Owned(pod', sb.uid) /\ pod'.terminating)
    <3>1. Owned(pod', sb.uid) /\ pod'.terminating => Owned(pod, sb.uid) /\ pod.terminating
      BY <2>6, <2>9 DEF Owned
    <3> QED
      BY <2>2, <2>9, <3>1, AgentBecomes
  <2>10. ASSUME sb'.mode = "Running", sb'.finished = sb'.gen
         PROVE  Owned(pod', sb.uid) /\ pod'.phase = "Finished"
    <3>1. CASE Turned
      <4>1. pod' = pod
        BY <3>1 DEF Turned
      <4>2. sb.mode = "Running" \/ WokeUp(sb, sb')
        BY <2>4, <2>10
      <4>3. ~WokeUp(sb, sb')
        BY <2>2, <2>10 DEF WokeUp, ByUser
      <4>4. ByUser(sb, sb') \/ ByAgent(sb, sb')
        BY <3>1 DEF Turned, Turn, Touched, HookWrites, Repointed, Superseded, Acknowledged,
               FellAsleep, WokeUp
      <4> QED
        BY <2>2, <2>10, <4>1, <4>2, <4>3, <4>4 DEF ByUser, ByAgent
    <3>2. CASE sb' = sb
      <4>1. Owned(pod, sb.uid) /\ pod.phase = "Finished" /\ ~pod.terminating
        BY <2>2, <2>10, <3>2
      <4>2. ~PodStarted /\ ~PodLeft
        BY <4>1 DEF PodStarted, NeedsPod, PodLeft, Owned
      <4>3. pod' # Nil /\ pod'.owner = pod.owner /\ pod'.phase = "Finished"
        BY <1>3, <4>1, <4>2 DEF Owned, Course, Moves, Quiet, apiVars, Opened, Appeared, Turned,
               Closed, SecretMade, SecretsCollected, PodWentOn
      <4> QED
        BY <4>1, <4>3 DEF Owned
    <3> QED
      BY <2>1, <3>1, <3>2
  <2> QED
    BY <2>1, <2>5, <2>7, <2>8, <2>9, <2>10
<1> QED
  BY <1>2, <1>3

LEMMA InitPodKept == Init => PodKept
BY DEF Init, APIInit, PodKept

LEMMA StutterPodKept == ASSUME PodKept, UNCHANGED vars PROVE PodKept'
BY DEF PodKept, Owned, RunnerFinished, vars, apiVars, agentVars

\* Short of a drain, a Running Sandbox keeps its Pod.
THEOREM RestInvariance ==
  ASSUME OneAttemptPerId
  PROVE  Spec => []RestInv
<1>1. Init => RestInv
  BY InitPrecedenceInv, InitPodKept DEF RestInv
<1>2. RestInv /\ [Next]_vars => RestInv'
  <2> SUFFICES ASSUME RestInv, [Next]_vars PROVE RestInv'
    OBVIOUS
  <2>1. PrecedenceInv' /\ OrderInv
    BY NextPrecedenceInv DEF RestInv, PrecedenceInv
  <2>2. "drain" \notin Disruptions => PodKept'
    BY <2>1, NextCourse, PodKeptKept, StutterPodKept DEF RestInv, OrderInv
  <2> QED
    BY <2>1, <2>2 DEF RestInv
<1> QED
  BY <1>1, <1>2, PTL DEF Spec

\* Short of a drain, Sleep suspends only a Sandbox whose last accepted order has a terminal
\* Pod (reconciler.go sleep).
THEOREM SleepsFinished ==
  ASSUME OneAttemptPerId, "drain" \notin Disruptions
  PROVE  Spec => SleepsOnlyFinished
<1>1. ASSUME RestInv, [Next]_vars, Live(sb), sb' # Nil, sb.mode = "Running",
             sb'.mode = "Suspended", sb'.pending = Nil
      PROVE  Owned(pod, sb.uid) /\ pod.phase = "Finished" /\ pod.order = sb.lastId
  <2>1. sb' # sb /\ OrderInv /\ InOrder /\ PodKept /\ sb # Nil
    BY <1>1 DEF RestInv, PrecedenceInv, Live
  <2>2. Course
    BY <1>1, <2>1, NextCourse DEF OrderInv, vars, apiVars
  <2>3. Turn(sb, sb')
    BY <1>1, <2>1, <2>2, Becomes DEF Turned
  <2>4. FellAsleep(sb, sb')
    <3>1. ASSUME NEW h \in Hooks PROVE ~HookWrites(h, sb, sb')
      <4>1. SUFFICES ASSUME HookWrites(h, sb, sb') PROVE FALSE
        OBVIOUS
      <4>2. hooks[h].offer.id # Nil
        BY <2>1, <4>1, OfferHeld DEF HookWrites
      <4> QED
        BY <1>1, <4>1, <4>2 DEF HookWrites, Repointed, Superseded
    <3> QED
      BY <1>1, <2>3, <3>1 DEF Turn, Touched, Alike, Acknowledged, WokeUp
  <2>5. sb.pending = Nil /\ RunnerFinished(sb)
    BY <2>4 DEF FellAsleep, ShouldSleep
  <2>6. Owned(pod, sb.uid) /\ pod.phase = "Finished" /\ pod.order = sb.podOrder
    BY <1>1, <2>1, <2>5 DEF PodKept, InOrder
  <2>7. Coherent(sb)
    BY <2>1 DEF OrderInv, ObjectsFit, Objects
  <2> QED
    BY <2>5, <2>6, <2>7 DEF Coherent
<1>2. RestInv /\ [Next]_vars =>
        [Live(sb) /\ sb' # Nil /\ sb.mode = "Running" /\ sb'.mode = "Suspended"
           /\ sb'.pending = Nil =>
             /\ Owned(pod, sb.uid)
             /\ pod.phase = "Finished"
             /\ pod.order = sb.lastId]_sb
  BY <1>1
<1> QED
  BY <1>2, RestInvariance, PTL DEF Spec, SleepsOnlyFinished
-----------------------------------------------------------------------------
(***************************************************************************)
(* RunInv: short of a drain and of an operator's deletion.                 *)
(***************************************************************************)

\* Without deletions only GC takes a Sandbox, when it has no Pod, present or to come.
LEMMA ClosesBare ==
  ASSUME "delete" \notin Disruptions, OrderInv, DeletedByOperator, Closed
  PROVE  /\ ~Owned(pod, sb.uid)
         /\ ~(agent # Nil /\ agent.uid = sb.uid /\ agent.mode = "Running")
         /\ sb.mode = "Suspended"
<1>1. sb # Nil /\ ~sb.deleting
  BY DEF Closed, DeletedByOperator, Objects
<1>2. IdleSince(sb)
  BY <1>1 DEF Closed
<1> QED
  BY <1>1, <1>2 DEF IdleSince, OrderInv, IInv, WakeGate

\* The Sandbox goes only in Closed.
LEMMA GoesClosed ==
  ASSUME OrderInv, Course, sb # Nil, sb' = Nil
  PROVE  Closed
<1>1. sb' \notin Sandboxes
  BY APIAssumption
<1>2. ~Turned
  BY <1>1 DEF Turned, Turn, Touched, Alike, HookWrites, Repointed, Superseded,
     Acknowledged, FellAsleep, WokeUp, SameSelf
<1> QED
  BY <1>2 DEF Course, Moves, Quiet, apiVars, Opened, Appeared, SecretMade,
     SecretsCollected, PodStarted, PodWentOn, PodLeft

LEMMA RunsOnceKept ==
  ASSUME OneAttemptPerId, "delete" \notin Disruptions,
         OrderInv, InOrder, DeletedByOperator, PodKept, RunsOnce, Course
  PROVE  RunsOnce'
<1>1. /\ pod # Nil => sb # Nil /\ pod.owner = sb.uid
      /\ agent # Nil /\ agent.mode = "Running" => sb # Nil /\ agent.uid = sb.uid
      /\ sb # Nil /\ sb.mode = "Running" /\ WorkOrderSecretName(sb.uid, sb.podOrder) \in spawned =>
           pod # Nil
      /\ agent # Nil /\ agent.mode = "Running"
           /\ WorkOrderSecretName(agent.uid, agent.podOrder) \in spawned => pod # Nil
  BY DEF RunsOnce, Spawned
<1>2. pod' # Nil => sb' # Nil /\ pod'.owner = sb'.uid
  <2>1. CASE PodStarted
    BY <1>1, <2>1, StartsFrom DEF PodStarted
  <2>2. CASE pod # Nil /\ pod'.owner = pod.owner
    <3>1. sb' # Nil
      BY <1>1, <2>2, GoesClosed, ClosesBare DEF Owned
    <3> QED
      BY <1>1, <2>2, <3>1, Becomes
  <2> QED
    BY <2>1, <2>2, PodBecomes
<1>3. ASSUME agent' # Nil, agent'.mode = "Running"
      PROVE  sb # Nil /\ sb' # Nil /\ agent'.uid = sb'.uid /\ sb'.uid = sb.uid
  <2>1. sb # Nil /\ agent'.uid = sb.uid
    BY <1>1, <1>3, AgentBecomes
  <2>2. sb' # Nil
    <3>1. CASE agent' = agent
      BY <1>1, <1>3, <2>1, <3>1, GoesClosed, ClosesBare
    <3>2. CASE agent' = sb
      BY <1>3, <2>1, <3>2, GoesClosed, ClosesBare
    <3> QED
      BY <1>3, <3>1, <3>2, AgentBecomes
  <2> QED
    BY <2>1, <2>2, Becomes
\* A Pod goes only when marked, and a Running Sandbox's is not.
<1>4. ASSUME pod # Nil, pod' = Nil
      PROVE  /\ pod.owner = sb.uid /\ sb # Nil /\ sb' = sb /\ sb.mode = "Suspended"
             /\ ~(agent # Nil /\ agent.uid = sb.uid /\ agent.mode = "Running")
  <2>1. PodLeft
    BY <1>4 DEF Course, Moves, Quiet, apiVars, Opened, Appeared, Turned, Closed, SecretMade,
       SecretsCollected, PodStarted, NeedsPod, PodWentOn
  <2> QED
    BY <1>1, <1>4, <2>1 DEF PodLeft, PodKept, Owned
<1>5. ASSUME sb' # Nil, sb'.mode = "Running",
             WorkOrderSecretName(sb'.uid, sb'.podOrder) \in spawned'
      PROVE  pod' # Nil
  <2>1. sb # Nil /\ sb'.uid = sb.uid
    BY <1>5, NewIsBare, Becomes
  <2>2. CASE PodStarted
    BY <2>2, StartsFrom
  <2>3. CASE ~PodStarted /\ Turned
    <3>1. spawned' = spawned /\ pod' = pod
      BY <2>3 DEF Turned
    <3>2. CASE WokeUp(sb, sb')
      <4>1. /\ sb.managed /\ sb.mode = "Suspended" /\ sb.pending # Nil
            /\ sb'.podOrder = sb.pending
        BY <3>2 DEF WokeUp, ShouldWake
      <4>2. ~Spawned(sb.uid, sb.pending)
        BY <2>1, <4>1, PendingNotSpawned
      <4> QED
        BY <1>5, <2>1, <3>1, <4>1, <4>2 DEF Spawned
    <3>3. CASE sb'.podOrder = sb.podOrder /\ sb'.mode \in {sb.mode, "Suspended"}
      BY <1>1, <1>5, <2>1, <3>1, <3>3
    <3> QED
      BY <2>3, <3>2, <3>3, TurnKeepsInstalled DEF Turned
  <2>4. CASE ~PodStarted /\ sb' = sb
    <3>1. pod # Nil
      BY <1>1, <1>5, <2>1, <2>4, RecordBecomes
    <3> QED
      BY <1>4, <1>5, <2>4, <3>1
  <2> QED
    BY <1>5, <2>1, <2>2, <2>3, <2>4, Becomes
<1>6. ASSUME agent' # Nil, agent'.mode = "Running",
             WorkOrderSecretName(agent'.uid, agent'.podOrder) \in spawned'
      PROVE  pod' # Nil
  <2>1. spawned' = spawned
    BY <1>6, RecordBecomes, AgentBecomes
  <2>2. pod # Nil
    BY <1>1, <1>3, <1>6, <2>1, AgentBecomes
  <2>3. ~(agent' = sb /\ pod' = Nil)
    BY <1>4, <1>6, <2>2
  <2>4. ~(agent' = agent /\ pod' = Nil)
    BY <1>1, <1>4, <1>6, <2>2
  <2> QED
    BY <1>6, <2>3, <2>4, AgentBecomes
<1>7. \A s \in ({sb'} \cup {agent'}) \ {Nil} :
        s.mode = "Running" /\ WorkOrderSecretName(s.uid, s.podOrder) \in spawned' => pod' # Nil
  BY <1>5, <1>6
<1> QED
  BY <1>2, <1>3, <1>7 DEF RunsOnce, Spawned

\* Short of a drain and a deletion, a Running Sandbox whose order had a Pod has it still.
THEOREM RunInvariance ==
  ASSUME OneAttemptPerId
  PROVE  Spec => []RunInv
<1>1. Init => RunInv
  BY InitPrecedenceInv, InitPodKept
     DEF RunInv, RunsOnce, Init, APIInit, AgentInit
<1>2. RunInv /\ [Next]_vars => RunInv'
  <2> SUFFICES ASSUME RunInv, [Next]_vars PROVE RunInv'
    OBVIOUS
  <2>1. PrecedenceInv' /\ OrderInv /\ InOrder /\ DeletedByOperator
    BY NextPrecedenceInv DEF RunInv, PrecedenceInv
  <2>2. ASSUME Disruptions \cap {"drain", "delete"} = {}
        PROVE  PodKept' /\ RunsOnce'
    <3>1. PodKept /\ RunsOnce /\ "drain" \notin Disruptions /\ "delete" \notin Disruptions
      BY <2>2 DEF RunInv
    <3>2. CASE Next
      BY <2>1, <3>1, <3>2, NextCourse, PodKeptKept, RunsOnceKept DEF OrderInv
    <3>3. CASE UNCHANGED vars
      BY <3>1, <3>3, StutterPodKept DEF RunsOnce, Spawned, vars, apiVars, agentVars
    <3> QED
      BY <3>2, <3>3
  <2> QED
    BY <2>1, <2>2 DEF RunInv
<1> QED
  BY <1>1, <1>2, PTL DEF Spec

\* Short of a drain and a deletion, no order gets a second Pod on its Sandbox (hook.go
\* repairRedelivery; reconciler.go Reconcile, spawnObservation before sleep).
THEOREM RunsOnlyOnce ==
  ASSUME OneAttemptPerId, Disruptions \cap {"drain", "delete"} = {}
  PROVE  Spec => OneRunPerOrder
<1>1. ASSUME RunInv, [Next]_vars, pod = Nil, pod' # Nil
      PROVE  WorkOrderSecretName(pod'.owner, pod'.order) \notin spawned
  <2>1. OrderInv /\ RunsOnce
    BY <1>1 DEF RunInv, PrecedenceInv
  <2>2. PodStarted
    BY <1>1, <2>1, SpawnIsStart
  <2>3. /\ agent # Nil /\ agent.mode = "Running"
        /\ pod'.owner = agent.uid /\ pod'.order = agent.podOrder
    BY <2>1, <2>2, StartsFrom DEF PodStarted
  <2> QED
    BY <1>1, <2>1, <2>3 DEF RunsOnce, Spawned
<1>2. RunInv /\ [Next]_vars =>
        [pod = Nil /\ pod' # Nil =>
           WorkOrderSecretName(pod'.owner, pod'.order) \notin spawned]_pod
  BY <1>1
<1> QED
  BY <1>2, RunInvariance, PTL DEF Spec, OneRunPerOrder

-----------------------------------------------------------------------------
(***************************************************************************)
(* The abstract session, as Session maps it.                               *)
(***************************************************************************)

Stage        == StageOf(sb)
AcceptedId   == IF Live(sb) THEN sb.lastId ELSE Nil
AcceptedAt   == IF Live(sb) THEN sb.lastAttempt ELSE 0
InstalledId  == IF Live(sb) THEN sb.applied ELSE Nil
Runner       == IF Live(sb) /\ Owned(pod, sb.uid) THEN pod.order ELSE Nil
Ran          == IF Live(sb)
                THEN {id \in OrderIds : WorkOrderSecretName(sb.uid, id) \in spawned}
                ELSE {}

\* What a step does to the abstract session is a step of it, or nothing.
Implements == Session!Next \/ UNCHANGED Session!vars

LEMMA SessionStutters ==
  ASSUME UNCHANGED <<Stage, AcceptedId, AcceptedAt, InstalledId, Runner, Ran>>
  PROVE  Implements
BY DEF Implements, Session!vars, Stage, AcceptedId, AcceptedAt, InstalledId, Runner, Ran

LEMMA SessionOpens ==
  ASSUME NEW o \in Offers, Stage = "none", Stage' = "queued",
         AcceptedId' = o.id, AcceptedAt' = o.attempt, UNCHANGED <<InstalledId, Runner, Ran>>
  PROVE  Implements
BY DEF Implements, Session!Next, Session!Open,
       Stage, AcceptedId, AcceptedAt, InstalledId, Runner, Ran

LEMMA SessionAccepts ==
  ASSUME NEW o \in Offers, Stage # "none", o.attempt > AcceptedAt, o.id # AcceptedId,
         Stage' = "queued", AcceptedId' = o.id, AcceptedAt' = o.attempt,
         UNCHANGED <<InstalledId, Runner, Ran>>
  PROVE  Implements
BY DEF Implements, Session!Next, Session!Accept,
       Stage, AcceptedId, AcceptedAt, InstalledId, Runner, Ran

LEMMA SessionInstalls ==
  ASSUME Stage = "queued", Runner = Nil, Stage' = "installed", InstalledId' = AcceptedId,
         UNCHANGED <<AcceptedId, AcceptedAt, Runner, Ran>>
  PROVE  Implements
BY DEF Implements, Session!Next, Session!Install,
       Stage, AcceptedId, AcceptedAt, InstalledId, Runner, Ran

LEMMA SessionStarts ==
  ASSUME Stage # "none", InstalledId # Nil, Runner = Nil,
         Runner' = InstalledId, Ran' = Ran \cup {InstalledId},
         UNCHANGED <<Stage, AcceptedId, AcceptedAt, InstalledId>>
  PROVE  Implements
BY DEF Implements, Session!Next, Session!Start,
       Stage, AcceptedId, AcceptedAt, InstalledId, Runner, Ran

LEMMA SessionStops ==
  ASSUME Runner # Nil, Runner' = Nil,
         UNCHANGED <<Stage, AcceptedId, AcceptedAt, InstalledId, Ran>>
  PROVE  Implements
BY DEF Implements, Session!Next, Session!Stop,
       Stage, AcceptedId, AcceptedAt, InstalledId, Runner, Ran

LEMMA SessionSettles ==
  ASSUME Stage = "installed", AcceptedId \in Ran, Stage' = "running",
         UNCHANGED <<AcceptedId, AcceptedAt, InstalledId, Runner, Ran>>
  PROVE  Implements
BY DEF Implements, Session!Next, Session!Settle,
       Stage, AcceptedId, AcceptedAt, InstalledId, Runner, Ran

LEMMA SessionRests ==
  ASSUME Stage = "running", Stage' = "asleep",
         UNCHANGED <<AcceptedId, AcceptedAt, InstalledId, Runner, Ran>>
  PROVE  Implements
BY DEF Implements, Session!Next, Session!Rest,
       Stage, AcceptedId, AcceptedAt, InstalledId, Runner, Ran

\* Without a Sandbox there is no session.
LEMMA SessionAbsent == ASSUME sb' = Nil PROVE Session!Absent'
BY DEF Session!Absent, StageOf, Live

-----------------------------------------------------------------------------
(***************************************************************************)
(* The moves of the Sandbox.                                               *)
(***************************************************************************)

\* A turn leaves the Pod and the record alone, so the session's runner and past as well.
LEMMA TurnKeepsRunner ==
  ASSUME Turned, sb # Nil, sb' # Nil, sb'.uid = sb.uid, sb'.managed = sb.managed
  PROVE  UNCHANGED <<Runner, Ran>>
BY DEF Turned, Runner, Ran, Live, Owned

\* What is written of the same order, on the same terms, the session does not see.
LEMMA SameSession ==
  ASSUME Turned, sb # Nil, sb' # Nil, SameSelf(sb, sb'), SameOrder(sb, sb'),
         sb'.applied = sb.applied, sb'.pending = sb.pending, sb'.mode = sb.mode
  PROVE  Implements
<1>1. UNCHANGED <<Runner, Ran>>
  BY TurnKeepsRunner DEF SameSelf
<1>2. UNCHANGED <<Stage, AcceptedId, AcceptedAt, InstalledId>>
  BY DEF Stage, StageOf, AcceptedId, AcceptedAt, InstalledId, Live, SameSelf, SameOrder
<1> QED
  BY <1>1, <1>2, SessionStutters

LEMMA TurnImplements ==
  ASSUME OneAttemptPerId, PrecedenceInv, PrecedenceInv', Course, Turned
  PROVE  Implements
<1>1. sb # Nil /\ Turn(sb, sb') /\ sb \in Sandboxes /\ Coherent(sb) /\ InOrder
  BY DEF Turned, PrecedenceInv, OrderInv, ObjectsFit, Objects, IInv, TypeOK, APITypeOK, OrNil
<1>2. SameSelf(sb, sb')
  BY <1>1 DEF Turn, Touched, Alike, HookWrites, Repointed, Superseded, Acknowledged,
     FellAsleep, WokeUp
<1>3. sb' # Nil /\ sb'.uid = sb.uid /\ sb'.managed = sb.managed
  BY <1>2, APIAssumption DEF SameSelf
<1>4. UNCHANGED <<Runner, Ran>>
  BY <1>1, <1>3, TurnKeepsRunner
<1>5. CASE Touched(sb, sb')
  BY <1>1, <1>3, <1>5, SameSession DEF Touched, Alike, SamePending, SameInstalled
<1>6. ASSUME NEW h \in Hooks, HookWrites(h, sb, sb')
      PROVE  Implements
  <2> DEFINE o == hooks[h].offer
  <2>1. o \in Offers /\ o.id # Nil
    BY <1>6, OfferHeld DEF HookWrites, PrecedenceInv
  <2>2. CASE Repointed(sb, sb', o)
    BY <1>1, <1>3, <2>2, SameSession DEF Repointed, SameInstalled
  <2>3. CASE Superseded(sb, sb', o)
    <3>1. /\ sb.managed /\ o.attempt > sb.lastAttempt /\ o.id # sb.lastId
          /\ sb'.lastId = o.id /\ sb'.lastAttempt = o.attempt /\ sb'.applied = sb.applied
          /\ sb'.pending = o.id /\ sb'.mode = "Suspended"
      BY <2>3 DEF Superseded, SameInstalled
    <3>2. sb'.applied # sb'.pending
      BY <1>3, <2>1, <3>1 DEF PrecedenceInv, InOrder
    <3>3. Stage # "none" /\ Stage' = "queued"
      BY <1>1, <1>3, <2>1, <3>1, <3>2 DEF Stage, StageOf, Live
    <3>4. /\ o.attempt > AcceptedAt /\ o.id # AcceptedId
          /\ AcceptedId' = o.id /\ AcceptedAt' = o.attempt /\ UNCHANGED InstalledId
      BY <1>1, <1>3, <3>1 DEF AcceptedAt, AcceptedId, InstalledId, Live
    <3> QED
      BY <1>4, <2>1, <3>3, <3>4, SessionAccepts
  <2> QED
    BY <1>6, <2>2, <2>3 DEF HookWrites
<1>7. CASE Acknowledged(sb, sb')
  <2>1. PICK p \in PodReads : SpawnObserved(sb, p)
    BY <1>7 DEF Acknowledged
  <2>2. /\ sb.pending # Nil /\ sb.applied = sb.pending /\ p.order = sb.pending
        /\ p.owner = sb.uid
    BY <2>1 DEF SpawnObserved, Owned
  <2>3. sb.managed /\ sb'.pending = Nil /\ sb'.mode = sb.mode /\ SameOrder(sb, sb')
        /\ sb'.applied = sb.applied
    BY <1>7 DEF Acknowledged, SameInstalled
  <2>4. sb.mode = "Running"
    BY <1>1, <2>2 DEF InOrder, Sandboxes, Modes
  <2>5. WorkOrderSecretName(sb.uid, sb.lastId) \in spawned /\ sb.lastId \in OrderIds
    <3>1. sb.pending = sb.lastId
      BY <1>1, <2>2 DEF Coherent
    <3>2. WorkOrderSecretName(p.owner, p.order) \in spawned
      BY DEF PrecedenceInv, OrderInv, PodsKnown, Spawned
    <3>3. sb.lastId \in OrderIds
      BY <1>1, <2>2, <3>1 DEF Sandboxes, OrNil
    <3> QED
      BY <2>2, <3>1, <3>2, <3>3
  <2>6. Stage = "installed" /\ Stage' = "running"
    BY <1>1, <1>3, <2>2, <2>3, <2>4 DEF Stage, StageOf, Live
  <2>7. AcceptedId \in Ran /\ UNCHANGED <<AcceptedId, AcceptedAt, InstalledId>>
    BY <1>1, <1>3, <2>3, <2>5 DEF AcceptedId, AcceptedAt, InstalledId, Ran, Live, SameOrder
  <2> QED
    BY <1>4, <2>6, <2>7, SessionSettles
<1>8. CASE FellAsleep(sb, sb')
  <2>1. /\ sb.managed /\ sb.mode = "Running" /\ sb.pending = Nil
        /\ sb'.mode = "Suspended" /\ sb'.pending = Nil /\ SameOrder(sb, sb')
        /\ sb'.applied = sb.applied
    BY <1>8 DEF FellAsleep, ShouldSleep, SamePending, SameInstalled
  <2>2. Stage = "running" /\ Stage' = "asleep"
    BY <1>1, <1>3, <2>1 DEF Stage, StageOf, Live
  <2>3. UNCHANGED <<AcceptedId, AcceptedAt, InstalledId>>
    BY <1>1, <1>3, <2>1 DEF AcceptedId, AcceptedAt, InstalledId, Live, SameOrder
  <2> QED
    BY <1>4, <2>2, <2>3, SessionRests
<1>9. CASE WokeUp(sb, sb')
  <2>1. /\ sb.managed /\ sb.mode = "Suspended" /\ sb.pending # Nil
        /\ sb'.pending = sb.pending /\ sb'.applied = sb.pending /\ SameOrder(sb, sb')
    BY <1>9 DEF WokeUp, ShouldWake, SamePending
  <2>2. sb.applied # sb.pending /\ sb.pending = sb.lastId
    BY <1>1, <2>1 DEF InOrder, Coherent
  <2>3. Stage = "queued" /\ Stage' = "installed"
    BY <1>1, <1>3, <2>1, <2>2 DEF Stage, StageOf, Live
  <2>4. InstalledId' = AcceptedId /\ UNCHANGED <<AcceptedId, AcceptedAt>>
    BY <1>1, <1>3, <2>1, <2>2 DEF AcceptedId, AcceptedAt, InstalledId, Live, SameOrder
  <2>5. Runner = Nil
    BY <1>1, <1>9, WakesBare DEF Runner, PrecedenceInv, OrderInv
  <2> QED
    BY <1>4, <2>3, <2>4, <2>5, SessionInstalls
<1> QED
  BY <1>1, <1>5, <1>6, <1>7, <1>8, <1>9 DEF Turn
LEMMA AppearImplements ==
  ASSUME OrderInv, Course, sb = Nil, sb' # Nil
  PROVE  Implements
<1>1. /\ Stage = "none" /\ AcceptedId = Nil /\ AcceptedAt = 0 /\ InstalledId = Nil
      /\ Runner = Nil /\ Ran = {}
  BY DEF Stage, StageOf, AcceptedId, AcceptedAt, InstalledId, Runner, Ran, Live
<1>2. /\ sb'.applied = Nil /\ pod' = pod /\ spawned' = spawned /\ ~Owned(pod, sb'.uid)
      /\ \A n \in spawned : n.uid # sb'.uid
  BY NewIsBare
<1>3. InstalledId' = Nil /\ Runner' = Nil
  BY <1>2 DEF InstalledId, Runner, Owned
<1>4. Ran' = {}
  BY <1>2 DEF Ran, WorkOrderSecretName
<1>5. CASE Opened
  <2>1. PICK o \in Offers : sb' = NewSandbox(lastUid + 1, o)
    BY <1>5 DEF Opened
  <2>2. o.id # Nil
    BY APIAssumption DEF Orders
  <2>3. Stage' = "queued" /\ AcceptedId' = o.id /\ AcceptedAt' = o.attempt
    BY <2>1, <2>2 DEF Stage, StageOf, AcceptedId, AcceptedAt, Live, NewSandbox
  <2> QED
    BY <1>1, <1>3, <1>4, <2>3, SessionOpens
<1>6. CASE Appeared
  <2>1. Stage' = "none" /\ AcceptedId' = Nil /\ AcceptedAt' = 0
    BY <1>6 DEF Appeared, Stage, StageOf, AcceptedId, AcceptedAt, Live
  <2> QED
    BY <1>1, <1>3, <1>4, <2>1, SessionStutters
<1> QED
  BY <1>5, <1>6, Becomes

LEMMA CloseImplements ==
  ASSUME PrecedenceInv, Closed
  PROVE  Implements
<1>1. sb # Nil /\ sb' = Nil /\ sb \in Objects
  BY DEF Closed, Objects
<1>2. Session!Absent'
  BY <1>1, SessionAbsent
<1>3. CASE ~sb.managed
  BY <1>1, <1>3, SessionStutters
     DEF Stage, StageOf, AcceptedId, AcceptedAt, InstalledId, Runner, Ran, Live
<1>4. CASE sb.managed /\ sb.deleting
  <2>1. "delete" \in Disruptions
    BY <1>1, <1>4 DEF PrecedenceInv, DeletedByOperator
  <2>2. StageOf(sb) # "none"
    BY <1>1, <1>4 DEF StageOf, Live
  <2> QED
    BY <1>2, <2>1, <2>2 DEF Implements, Session!Next, Session!Delete
<1>5. CASE sb.managed /\ IdleSince(sb)
  <2>1. StageOf(sb) = "asleep"
    BY <1>1, <1>5 DEF StageOf, Live, IdleSince
  <2>2. ~Owned(pod, sb.uid)
    BY <1>1, <1>5 DEF IdleSince, PrecedenceInv, OrderInv, IInv, WakeGate
  <2> QED
    BY <1>2, <2>1, <2>2 DEF Implements, Session!Next, Session!Close
<1> QED
  BY <1>3, <1>4, <1>5 DEF Closed

-----------------------------------------------------------------------------
(***************************************************************************)
(* The moves of the Secrets and the Pod.                                   *)
(***************************************************************************)

\* With the Sandbox and the record as they were, only the runner may differ.
LEMMA SameButRunner ==
  ASSUME UNCHANGED <<sb, spawned>>
  PROVE  UNCHANGED <<Stage, AcceptedId, AcceptedAt, InstalledId, Ran>>
BY DEF Stage, StageOf, AcceptedId, AcceptedAt, InstalledId, Ran, Live

LEMMA StartImplements ==
  ASSUME PrecedenceInv, PodStarted
  PROVE  Implements
<1>1. /\ agent # Nil /\ agent.mode = "Running" /\ agent \in Sandboxes /\ agent.podOrder # Nil
      /\ pod = Nil /\ pod' # Nil /\ pod'.owner = agent.uid /\ pod'.order = agent.podOrder
  BY StartsFrom DEF PrecedenceInv, PodStarted
<1>2. sb' = sb /\ spawned' = spawned \cup {WorkOrderSecretName(agent.uid, agent.podOrder)}
  BY DEF PodStarted
<1>3. UNCHANGED <<Stage, AcceptedId, AcceptedAt, InstalledId>>
  BY <1>2 DEF Stage, StageOf, AcceptedId, AcceptedAt, InstalledId, Live
<1>4. Runner = Nil
  BY <1>1 DEF Runner, Owned
<1>5. CASE Live(sb) /\ agent.uid = sb.uid
  <2>1. sb # Nil /\ Coherent(sb) /\ agent.podOrder = sb.podOrder
    BY <1>1, <1>5 DEF Live, PrecedenceInv, InOrder, OrderInv, ObjectsFit, Objects
  <2>2. InstalledId = agent.podOrder /\ Stage # "none"
    BY <1>5, <2>1 DEF InstalledId, Coherent, Stage, StageOf
  <2>3. Runner' = InstalledId
    BY <1>1, <1>2, <1>5, <2>2 DEF Runner, Owned, Live
  <2>4. agent.podOrder \in OrderIds
    BY <1>1 DEF Sandboxes, OrNil
  <2>5. Ran' = Ran \cup {agent.podOrder}
    <3>1. \A id \in OrderIds :
            WorkOrderSecretName(sb.uid, id) \in spawned' <=>
              WorkOrderSecretName(sb.uid, id) \in spawned \/ id = agent.podOrder
      BY <1>2, <1>5 DEF WorkOrderSecretName
    <3>2. /\ Ran' = {id \in OrderIds : WorkOrderSecretName(sb.uid, id) \in spawned'}
          /\ Ran = {id \in OrderIds : WorkOrderSecretName(sb.uid, id) \in spawned}
      BY <1>2, <1>5 DEF Ran, Live
    <3> QED
      BY <2>4, <3>1, <3>2
  <2> QED
    BY <1>1, <1>3, <1>4, <2>2, <2>3, <2>5, SessionStarts
<1>6. CASE ~(Live(sb) /\ agent.uid = sb.uid)
  <2>1. Runner' = Nil
    BY <1>1, <1>2, <1>6 DEF Runner, Owned, Live
  <2>2. Ran' = Ran
    BY <1>2, <1>6 DEF Ran, Live, WorkOrderSecretName
  <2> QED
    BY <1>3, <1>4, <2>1, <2>2, SessionStutters
<1> QED
  BY <1>5, <1>6

LEMMA WentOnImplements ==
  ASSUME PodWentOn
  PROVE  Implements
<1>1. UNCHANGED <<Stage, AcceptedId, AcceptedAt, InstalledId, Ran>>
  BY SameButRunner DEF PodWentOn
<1>2. UNCHANGED Runner
  BY DEF PodWentOn, Runner, Owned, Live
<1> QED
  BY <1>1, <1>2, SessionStutters

LEMMA LeftImplements ==
  ASSUME OrderInv, PodLeft
  PROVE  Implements
<1>1. UNCHANGED <<Stage, AcceptedId, AcceptedAt, InstalledId, Ran>>
  BY SameButRunner DEF PodLeft
<1>2. Runner' = Nil
  BY DEF PodLeft, Runner, Owned
<1>3. CASE Runner = Nil
  BY <1>1, <1>2, <1>3, SessionStutters
<1>4. CASE Runner # Nil
  BY <1>1, <1>2, <1>4, SessionStops
<1> QED
  BY <1>3, <1>4

\* What moves neither the Sandbox nor the Pod the session does not see.
LEMMA UnseenImplements ==
  ASSUME UNCHANGED <<sb, pod, spawned>>
  PROVE  Implements
<1>1. UNCHANGED <<Stage, AcceptedId, AcceptedAt, InstalledId, Ran>>
  BY SameButRunner
<1>2. UNCHANGED Runner
  BY DEF Runner, Owned, Live
<1> QED
  BY <1>1, <1>2, SessionStutters

-----------------------------------------------------------------------------
(***************************************************************************)
(* The refinement.                                                         *)
(***************************************************************************)

LEMMA InitImplements == Init => Session!Init
BY DEF Init, APIInit, Session!Init, Session!Absent, StageOf, Live

LEMMA NextImplements ==
  ASSUME OneAttemptPerId, PrecedenceInv, PrecedenceInv', [Next]_vars
  PROVE  Implements
<1>1. OrderInv
  BY DEF PrecedenceInv
<1>2. CASE Next
  <2>1. Course
    BY <1>1, <1>2, NextCourse DEF OrderInv
  <2>2. CASE Quiet \/ SecretMade \/ SecretsCollected
    BY <2>2, UnseenImplements DEF Quiet, apiVars, SecretMade, SecretsCollected
  <2>3. CASE Opened \/ Appeared
    <3>1. sb = Nil
      BY <2>3 DEF Opened, Appeared
    <3>2. CASE sb' # Nil
      BY <1>1, <2>1, <3>1, <3>2, AppearImplements
    <3>3. CASE sb' = Nil
      BY <2>3, <3>1, <3>3, UnseenImplements DEF Opened, Appeared
    <3> QED
      BY <3>2, <3>3
  <2>4. CASE Turned
    BY <2>1, <2>4, TurnImplements
  <2>5. CASE Closed
    BY <2>5, CloseImplements
  <2>6. CASE PodStarted
    BY <2>6, StartImplements
  <2>7. CASE PodWentOn
    BY <2>7, WentOnImplements
  <2>8. CASE PodLeft
    BY <1>1, <2>8, LeftImplements
  <2> QED
    BY <2>1, <2>2, <2>3, <2>4, <2>5, <2>6, <2>7, <2>8 DEF Course, Moves
<1>3. CASE UNCHANGED vars
  BY <1>3, UnseenImplements DEF vars, apiVars
<1> QED
  BY <1>2, <1>3

\* Hooks, controllers, caches and agent-sandbox together keep the promise of one session:
\* one runner at a time, in the order of attempts, an order settled only by running it, a
\* session closed only at rest (shock-spec sections 6 and 7).
THEOREM Refinement ==
  ASSUME OneAttemptPerId
  PROVE  Spec => ImplementsSessionOrders
<1>1. PrecedenceInv /\ PrecedenceInv' /\ [Next]_vars => [Session!Next]_(Session!vars)
  BY NextImplements DEF Implements
<1> QED
  BY <1>1, InitImplements, PrecedenceInvariance, PTL
     DEF Spec, ImplementsSessionOrders, Session!Spec
=============================================================================
