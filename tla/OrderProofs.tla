----------------------------- MODULE OrderProofs -----------------------------
(***************************************************************************)
(* OrderInv is an invariant of Spec, for any hooks, controllers, offers    *)
(* and disruptions.                                                        *)
(*                                                                         *)
(* Every step makes one of ten moves on the API objects (Moves): the       *)
(* Sandbox is opened, appears, closes or takes a turn; a Secret is made or *)
(* collected; the Pod starts, goes on or is gone; or nothing happens to    *)
(* them.  A turn is one of six, by what it does to the order annotations.  *)
(* The reads grow by what was the object (LifecycleProofs), and a hook     *)
(* goes on as HookGoesOn says.  Each part of the invariant is kept by the  *)
(* moves, whatever action made them.                                       *)
(***************************************************************************)
EXTENDS OrderInv, LifecycleProofs

-----------------------------------------------------------------------------
(***************************************************************************)
(* The turns a Sandbox can take.                                           *)
(***************************************************************************)

SameOrder(s, t)     == t.lastId = s.lastId /\ t.lastAttempt = s.lastAttempt
SamePending(s, t)   == t.pending = s.pending /\ t.pendingSecret = s.pendingSecret
SameInstalled(s, t) ==
  t.applied = s.applied /\ t.podOrder = s.podOrder /\ t.podSecret = s.podSecret

SameHistory(s, t)   == t.lastSecret = s.lastSecret /\ t.suspendedAt = s.suspendedAt

\* The name and labels stay, and only an operator deletes.
SameSelf(s, t) ==
  /\ t \in Sandboxes
  /\ t.uid = s.uid
  /\ t.managed = s.managed
  /\ t.selected = s.selected
  /\ t.deleting => s.deleting \/ "delete" \in Disruptions

\* t differs from s in nothing the annotations, the podTemplate and the mode say.
Alike(s, t) ==
  /\ SameSelf(s, t) /\ SameOrder(s, t) /\ SamePending(s, t) /\ SameInstalled(s, t)
  /\ SameHistory(s, t)
  /\ t.mode = s.mode

\* Users write spec or annotations; a change of the mode moves the generation.
ByUser(s, t) ==
  /\ t.finished = s.finished
  /\ \/ t.gen = s.gen + 1
     \/ t.gen = s.gen /\ t.mode = s.mode

\* Agent-sandbox writes status, of the Pod as it is.
ByAgent(s, t) ==
  /\ t.gen = s.gen
  /\ \/ t.finished = 0
     \/ t.finished = s.gen /\ Owned(pod, s.uid) /\ pod.phase = "Finished"

\* Status, and an operator's deletion.
Touched(s, t) == Alike(s, t) /\ (ByUser(s, t) \/ ByAgent(s, t))

\* repairRedelivery
Repointed(s, t, o) ==
  /\ SameSelf(s, t) /\ SameOrder(s, t) /\ SameInstalled(s, t) /\ ByUser(s, t)
  /\ t.mode = s.mode
  /\ t.pending = s.pending
  /\ t.pendingSecret = IF s.pending = o.id /\ s.pendingSecret = Nil
                       THEN WorkOrderSecretName(s.uid, o.id) ELSE s.pendingSecret
  /\ t.suspendedAt = s.suspendedAt

\* publishNewer
Superseded(s, t, o) ==
  /\ SameSelf(s, t) /\ SameInstalled(s, t) /\ ByUser(s, t)
  /\ s.managed
  /\ o.id # s.lastId
  /\ o.attempt > s.lastAttempt
  /\ t.mode = "Suspended"
  /\ t.lastId = o.id /\ t.lastAttempt = o.attempt
  /\ t.pending = o.id /\ t.pendingSecret = WorkOrderSecretName(s.uid, o.id)

\* spawnObservation, from the Pod as some controller saw it
Acknowledged(s, t) ==
  /\ SameSelf(s, t) /\ SameOrder(s, t) /\ SameInstalled(s, t) /\ ByUser(s, t)
  /\ s.managed
  /\ \E p \in PodReads : SpawnObserved(s, p)
  /\ t.mode = s.mode
  /\ t.pending = Nil /\ t.pendingSecret = Nil

\* sleep
FellAsleep(s, t) ==
  /\ SameSelf(s, t) /\ SameOrder(s, t) /\ SamePending(s, t) /\ SameInstalled(s, t)
  /\ ByUser(s, t)
  /\ s.managed /\ ~s.deleting
  /\ ShouldSleep(s)
  /\ t.mode = "Suspended"

\* wake
WokeUp(s, t) ==
  /\ SameSelf(s, t) /\ SameOrder(s, t) /\ SamePending(s, t) /\ ByUser(s, t)
  /\ s.managed
  /\ ShouldWake(s) /\ s.pendingSecret # Nil
  /\ t.gen = s.gen + 1
  /\ t.mode = "Running"
  /\ t.applied = s.pending /\ t.podOrder = s.pending /\ t.podSecret = s.pendingSecret

\* A hook writes what it computed from the object as it is.
HookWrites(h, s, t) ==
  /\ hooks[h].pc = "patch"
  /\ hooks[h].snap = s
  /\ \/ Repointed(s, t, hooks[h].offer)
     \/ Superseded(s, t, hooks[h].offer)

Turn(s, t) ==
  \/ Touched(s, t)
  \/ \E h \in Hooks : HookWrites(h, s, t)
  \/ Acknowledged(s, t)
  \/ FellAsleep(s, t)
  \/ WokeUp(s, t)

-----------------------------------------------------------------------------
(***************************************************************************)
(* The moves of the API objects.                                           *)
(***************************************************************************)

Quiet == UNCHANGED apiVars

Opened ==
  /\ sb = Nil
  /\ \E o \in Offers : sb' = NewSandbox(lastUid + 1, o)
  /\ lastUid' = lastUid + 1
  /\ UNCHANGED <<secrets, pod, spawned>>

Appeared ==
  /\ sb = Nil
  /\ "foreign" \in Disruptions
  /\ sb' \in Sandboxes
  /\ sb'.uid = lastUid + 1 /\ ~sb'.managed /\ ~sb'.deleting /\ sb'.mode = "Suspended"
  /\ sb'.pending = Nil /\ sb'.pendingSecret = Nil /\ sb'.lastId = Nil
  /\ sb'.applied = Nil /\ sb'.podOrder = Nil
  /\ sb'.finished = 0 /\ sb'.gen = 1 /\ ~sb'.suspendedAt
  /\ lastUid' = lastUid + 1
  /\ UNCHANGED <<secrets, pod, spawned>>

Turned ==
  /\ sb # Nil
  /\ Turn(sb, sb')
  /\ UNCHANGED <<secrets, pod, lastUid, spawned>>

Closed ==
  /\ sb # Nil
  /\ sb' = Nil
  /\ sb.deleting \/ (sb.managed /\ IdleSince(sb))
  /\ UNCHANGED <<secrets, pod, lastUid, spawned>>

SecretMade ==
  /\ \E h \in Hooks :
       /\ hooks[h].pc = "secret"
       /\ secrets' = secrets \cup {WorkOrderSecret(hooks[h].snap, hooks[h].offer)}
  /\ UNCHANGED <<sb, pod, lastUid, spawned>>

SecretsCollected ==
  /\ secrets' = {x \in secrets : ~Orphaned(x.owner)}
  /\ UNCHANGED <<sb, pod, lastUid, spawned>>

PodStarted ==
  /\ agent # Nil
  /\ NeedsPod(agent)
  /\ pod' = [owner |-> agent.uid, order |-> agent.podOrder, secret |-> agent.podSecret,
             phase |-> "Live", terminating |-> FALSE]
  /\ spawned' = spawned \cup {WorkOrderSecretName(agent.uid, agent.podOrder)}
  /\ agent' = Nil
  /\ UNCHANGED <<sb, secrets, lastUid>>

\* The Pod goes on, finished or marked terminating: by agent-sandbox, which suspends it,
\* as an orphan, or in a drain.
PodWentOn ==
  /\ pod # Nil /\ pod' # Nil
  /\ pod'.owner = pod.owner /\ pod'.order = pod.order /\ pod'.secret = pod.secret
  /\ pod'.phase \in {pod.phase, "Finished"}
  /\ pod'.terminating # pod.terminating =>
       \/ agent # Nil /\ NeedsNoPod(agent) /\ agent' = Nil
       \/ Orphaned(pod.owner)
       \/ "drain" \in Disruptions
  /\ UNCHANGED <<sb, secrets, lastUid, spawned>>

PodLeft ==
  /\ pod # Nil
  /\ pod.terminating
  /\ pod' = Nil
  /\ UNCHANGED <<sb, secrets, lastUid, spawned>>

Moves ==
  \/ Quiet \/ Opened \/ Appeared \/ Turned \/ Closed
  \/ SecretMade \/ SecretsCollected
  \/ PodStarted \/ PodWentOn \/ PodLeft

\* A hook is not past Get, or stays where it is, or has its Secret, or has just read a
\* Sandbox it may repair or publish onto.
HookGoesOn(h) ==
  \/ hooks'[h].pc \notin {"secret", "patch"}
  \/ /\ hooks'[h].pc = hooks[h].pc
     /\ hooks'[h].snap = hooks[h].snap
     /\ hooks'[h].offer = hooks[h].offer
  \/ /\ hooks[h].pc = "secret"
     /\ hooks'[h].pc = "patch"
     /\ hooks'[h].snap = hooks[h].snap
     /\ hooks'[h].offer = hooks[h].offer
     /\ \E x \in secrets' :
          x.name = WorkOrderSecretName(hooks[h].snap.uid, hooks[h].offer.id)
  \/ /\ hooks'[h].pc = "secret"
     /\ Evaluate(hooks'[h].snap, hooks'[h].offer) \in {"redelivery", "newer"}

\* What every step is (see NextCourse).
Course ==
  /\ Shape
  /\ Moves
  /\ \A h \in Hooks : HookGoesOn(h)
  /\ PodReads' \subseteq PodReads \cup {pod'}

-----------------------------------------------------------------------------
(***************************************************************************)
(* Each mutation is a turn.                                                *)
(***************************************************************************)

\* The two ways of writing change nothing but the versions.
LEMMA WrittenAlike ==
  ASSUME NEW s \in Sandboxes
  PROVE  /\ Alike(s, Written(s)) /\ Written(s).finished = s.finished
         /\ Alike(s, WrittenSpec(s)) /\ WrittenSpec(s).finished = s.finished
<1>1. Written(s) \in Sandboxes /\ WrittenSpec(s) \in Sandboxes
  BY WrittenFacts, WrittenSpecFacts
<1>2. Alike(s, Written(s)) /\ Written(s).finished = s.finished
  BY <1>1 DEF Alike, SameSelf, SameOrder, SamePending, SameInstalled, SameHistory, Written,
         Sandboxes
<1>3. Alike(s, WrittenSpec(s)) /\ WrittenSpec(s).finished = s.finished
  BY <1>1 DEF Alike, SameSelf, SameOrder, SamePending, SameInstalled, SameHistory,
         WrittenSpec, Sandboxes
<1> QED
  BY <1>2, <1>3

\* repairRedelivery's write
LEMMA RepairedTurn ==
  ASSUME NEW s \in Sandboxes, NEW o \in Offers, NEW t, t = Written(Repaired(s, o))
  PROVE  Repointed(s, t, o)
<1> DEFINE u == Repaired(s, o)
<1>1. Derived(s, u) /\ u.mode = s.mode /\ u.lastId = s.lastId /\ u.lastAttempt = s.lastAttempt
      /\ u.podOrder = s.podOrder
  BY HookMutations
<1>2. /\ u.managed = s.managed /\ u.selected = s.selected
      /\ u.deleting = s.deleting /\ u.finished = s.finished
      /\ u.applied = s.applied /\ u.podSecret = s.podSecret /\ u.pending = s.pending
      /\ u.pendingSecret = IF s.pending = o.id /\ s.pendingSecret = Nil
                           THEN WorkOrderSecretName(s.uid, o.id) ELSE s.pendingSecret
      /\ u.suspendedAt = s.suspendedAt
  BY DEF Repaired, Sandboxes
<1> HIDE DEF u
<1>3. u \in Sandboxes /\ t = Written(u) /\ t.gen = u.gen
  BY <1>1, WrittenFacts DEF Derived, u
<1>4. Alike(u, t) /\ t.finished = u.finished
  BY <1>3, WrittenAlike
<1>5. SameSelf(s, t)
  BY <1>1, <1>2, <1>4 DEF Alike, SameSelf, Derived
<1>6. ByUser(s, t) /\ t.mode = s.mode
  BY <1>1, <1>2, <1>3, <1>4 DEF Alike, ByUser, Derived
<1>7. SameOrder(s, t) /\ SameInstalled(s, t) /\ t.pending = s.pending
      /\ t.pendingSecret = u.pendingSecret /\ t.suspendedAt = s.suspendedAt
  BY <1>1, <1>2, <1>4 DEF Alike, SameOrder, SamePending, SameInstalled, SameHistory
<1> QED
  BY <1>2, <1>5, <1>6, <1>7 DEF Repointed

\* publishNewer's write
LEMMA PublishedTurn ==
  ASSUME NEW s \in Sandboxes, NEW o \in Offers, Evaluate(s, o) = "newer", NEW t,
         \/ t = WrittenSpec(Published(s, o))
         \/ t = Written(Published(s, o)) /\ Published(s, o).mode = s.mode
  PROVE  Superseded(s, t, o)
<1> DEFINE u == Published(s, o)
<1>1. Derived(s, u) /\ u.mode = "Suspended" /\ u.lastId = o.id /\ u.lastAttempt = o.attempt
  BY HookMutations
<1>2. /\ u.managed = s.managed /\ u.selected = s.selected
      /\ u.deleting = s.deleting /\ u.finished = s.finished
      /\ u.applied = s.applied /\ u.podOrder = s.podOrder /\ u.podSecret = s.podSecret
      /\ u.pending = o.id /\ u.pendingSecret = WorkOrderSecretName(s.uid, o.id)
  BY DEF Published, Sandboxes
<1>3. s.managed /\ o.id # s.lastId /\ o.attempt > s.lastAttempt
  BY APIAssumption DEF Evaluate, Orders, Sandboxes
<1> HIDE DEF u
<1>4. u \in Sandboxes
  BY <1>1 DEF Derived
<1>5. /\ Alike(u, t) /\ t.finished = u.finished
      /\ t.gen = u.gen + 1 \/ (t.gen = u.gen /\ u.mode = s.mode)
  BY <1>4, WrittenAlike, WrittenFacts, WrittenSpecFacts DEF u
<1>6. SameSelf(s, t)
  BY <1>1, <1>2, <1>5 DEF Alike, SameSelf, Derived
<1>7. ByUser(s, t) /\ t.mode = "Suspended"
  BY <1>1, <1>2, <1>5 DEF Alike, ByUser, Derived
<1>8. /\ SameInstalled(s, t) /\ t.lastId = o.id /\ t.lastAttempt = o.attempt
      /\ t.pending = o.id /\ t.pendingSecret = WorkOrderSecretName(s.uid, o.id)
  BY <1>1, <1>2, <1>5 DEF Alike, SameOrder, SamePending, SameInstalled
<1> QED
  BY <1>3, <1>6, <1>7, <1>8 DEF Superseded

\* The controller's writes
LEMMA SettledTurn ==
  ASSUME NEW s \in Sandboxes, s.managed, NEW p \in PodReads, SpawnObserved(s, p)
  PROVE  Acknowledged(s, Written(Settled(s)))
<1> DEFINE u == Settled(s)
           t == Written(u)
<1>1. Derived(s, u) /\ u.mode = s.mode
  BY ControllerMutations
<1>2. /\ u.managed = s.managed /\ u.selected = s.selected
      /\ u.deleting = s.deleting /\ u.finished = s.finished
      /\ SameOrder(s, u) /\ SameInstalled(s, u) /\ u.pending = Nil /\ u.pendingSecret = Nil
  BY DEF Settled, Sandboxes, SameOrder, SameInstalled
<1> HIDE DEF u
<1>3. Alike(u, t) /\ t.finished = u.finished /\ t.gen = u.gen
  BY <1>1, WrittenAlike, WrittenFacts DEF Derived
<1> HIDE DEF t
<1>4. SameSelf(s, t) /\ ByUser(s, t)
  BY <1>1, <1>2, <1>3 DEF Alike, SameSelf, ByUser, Derived
<1>5. /\ SameOrder(s, t) /\ SameInstalled(s, t) /\ t.mode = s.mode
      /\ t.pending = Nil /\ t.pendingSecret = Nil
  BY <1>1, <1>2, <1>3 DEF Alike, SameOrder, SamePending, SameInstalled
<1>6. Acknowledged(s, t)
  BY <1>4, <1>5 DEF Acknowledged
<1> QED
  BY <1>6 DEF t, u

LEMMA AsleepTurn ==
  ASSUME NEW s \in Sandboxes, s.managed, ~s.deleting, ShouldSleep(s)
  PROVE  FellAsleep(s, WrittenSpec(Asleep(s)))
<1> DEFINE u == Asleep(s)
           t == WrittenSpec(u)
<1>1. Derived(s, u) /\ u.mode = "Suspended"
  BY ControllerMutations
<1>2. /\ u.managed = s.managed /\ u.selected = s.selected
      /\ u.deleting = s.deleting /\ u.finished = s.finished
      /\ SameOrder(s, u) /\ SameInstalled(s, u) /\ SamePending(s, u)
  BY DEF Asleep, Sandboxes, SameOrder, SameInstalled, SamePending
<1> HIDE DEF u
<1>3. Alike(u, t) /\ t.finished = u.finished /\ t.gen = u.gen + 1
  BY <1>1, WrittenAlike, WrittenSpecFacts DEF Derived
<1> HIDE DEF t
<1>4. SameSelf(s, t) /\ ByUser(s, t)
  BY <1>1, <1>2, <1>3 DEF Alike, SameSelf, ByUser, Derived
<1>5. SameOrder(s, t) /\ SameInstalled(s, t) /\ SamePending(s, t) /\ t.mode = "Suspended"
  BY <1>1, <1>2, <1>3 DEF Alike, SameOrder, SamePending, SameInstalled
<1>6. FellAsleep(s, t)
  BY <1>4, <1>5 DEF FellAsleep
<1> QED
  BY <1>6 DEF t, u

LEMMA WokenTurn ==
  ASSUME NEW s \in Sandboxes, s.managed, ShouldWake(s), s.pendingSecret # Nil
  PROVE  WokeUp(s, WrittenSpec(Woken(s)))
<1> DEFINE u == Woken(s)
           t == WrittenSpec(u)
<1>1. Derived(s, u)
  BY ControllerMutations
<1>2. /\ u.managed = s.managed /\ u.selected = s.selected
      /\ u.deleting = s.deleting /\ u.finished = s.finished
      /\ SameOrder(s, u) /\ SamePending(s, u) /\ u.mode = "Running"
      /\ u.applied = s.pending /\ u.podOrder = s.pending /\ u.podSecret = s.pendingSecret
  BY DEF Woken, Sandboxes, SameOrder, SamePending
<1> HIDE DEF u
<1>3. Alike(u, t) /\ t.finished = u.finished /\ t.gen = u.gen + 1
  BY <1>1, WrittenAlike, WrittenSpecFacts DEF Derived
<1> HIDE DEF t
<1>4. SameSelf(s, t) /\ ByUser(s, t) /\ t.gen = s.gen + 1
  BY <1>1, <1>2, <1>3 DEF Alike, SameSelf, ByUser, Derived
<1>5. /\ SameOrder(s, t) /\ SamePending(s, t) /\ t.mode = "Running"
      /\ t.applied = s.pending /\ t.podOrder = s.pending /\ t.podSecret = s.pendingSecret
  BY <1>2, <1>3 DEF Alike, SameOrder, SamePending, SameInstalled
<1>6. WokeUp(s, t)
  BY <1>4, <1>5 DEF WokeUp
<1> QED
  BY <1>6 DEF t, u

\* Agent-sandbox's write
LEMMA ObservedTurn ==
  ASSUME NEW s \in Sandboxes
  PROVE  Touched(s, Written(Observed(s)))
<1> DEFINE u == Observed(s)
           t == Written(u)
<1>1. u \in Sandboxes /\ u.uid = s.uid /\ u.gen = s.gen
  BY ObservedFacts
<1>2. /\ u.managed = s.managed /\ u.selected = s.selected
      /\ u.deleting = s.deleting /\ u.mode = s.mode
      /\ SameOrder(s, u) /\ SameInstalled(s, u) /\ SamePending(s, u) /\ SameHistory(s, u)
  BY DEF Observed, Sandboxes, SameOrder, SameInstalled, SamePending, SameHistory
<1>3. u.finished = 0 \/ (u.finished = s.gen /\ Owned(pod, s.uid) /\ pod.phase = "Finished")
  BY DEF Observed, Sandboxes
<1> HIDE DEF u
<1>4. Alike(u, t) /\ t.finished = u.finished /\ t.gen = u.gen
  BY <1>1, WrittenAlike, WrittenFacts
<1> HIDE DEF t
<1>5. ByAgent(s, t)
  BY <1>1, <1>3, <1>4 DEF ByAgent
<1>6. Alike(s, t)
  BY <1>1, <1>2, <1>4 DEF Alike, SameSelf, SameOrder, SamePending, SameInstalled, SameHistory
<1>7. Touched(s, t)
  BY <1>5, <1>6 DEF Touched
<1> QED
  BY <1>7 DEF t, u

\* An operator's deletion
LEMMA DeletedTurn ==
  ASSUME NEW s \in Sandboxes, "delete" \in Disruptions
  PROVE  Touched(s, WrittenSpec([s EXCEPT !.deleting = TRUE]))
<1> DEFINE u == [s EXCEPT !.deleting = TRUE]
           t == WrittenSpec(u)
<1>1. u \in Sandboxes /\ u.uid = s.uid /\ u.gen = s.gen /\ u.managed = s.managed
      /\ u.selected = s.selected /\ u.mode = s.mode /\ u.finished = s.finished
  BY DEF Sandboxes
<1>2. SameOrder(s, u) /\ SameInstalled(s, u) /\ SamePending(s, u) /\ SameHistory(s, u)
  BY DEF Sandboxes, SameOrder, SameInstalled, SamePending, SameHistory
<1> HIDE DEF u
<1>3. Alike(u, t) /\ t.finished = u.finished /\ t.gen = u.gen + 1
  BY <1>1, WrittenAlike, WrittenSpecFacts
<1> HIDE DEF t
<1>4. Alike(s, t) /\ ByUser(s, t)
  BY <1>1, <1>2, <1>3 DEF Alike, SameSelf, SameOrder, SamePending, SameInstalled,
         SameHistory, ByUser
<1>5. Touched(s, t)
  BY <1>4 DEF Touched
<1> QED
  BY <1>5 DEF t, u

-----------------------------------------------------------------------------
(***************************************************************************)
(* Every action takes the course: the hook's.                              *)
(***************************************************************************)

\* Nothing but the cache of the Pod adds to what is read of it.
LEMMA OnCourse ==
  ASSUME Shape, Moves, \A h \in Hooks : HookGoesOn(h), UNCHANGED cache
  PROVE  Course
BY DEF Course, PodReads

\* One slot moves at a time.
LEMMA OthersWait ==
  ASSUME NEW h \in Hooks, \A g \in Hooks \ {h} : hooks'[g] = hooks[g], HookGoesOn(h)
  PROVE  \A g \in Hooks : HookGoesOn(g)
BY DEF HookGoesOn

LEMMA ExitGoesOn ==
  ASSUME IInv, NEW h \in Hooks, Exit(h)
  PROVE  \A g \in Hooks : HookGoesOn(g)
<1>1. hooks \in [Hooks -> Invocation] /\ hooks' = [hooks EXCEPT ![h] = Idle]
  BY DEF IInv, TypeOK, HookTypeOK, Exit
<1>2. hooks'[h].pc = "idle" /\ \A g \in Hooks \ {h} : hooks'[g] = hooks[g]
  BY <1>1 DEF Idle
<1> QED
  BY <1>2, OthersWait DEF HookGoesOn

LEMMA ExitsGoOn ==
  ASSUME IInv, NEW h \in Hooks,
         \/ ExitRetryable(h)
         \/ \E why \in {"foreign", "attempt", "secret"} : ExitNonRetryable(h, why)
         \/ \E s \in Sandboxes : ExitSubmitted(h, s)
  PROVE  \A g \in Hooks : HookGoesOn(g)
BY ExitGoesOn DEF ExitRetryable, ExitNonRetryable, ExitSubmitted

\* What Goto leaves.
LEMMA Gone ==
  ASSUME IInv, NEW h \in Hooks, NEW pc, NEW s, Goto(h, pc, s)
  PROVE  /\ hooks'[h].pc = pc /\ hooks'[h].snap = s /\ hooks'[h].offer = hooks[h].offer
         /\ \A g \in Hooks \ {h} : hooks'[g] = hooks[g]
<1>1. hooks \in [Hooks -> Invocation]
  BY DEF IInv, TypeOK, HookTypeOK
<1> QED
  BY <1>1 DEF Goto, Invocation

LEMMA RetryGoesOn ==
  ASSUME IInv, NEW h \in Hooks, Retry(h)
  PROVE  \A g \in Hooks : HookGoesOn(g)
<1>1. CASE ExitRetryable(h)
  BY <1>1, ExitsGoOn
<1>2. CASE hooks' = [hooks EXCEPT ![h].pc = "get", ![h].snap = Nil, ![h].tries = @ + 1]
  <2>1. hooks \in [Hooks -> Invocation]
    BY DEF IInv, TypeOK, HookTypeOK
  <2>2. hooks'[h].pc = "get" /\ \A g \in Hooks \ {h} : hooks'[g] = hooks[g]
    BY <1>2, <2>1 DEF Invocation
  <2> QED
    BY <2>2, OthersWait DEF HookGoesOn
<1> QED
  BY <1>1, <1>2 DEF Retry

LEMMA ReconcileGoesOn ==
  ASSUME IInv, NEW h \in Hooks, NEW s \in Sandboxes, ReconcileExisting(h, s)
  PROVE  \A g \in Hooks : HookGoesOn(g)
<1>1. CASE Goto(h, "secret", s) /\ Evaluate(s, hooks[h].offer) \in {"redelivery", "newer"}
  <2>1. /\ hooks'[h].pc = "secret" /\ hooks'[h].snap = s /\ hooks'[h].offer = hooks[h].offer
        /\ \A g \in Hooks \ {h} : hooks'[g] = hooks[g]
    BY <1>1, Gone
  <2>2. HookGoesOn(h)
    BY <1>1, <2>1 DEF HookGoesOn
  <2> QED
    BY <2>1, <2>2, OthersWait
<1>2. CASE \/ ExitRetryable(h)
           \/ \E why \in {"foreign", "attempt", "secret"} : ExitNonRetryable(h, why)
           \/ ExitSubmitted(h, s)
  BY <1>2, ExitsGoOn
<1> QED
  BY <1>1, <1>2, Zenon DEF ReconcileExisting

LEMMA DeliverCourse ==
  ASSUME IInv, NEW h \in Hooks, NEW o \in Offers, Deliver(h, o), UNCHANGED <<cache, agentVars>>
  PROVE  Course
<1>1. hooks \in [Hooks -> Invocation]
  BY DEF IInv, TypeOK, HookTypeOK
<1>2. hooks' = [hooks EXCEPT ![h] = [Idle EXCEPT !.pc = "get", !.offer = o]]
  BY DEF Deliver
<1>3. hooks'[h].pc = "get" /\ \A g \in Hooks \ {h} : hooks'[g] = hooks[g]
  BY <1>1, <1>2 DEF Idle
<1>4. \A g \in Hooks : HookGoesOn(g)
  BY <1>3, OthersWait DEF HookGoesOn
<1>5. Moves
  BY DEF Deliver, Moves, Quiet
<1> QED
  BY <1>4, <1>5, DeliverShape, OnCourse

LEMMA GetCourse ==
  ASSUME IInv, NEW h \in Hooks, Get(h), UNCHANGED <<cache, agentVars>>
  PROVE  Course
<1>1. CASE Goto(h, "create", Nil)
  <2>1. hooks'[h].pc = "create" /\ \A g \in Hooks \ {h} : hooks'[g] = hooks[g]
    BY <1>1, Gone
  <2> QED
    BY <2>1, OthersWait, GetShape, OnCourse DEF HookGoesOn, Get, Moves, Quiet
<1>2. CASE ExitRetryable(h)
  BY <1>2, ExitsGoOn, GetShape, OnCourse DEF Get, Moves, Quiet
<1>3. CASE sb # Nil /\ ReconcileExisting(h, sb)
  <2>1. sb \in Sandboxes
    BY <1>3 DEF IInv, TypeOK, APITypeOK, OrNil
  <2> QED
    BY <1>3, <2>1, ReconcileGoesOn, GetShape, OnCourse DEF Get, Moves, Quiet
<1> QED
  BY <1>1, <1>2, <1>3 DEF Get

LEMMA CreateSandboxCourse ==
  ASSUME IInv, NEW h \in Hooks, CreateSandbox(h), UNCHANGED <<cache, agentVars>>
  PROVE  Course
<1>1. hooks[h].offer \in Offers /\ lastUid + 1 \in Nat
  BY OfferTaken DEF CreateSandbox, IInv, TypeOK, APITypeOK
<1>2. sb' \in Sandboxes
  BY <1>1, NewSandboxFacts DEF CreateSandbox
<1>3. \A g \in Hooks : HookGoesOn(g)
  BY <1>2, ReconcileGoesOn DEF CreateSandbox
<1>4. Opened
  BY <1>1 DEF CreateSandbox, Opened
<1> QED
  BY <1>3, <1>4, CreateSandboxShape, OnCourse DEF Moves

LEMMA CreateLostCourse ==
  ASSUME IInv, NEW h \in Hooks, CreateLost(h), UNCHANGED <<cache, agentVars>>
  PROVE  Course
BY RetryGoesOn, CreateLostShape, OnCourse DEF CreateLost, Moves, Quiet

LEMMA EnsureSecretCourse ==
  ASSUME IInv, NEW h \in Hooks, EnsureSecret(h), UNCHANGED <<cache, agentVars>>
  PROVE  Course
<1> DEFINE s == hooks[h].snap
           desired == WorkOrderSecret(s, hooks[h].offer)
<1>1. hooks[h].pc = "secret" /\ desired.name = WorkOrderSecretName(s.uid, hooks[h].offer.id)
  BY DEF EnsureSecret, WorkOrderSecret
<1>2. UNCHANGED <<sb, pod, lastUid, spawned>>
  BY DEF EnsureSecret
<1>3. Moves
  <2>1. CASE secrets' = secrets \cup {desired}
    BY <1>1, <1>2, <2>1 DEF Moves, SecretMade
  <2>2. CASE secrets' = secrets
    BY <1>2, <2>2 DEF Moves, Quiet, apiVars
  <2> QED
    BY <2>1, <2>2 DEF EnsureSecret
<1>4. \A g \in Hooks : HookGoesOn(g)
  <2>1. CASE Goto(h, "patch", s) /\ desired \in secrets'
    <3>1. /\ hooks'[h].pc = "patch" /\ hooks'[h].snap = s /\ hooks'[h].offer = hooks[h].offer
          /\ \A g \in Hooks \ {h} : hooks'[g] = hooks[g]
      BY <2>1, Gone
    <3>2. HookGoesOn(h)
      BY <1>1, <2>1, <3>1 DEF HookGoesOn
    <3> QED
      BY <3>1, <3>2, OthersWait
  <2>2. CASE ExitNonRetryable(h, "secret")
    BY <2>2, ExitsGoOn
  <2> QED
    BY <2>1, <2>2 DEF EnsureSecret
<1> QED
  BY <1>3, <1>4, EnsureSecretShape, OnCourse

\* The pinned patch writes what was computed from the object as it is, or re-reads.
LEMMA PinnedPatchCourse ==
  ASSUME IInv, NEW h \in Hooks, hooks[h].pc = "patch", NEW t, PinnedPatch(h, t),
         \/ Repointed(hooks[h].snap, t, hooks[h].offer)
         \/ Superseded(hooks[h].snap, t, hooks[h].offer),
         UNCHANGED <<secrets, pod, lastUid, spawned>>
  PROVE  Moves /\ \A g \in Hooks : HookGoesOn(g)
<1>1. hooks[h].snap \in Sandboxes /\ hooks[h].snap \in Reads
  BY SnapHeld
<1>2. CASE Current(hooks[h].snap) /\ sb' = t /\ ExitSubmitted(h, hooks[h].snap)
  <2>1. hooks[h].snap = sb /\ sb # Nil
    BY <1>1, <1>2, PinnedReadIsCurrent DEF IInv, Current
  <2>2. HookWrites(h, sb, sb')
    BY <1>2, <2>1 DEF HookWrites
  <2>3. Moves
    BY <2>1, <2>2 DEF Moves, Turned, Turn
  <2> QED
    BY <1>1, <1>2, <2>3, ExitsGoOn
<1>3. CASE UNCHANGED sb /\ Retry(h)
  BY <1>3, RetryGoesOn DEF Moves, Quiet, apiVars
<1> QED
  BY <1>2, <1>3 DEF PinnedPatch

LEMMA RepairRedeliveryCourse ==
  ASSUME IInv, NEW h \in Hooks, RepairRedelivery(h), UNCHANGED <<cache, agentVars>>
  PROVE  Course
<1> DEFINE s == hooks[h].snap
           o == hooks[h].offer
<1>1. hooks[h].pc = "patch" /\ s \in Sandboxes /\ o \in Offers
  BY SnapHeld, OfferTaken DEF RepairRedelivery
<1>2. UNCHANGED <<secrets, pod, lastUid, spawned>>
  BY DEF RepairRedelivery
<1>3. Moves /\ \A g \in Hooks : HookGoesOn(g)
  <2>1. CASE PinnedPatch(h, Written(Repaired(s, o)))
    BY <1>1, <1>2, <2>1, RepairedTurn, PinnedPatchCourse
  <2>2. CASE UNCHANGED sb /\ (ExitNonRetryable(h, "secret") \/ ExitSubmitted(h, s))
    BY <1>1, <1>2, <2>2, ExitsGoOn DEF Moves, Quiet, apiVars
  <2> QED
    BY <2>1, <2>2 DEF RepairRedelivery
<1> QED
  BY <1>3, RepairRedeliveryShape, OnCourse

LEMMA PublishNewerCourse ==
  ASSUME IInv, NEW h \in Hooks, PublishNewer(h), UNCHANGED <<cache, agentVars>>
  PROVE  Course
<1> DEFINE s == hooks[h].snap
           o == hooks[h].offer
<1>1. hooks[h].pc = "patch" /\ s \in Sandboxes /\ o \in Offers
  BY SnapHeld, OfferTaken DEF PublishNewer
<1>2. Evaluate(s, o) = "newer" /\ UNCHANGED <<secrets, pod, lastUid, spawned>>
  BY DEF PublishNewer
<1>3. Moves /\ \A g \in Hooks : HookGoesOn(g)
  <2>1. CASE PinnedPatch(h, WrittenSpec(Published(s, o)))
    BY <1>1, <1>2, <2>1, PublishedTurn, PinnedPatchCourse
  <2>2. CASE PinnedPatch(h, Written(Published(s, o))) /\ Published(s, o).mode = s.mode
    BY <1>1, <1>2, <2>2, PublishedTurn, PinnedPatchCourse
  <2> QED
    BY <2>1, <2>2 DEF PublishNewer
<1> QED
  BY <1>3, PublishNewerShape, OnCourse

LEMMA HookNextCourse ==
  ASSUME IInv, HookNext, UNCHANGED <<cache, agentVars>>
  PROVE  Course
<1>1. PICK h \in Hooks :
        (\E o \in Offers : Deliver(h, o)) \/ HookStep(h) \/ HookFails(h)
  BY DEF HookNext
<1>2. CASE \E o \in Offers : Deliver(h, o)
  BY <1>2, DeliverCourse
<1>3. CASE HookStep(h)
  BY <1>3, GetCourse, CreateSandboxCourse, CreateLostCourse, EnsureSecretCourse,
     RepairRedeliveryCourse, PublishNewerCourse DEF HookStep
<1>4. CASE HookFails(h)
  BY <1>4, ExitsGoOn, HookNextShape, OnCourse DEF HookFails, Moves, Quiet
<1> QED
  BY <1>1, <1>2, <1>3, <1>4
-----------------------------------------------------------------------------
(***************************************************************************)
(* ... the controller's, agent-sandbox's and the environment's.            *)
(***************************************************************************)

LEMMA HooksWait == ASSUME UNCHANGED hookVars PROVE \A h \in Hooks : HookGoesOn(h)
BY DEF hookVars, HookGoesOn

\* A Sandbox that is not SHOCK's is bare: no predicate of the controller applies to it, seen
\* or not.
LEMMA ActedOnOwn ==
  ASSUME NEW s, Coherent(s), Accepted(s), NEW p,
         SpawnObserved(s, p) \/ ShouldSleep(s) \/ ShouldWake(s) \/ IdleSince(s)
  PROVE  s.managed
BY DEF Coherent, Accepted, SpawnObserved, ShouldSleep, ShouldWake, IdleSince

LEMMA ReconcileCourse ==
  ASSUME IInv, ObjectsFit, NEW c \in Controllers, Reconcile(c),
         UNCHANGED <<hookVars, agentVars>>
  PROVE  Course
<1> DEFINE s == cache[c].sb
<1>1. s # Nil /\ Current(s) /\ ~s.deleting
  BY DEF Reconcile, SpawnObservation, Sleep, Wake, GC, Reconcilable, ControllerPatch
<1>2. s \in Reads /\ s \in Sandboxes
  BY <1>1, ReadsAreSandboxes DEF Reads, IInv
<1>3. s = sb /\ sb # Nil
  BY <1>1, <1>2, PinnedReadIsCurrent DEF IInv, Current
<1>0. s.managed
  <2>1. Coherent(s) /\ Accepted(s)
    BY <1>2 DEF ObjectsFit, Objects
  <2>2. \/ SpawnObserved(s, cache[c].pod) \/ ShouldSleep(s)
        \/ ShouldWake(s) \/ IdleSince(s)
    BY DEF Reconcile, SpawnObservation, Sleep, Wake, GC
  <2> QED
    BY <2>1, <2>2, ActedOnOwn
<1>4. UNCHANGED <<cache, secrets, pod, lastUid, spawned>>
  BY DEF Reconcile, SpawnObservation, Sleep, Wake, GC, ControllerPatch
<1>5. Moves
  <2>1. CASE SpawnObservation(c)
    <3>1. SpawnObserved(s, cache[c].pod) /\ sb' = Written(Settled(s))
      BY <2>1 DEF SpawnObservation, ControllerPatch
    <3>2. cache[c].pod \in PodReads
      BY <3>1 DEF SpawnObserved, Owned, PodReads
    <3>3. Acknowledged(sb, sb')
      BY <1>0, <1>2, <1>3, <3>1, <3>2, SettledTurn
    <3> QED
      BY <1>3, <1>4, <3>3 DEF Moves, Turned, Turn
  <2>2. CASE Sleep(c)
    <3>1. ShouldSleep(s) /\ sb' = WrittenSpec(Asleep(s))
      BY <2>2 DEF Sleep, ControllerPatch
    <3>2. FellAsleep(sb, sb')
      BY <1>0, <1>1, <1>2, <1>3, <3>1, AsleepTurn
    <3> QED
      BY <1>3, <1>4, <3>2 DEF Moves, Turned, Turn
  <2>3. CASE Wake(c)
    <3>1. ShouldWake(s) /\ s.pendingSecret # Nil /\ sb' = WrittenSpec(Woken(s))
      BY <2>3 DEF Wake, WakePrepared, ControllerPatch
    <3>2. WokeUp(sb, sb')
      BY <1>0, <1>2, <1>3, <3>1, WokenTurn
    <3> QED
      BY <1>3, <1>4, <3>2 DEF Moves, Turned, Turn
  <2>4. CASE GC(c)
    <3>1. IdleSince(s) /\ sb' = Nil
      BY <2>4 DEF GC, ControllerPatch
    <3> QED
      BY <1>0, <1>3, <1>4, <3>1 DEF Moves, Closed
  <2> QED
    BY <2>1, <2>2, <2>3, <2>4 DEF Reconcile
<1> QED
  BY <1>4, <1>5, ReconcileShape, HooksWait, OnCourse

LEMMA CacheSyncCourse ==
  ASSUME IInv, NEW c \in Controllers, CacheSync(c), UNCHANGED <<hookVars, agentVars>>
  PROVE  Course
<1>1. UNCHANGED apiVars
  BY DEF CacheSync, SyncSandbox, SyncPod
<1>2. \A d \in Controllers : cache'[d].pod \in {cache[d].pod, pod}
  <2>1. cache \in [Controllers -> Caches]
    BY DEF IInv, TypeOK, ControllerTypeOK
  <2>2. CASE SyncSandbox(c)
    BY <2>1, <2>2 DEF SyncSandbox, Caches
  <2>3. CASE SyncPod(c)
    BY <2>1, <2>3 DEF SyncPod, Caches
  <2> QED
    BY <2>2, <2>3 DEF CacheSync
<1>3. PodReads' \subseteq PodReads \cup {pod'}
  BY <1>1, <1>2 DEF PodReads, apiVars
<1>4. Moves
  BY <1>1 DEF Moves, Quiet
<1> QED
  BY <1>3, <1>4, CacheSyncShape, HooksWait DEF Course

LEMMA AgentCreatePodMoves == ASSUME AgentCreatePod PROVE Moves
BY DEF AgentCreatePod, Moves, PodStarted

\* A Pod marked terminating goes on otherwise as it was.
LEMMA TerminatingPod ==
  ASSUME pod \in Pods, pod' = [pod EXCEPT !.terminating = TRUE]
  PROVE  /\ pod # Nil /\ pod' # Nil
         /\ pod'.owner = pod.owner /\ pod'.order = pod.order /\ pod'.secret = pod.secret
         /\ pod'.phase = pod.phase
<1>1. pod # Nil /\ pod' # Nil
  BY Terminating, APIAssumption
<1> QED
  BY <1>1 DEF Pods

LEMMA AgentDeletePodMoves ==
  ASSUME IInv, AgentDeletePod
  PROVE  Moves
<1>1. pod \in Pods /\ pod' = [pod EXCEPT !.terminating = TRUE]
  BY DEF AgentDeletePod, NeedsNoPod, Owned, IInv, TypeOK, APITypeOK, OrNil
<1>2. PodWentOn
  BY <1>1, TerminatingPod DEF PodWentOn, AgentDeletePod
<1> QED
  BY <1>2 DEF Moves

LEMMA AgentStatusMoves ==
  ASSUME IInv, AgentStatus
  PROVE  Moves
<1>1. agent \in Sandboxes /\ agent \in Reads
  BY ReadsAreSandboxes DEF AgentStatus, IInv, Reads
<1>2. CASE sb' = sb
  BY <1>2 DEF AgentStatus, Moves, Quiet, apiVars
<1>3. CASE Current(agent) /\ sb' = Written(Observed(agent))
  <2>1. agent = sb /\ sb # Nil
    BY <1>1, <1>3, PinnedReadIsCurrent DEF IInv, Current
  <2>2. Touched(sb, sb')
    BY <1>1, <1>3, <2>1, ObservedTurn
  <2> QED
    BY <2>1, <2>2 DEF AgentStatus, Moves, Turned, Turn
<1> QED
  BY <1>2, <1>3 DEF AgentStatus

LEMMA EnvironmentMoves ==
  ASSUME IInv, Environment
  PROVE  Moves
<1>0. pod \in OrNil(Pods) /\ sb \in OrNil(Sandboxes) /\ lastUid \in Nat
  BY DEF IInv, TypeOK, APITypeOK
<1>1. CASE RunnerFinishes
  <2>1. pod \in Pods /\ pod # Nil /\ pod' = [pod EXCEPT !.phase = "Finished"]
    BY <1>0, <1>1 DEF RunnerFinishes, OrNil
  <2>2. /\ pod' \in Pods /\ pod'.owner = pod.owner /\ pod'.order = pod.order
        /\ pod'.secret = pod.secret /\ pod'.phase = "Finished"
        /\ pod'.terminating = pod.terminating
    BY <2>1 DEF Pods
  <2>3. PodWentOn
    BY <1>1, <2>1, <2>2, APIAssumption DEF PodWentOn, RunnerFinishes
  <2> QED
    BY <2>3 DEF Moves
<1>2. CASE PodGone
  BY <1>2 DEF PodGone, PodLeft, Moves
<1>3. CASE Cascade
  <2>1. CASE /\ pod # Nil /\ Orphaned(pod.owner) /\ pod' = [pod EXCEPT !.terminating = TRUE]
             /\ UNCHANGED <<agentVars, sb, secrets, lastUid, spawned>>
    BY <1>0, <2>1, TerminatingPod DEF Moves, PodWentOn, OrNil
  <2>2. CASE /\ secrets' = {x \in secrets : ~Orphaned(x.owner)}
             /\ UNCHANGED <<agentVars, sb, pod, lastUid, spawned>>
    BY <2>2 DEF Moves, SecretsCollected
  <2> QED
    BY <1>3, <2>1, <2>2 DEF Cascade
<1>4. CASE Drain
  BY <1>0, <1>4, TerminatingPod DEF Drain, Disrupt, Moves, PodWentOn, OrNil
<1>5. CASE OperatorDeletes
  <2>1. sb \in Sandboxes /\ sb # Nil /\ "delete" \in Disruptions
    BY <1>0, <1>5 DEF OperatorDeletes, Disrupt, OrNil
  <2>2. Touched(sb, sb')
    BY <1>5, <2>1, DeletedTurn DEF OperatorDeletes
  <2> QED
    BY <1>5, <2>1, <2>2 DEF OperatorDeletes, Moves, Turned, Turn
<1>6. CASE DeletionCompletes
  BY <1>6 DEF DeletionCompletes, Moves, Closed
<1>7. CASE ForeignAppears
  <2>1. sb' \in Sandboxes
    BY <1>0, <1>7 DEF ForeignAppears, Sandboxes, OrNil, Modes
  <2>2. Appeared
    BY <1>7, <2>1 DEF ForeignAppears, Disrupt, Appeared
  <2> QED
    BY <2>2 DEF Moves
<1> QED
  BY <1>1, <1>2, <1>3, <1>4, <1>5, <1>6, <1>7 DEF Environment

LEMMA AgentNextMoves ==
  ASSUME IInv, AgentNext
  PROVE  Moves
<1>1. CASE AgentObserve
  BY <1>1 DEF AgentObserve, Moves, Quiet
<1> QED
  BY <1>1, AgentCreatePodMoves, AgentDeletePodMoves, AgentStatusMoves, EnvironmentMoves
     DEF AgentNext, AgentStep

\* Every step takes the course.
LEMMA NextCourse ==
  ASSUME IInv, ObjectsFit, Next
  PROVE  Course
<1>1. CASE HookNext /\ UNCHANGED <<cache, agentVars>>
  BY <1>1, HookNextCourse
<1>2. CASE ControllerNext /\ UNCHANGED <<hookVars, agentVars>>
  BY <1>2, ReconcileCourse, CacheSyncCourse DEF ControllerNext
<1>3. CASE AgentNext /\ UNCHANGED <<hookVars, cache>>
  BY <1>3, AgentNextMoves, NextShape, HooksWait, OnCourse
<1> QED
  BY <1>1, <1>2, <1>3 DEF Next
-----------------------------------------------------------------------------
(***************************************************************************)
(* What the course leaves of the reads, the UIDs and the Sandbox.          *)
(***************************************************************************)

LEMMA Grounds ==
  ASSUME OrderInv, Course
  PROVE  /\ sb \in OrNil(Sandboxes) /\ sb' \in OrNil(Sandboxes)
         /\ lastUid \in Nat /\ lastUid' \in Nat /\ lastUid <= lastUid'
         /\ Reads \subseteq Sandboxes
         /\ Objects \subseteq Sandboxes
         /\ \A s \in Objects : s.uid <= lastUid
<1>1. /\ sb \in OrNil(Sandboxes) /\ sb' \in OrNil(Sandboxes)
      /\ lastUid \in Nat /\ lastUid' \in Nat /\ Reads \subseteq Sandboxes
  BY ReadsAreSandboxes DEF OrderInv, IInv, Course, Shape, TypeOK, APITypeOK
<1>2. lastUid <= lastUid'
  BY <1>1 DEF Course, Shape, SbStep, Incarnation, UserRewrite, StatusRewrite, Rewrite
<1>3. Objects \subseteq Sandboxes
  BY <1>1 DEF Objects, OrNil
<1>4. \A s \in Objects : s.uid <= lastUid
  BY <1>1 DEF Objects, OrderInv, IInv, DatedReads, Dated, NewestUid
<1> QED
  BY <1>1, <1>2, <1>3, <1>4

\* What becomes of the Sandbox.
LEMMA Becomes ==
  ASSUME OrderInv, Course, sb' # Nil
  PROVE  \/ sb = Nil /\ sb'.uid = lastUid + 1 /\ (Opened \/ Appeared)
         \/ sb # Nil /\ sb' = sb
         \/ sb # Nil /\ sb'.uid = sb.uid /\ Turned
<1>1. CASE Opened
  <2>1. PICK o \in Offers : sb' = NewSandbox(lastUid + 1, o)
    BY <1>1 DEF Opened
  <2> QED
    BY <1>1, <2>1 DEF Opened, NewSandbox
<1>2. CASE Appeared
  BY <1>2 DEF Appeared
<1>3. CASE Turned
  BY <1>3 DEF Turned, Turn, Touched, Alike, HookWrites, Repointed, Superseded, Acknowledged,
         FellAsleep, WokeUp, SameSelf
<1>4. CASE sb' = sb
  BY <1>4
<1>5. \/ Opened \/ Appeared \/ Turned \/ sb' = sb
  BY DEF Course, Moves, Quiet, apiVars, Closed, SecretMade, SecretsCollected, PodStarted,
         PodWentOn, PodLeft
<1> QED
  BY <1>1, <1>2, <1>3, <1>4, <1>5

\* What is read was read, or is the object before or after the step.
LEMMA ObjectsStep ==
  ASSUME OrderInv, Course
  PROVE  /\ Reads' \subseteq Objects \cup ({sb'} \ {Nil})
         /\ Objects' \subseteq Objects \cup ({sb'} \ {Nil})
<1>1. Reads' \subseteq (Reads \cup {sb, sb'}) \ {Nil}
  BY DEF Course, Shape, ReadsStep, Reads
<1> QED
  BY <1>1 DEF Objects

\* Nothing read before is of a new incarnation.
LEMMA NewIsUnread ==
  ASSUME OrderInv, Course, sb = Nil, sb' # Nil, NEW s \in Objects' \cup Reads',
         s.uid = sb'.uid
  PROVE  s = sb'
<1>1. s \in Objects \/ s = sb'
  BY ObjectsStep
<1>2. sb'.uid = lastUid + 1 /\ lastUid \in Nat
  BY Becomes, Grounds
<1> QED
  BY <1>1, <1>2, Grounds DEF Sandboxes

\* Pods are only added to the record.
LEMMA SpawnedGrows == ASSUME Course PROVE spawned \subseteq spawned'
BY DEF Course, Moves, Quiet, apiVars, Opened, Appeared, Turned, Closed, SecretMade,
       SecretsCollected, PodStarted, PodWentOn, PodLeft

\* The order of an invocation at its patch.
LEMMA OfferHeld ==
  ASSUME OrderInv, NEW h \in Hooks, hooks[h].pc \in {"secret", "patch"}
  PROVE  /\ hooks[h].offer \in Offers
         /\ hooks[h].offer.id \in OrderIds /\ hooks[h].offer.id # Nil
         /\ hooks[h].offer.attempt \in Nat
<1>1. hooks[h].offer \in Offers /\ hooks[h].offer \in Orders
  BY OfferTaken DEF OrderInv
<1> QED
  BY <1>1, APIAssumption DEF Orders

-----------------------------------------------------------------------------
(***************************************************************************)
(* The parts of OrderInv, one by one.                                      *)
(***************************************************************************)

\* Touched, Repointed, Superseded, Acknowledged, FellAsleep and WokeUp keep a Sandbox that
\* fits together fitting together.
LEMMA TurnCoherent ==
  ASSUME OrderInv, sb # Nil, Turn(sb, sb')
  PROVE  Coherent(sb')
<1>1. Coherent(sb)
  BY DEF OrderInv, ObjectsFit, Objects
<1>2. CASE Touched(sb, sb')
  BY <1>1, <1>2
     DEF Touched, Alike, SameSelf, SameOrder, SamePending, SameInstalled, Coherent
<1>3. ASSUME NEW h \in Hooks, HookWrites(h, sb, sb')
      PROVE  Coherent(sb')
  <2> DEFINE o == hooks[h].offer
  <2>1. o.id # Nil
    BY <1>3, OfferHeld DEF HookWrites
  <2>2. CASE Repointed(sb, sb', o)
    BY <1>1, <2>1, <2>2 DEF Repointed, SameSelf, SameOrder, SameInstalled, Coherent
  <2>3. CASE Superseded(sb, sb', o)
    BY <1>1, <2>1, <2>3 DEF Superseded, SameSelf, SameInstalled, Coherent
  <2> QED
    BY <1>3, <2>2, <2>3 DEF HookWrites
<1>4. CASE Acknowledged(sb, sb')
  BY <1>1, <1>4
     DEF Acknowledged, SpawnObserved, SameSelf, SameOrder, SameInstalled, Coherent
<1>5. CASE FellAsleep(sb, sb')
  BY <1>1, <1>5 DEF FellAsleep, SameSelf, SameOrder, SamePending, SameInstalled, Coherent
<1>6. CASE WokeUp(sb, sb')
  BY <1>1, <1>6 DEF WokeUp, ShouldWake, SameSelf, SameOrder, SamePending, Coherent
<1> QED
  BY <1>2, <1>3, <1>4, <1>5, <1>6 DEF Turn

LEMMA TurnAccepted ==
  ASSUME OrderInv, sb # Nil, Turn(sb, sb')
  PROVE  Accepted(sb')
<1>1. Coherent(sb) /\ Accepted(sb) /\ sb \in Sandboxes
  BY DEF OrderInv, ObjectsFit, Objects, IInv, TypeOK, APITypeOK, OrNil
<1>2. CASE Touched(sb, sb')
  <2>1. ~sb.managed => sb'.finished = 0
    BY <1>1, <1>2 DEF Touched, ByUser, ByAgent, Accepted, OrderInv, ForeignBare
  <2> QED
    BY <1>1, <1>2, <2>1 DEF Touched, Alike, SameSelf, SameOrder, SameInstalled,
           SameHistory, Accepted
<1>3. ASSUME NEW h \in Hooks, HookWrites(h, sb, sb')
      PROVE  Accepted(sb')
  <2> DEFINE o == hooks[h].offer
  <2>1. CASE Repointed(sb, sb', o)
    BY <1>1, <2>1 DEF Repointed, SameSelf, SameOrder, SameInstalled, ByUser, Accepted
  <2>2. CASE Superseded(sb, sb', o)
    <3>1. o \in Offers /\ o.attempt \in Nat
      BY <1>3, OfferHeld DEF HookWrites
    <3>2. sb'.managed /\ Offered(sb'.lastId, sb'.lastAttempt) /\ sb'.applied = sb.applied
      BY <2>2, <3>1 DEF Superseded, SameSelf, SameInstalled, Offered
    <3>3. ASSUME sb'.applied \notin {Nil, sb'.lastId}
          PROVE  \E a \in Offers : a.id = sb'.applied /\ a.attempt < sb'.lastAttempt
      <4>1. \E a \in Offers : a.id = sb.applied /\ a.attempt <= sb.lastAttempt
        <5>1. CASE sb.applied = sb.lastId
          BY <1>1, <2>2, <5>1 DEF Superseded, Accepted, Offered, Sandboxes
        <5>2. CASE sb.applied # sb.lastId
          <6>1. \E a \in Offers : a.id = sb.applied /\ a.attempt < sb.lastAttempt
            BY <1>1, <2>2, <3>2, <3>3, <5>2 DEF Superseded, Accepted
          <6> QED
            BY <1>1, <6>1, APIAssumption DEF Sandboxes, Orders
        <5> QED
          BY <5>1, <5>2
      <4>2. sb.lastAttempt < sb'.lastAttempt /\ sb'.lastAttempt \in Nat
        BY <1>1, <2>2, <3>1 DEF Superseded, Sandboxes
      <4> QED
        BY <1>1, <3>2, <4>1, <4>2, APIAssumption DEF Sandboxes, Orders
    <3> QED
      BY <3>2, <3>3 DEF Accepted
  <2> QED
    BY <1>3, <2>1, <2>2 DEF HookWrites
<1>4. CASE Acknowledged(sb, sb')
  BY <1>1, <1>4 DEF Acknowledged, SameSelf, SameOrder, SameInstalled, Accepted
<1>5. CASE FellAsleep(sb, sb')
  BY <1>1, <1>5 DEF FellAsleep, SameSelf, SameOrder, SameInstalled, Accepted
<1>6. CASE WokeUp(sb, sb')
  BY <1>1, <1>6 DEF WokeUp, ShouldWake, SameSelf, SameOrder, Coherent, Accepted
<1> QED
  BY <1>2, <1>3, <1>4, <1>5, <1>6 DEF Turn

LEMMA ObjectsFitKept == ASSUME OrderInv, Course PROVE ObjectsFit'
<1>1. \A s \in Objects : Coherent(s) /\ Accepted(s)
  BY DEF OrderInv, ObjectsFit
<1>2. sb' # Nil => Coherent(sb') /\ Accepted(sb')
  <2>1. CASE Opened
    <3>1. PICK o \in Offers : sb' = NewSandbox(lastUid + 1, o)
      BY <2>1 DEF Opened
    <3>2. o.id # Nil
      BY APIAssumption DEF Orders
    <3> QED
      BY <3>1, <3>2 DEF NewSandbox, Coherent, Accepted, Offered
  <2>2. CASE Appeared
    BY <2>2 DEF Appeared, Coherent, Accepted
  <2>3. CASE Turned
    BY <2>3, TurnCoherent, TurnAccepted DEF Turned
  <2>4. CASE sb' = sb
    BY <1>1, <2>4 DEF Objects
  <2> QED
    BY <2>1, <2>2, <2>3, <2>4, Becomes
<1>3. \A s \in Objects' : Coherent(s) /\ Accepted(s)
  BY <1>1, <1>2, ObjectsStep
<1> QED
  BY <1>3 DEF ObjectsFit, Coherent, Accepted, Offered

LEMMA SettledReadsKept == ASSUME OrderInv, Course PROVE SettledReads'
<1>1. \A s \in Objects :
        s.managed /\ s.pending = Nil => WorkOrderSecretName(s.uid, s.lastId) \in spawned
  BY DEF OrderInv, SettledReads, Spawned
<1>2. sb' # Nil /\ sb'.managed /\ sb'.pending = Nil =>
        WorkOrderSecretName(sb'.uid, sb'.lastId) \in spawned
  <2>1. CASE Opened
    <3>1. PICK o \in Offers : sb' = NewSandbox(lastUid + 1, o)
      BY <2>1 DEF Opened
    <3> QED
      BY <3>1, APIAssumption DEF NewSandbox, Orders
  <2>2. CASE Appeared
    BY <2>2 DEF Appeared
  <2>3. CASE Turned
    <3>1. sb # Nil /\ sb \in Objects /\ Coherent(sb)
      BY <2>3 DEF Turned, Objects, OrderInv, ObjectsFit
    <3>2. CASE Touched(sb, sb')
      BY <1>1, <3>1, <3>2 DEF Touched, Alike, SameSelf, SameOrder, SamePending
    <3>3. ASSUME NEW h \in Hooks, HookWrites(h, sb, sb'), sb'.managed, sb'.pending = Nil
          PROVE  WorkOrderSecretName(sb'.uid, sb'.lastId) \in spawned
      <4>1. hooks[h].offer.id # Nil
        BY <3>3, OfferHeld DEF HookWrites
      <4> QED
        BY <1>1, <3>1, <3>3, <4>1 DEF HookWrites, Repointed, Superseded, SameSelf, SameOrder
    <3>4. CASE Acknowledged(sb, sb')
      <4>1. PICK p \in PodReads : SpawnObserved(sb, p)
        BY <3>4 DEF Acknowledged
      <4>2. WorkOrderSecretName(p.owner, p.order) \in spawned
        BY DEF OrderInv, PodsKnown, Spawned
      <4> QED
        BY <3>1, <3>4, <4>1, <4>2
           DEF Acknowledged, SameSelf, SameOrder, SpawnObserved, Owned, Coherent
    <3>5. CASE FellAsleep(sb, sb')
      BY <1>1, <3>1, <3>5 DEF FellAsleep, SameSelf, SameOrder, SamePending
    <3>6. CASE WokeUp(sb, sb')
      BY <1>1, <3>1, <3>6 DEF WokeUp, SameSelf, SameOrder, SamePending
    <3> QED
      BY <2>3, <3>2, <3>3, <3>4, <3>5, <3>6 DEF Turned, Turn
  <2>4. CASE sb' = sb
    BY <1>1, <2>4 DEF Objects
  <2> QED
    BY <2>1, <2>2, <2>3, <2>4, Becomes
<1>3. \A s \in Objects' :
        s.managed /\ s.pending = Nil => WorkOrderSecretName(s.uid, s.lastId) \in spawned'
  BY <1>1, <1>2, ObjectsStep, SpawnedGrows
<1> QED
  BY <1>3 DEF SettledReads, Spawned
\* Later writes follow earlier ones.
LEMMA FollowsTransitive ==
  ASSUME NEW s \in Sandboxes, NEW t \in Sandboxes, NEW u \in Sandboxes,
         Follows(s, t), Follows(t, u)
  PROVE  Follows(s, u)
<1>1. s.lastAttempt \in Nat /\ t.lastAttempt \in Nat /\ u.lastAttempt \in Nat
  BY DEF Sandboxes
<1> QED
  BY <1>1 DEF Follows

LEMMA TurnFollows ==
  ASSUME OrderInv, sb # Nil, Turn(sb, sb')
  PROVE  Follows(sb, sb')
<1>1. Coherent(sb) /\ sb \in Sandboxes /\ sb.lastAttempt \in Nat
  BY DEF OrderInv, ObjectsFit, Objects, IInv, TypeOK, APITypeOK, OrNil, Sandboxes
<1>2. CASE Touched(sb, sb')
  BY <1>1, <1>2 DEF Touched, Alike, SameSelf, SameOrder, SamePending, Follows
<1>3. ASSUME NEW h \in Hooks, HookWrites(h, sb, sb')
      PROVE  Follows(sb, sb')
  <2>1. CASE Repointed(sb, sb', hooks[h].offer)
    BY <1>1, <2>1 DEF Repointed, SameSelf, SameOrder, Follows, Coherent
  <2>2. CASE Superseded(sb, sb', hooks[h].offer)
    <3>1. hooks[h].offer.attempt \in Nat
      BY <1>3, OfferHeld DEF HookWrites
    <3> QED
      BY <1>1, <2>2, <3>1 DEF Superseded, SameSelf, Follows
  <2> QED
    BY <1>3, <2>1, <2>2 DEF HookWrites
<1>4. CASE Acknowledged(sb, sb')
  BY <1>1, <1>4 DEF Acknowledged, SameSelf, SameOrder, Follows
<1>5. CASE FellAsleep(sb, sb')
  BY <1>1, <1>5 DEF FellAsleep, SameSelf, SameOrder, SamePending, Follows
<1>6. CASE WokeUp(sb, sb')
  BY <1>1, <1>6 DEF WokeUp, SameSelf, SameOrder, SamePending, Follows
<1> QED
  BY <1>2, <1>3, <1>4, <1>5, <1>6 DEF Turn

LEMMA ReadsFollowedKept == ASSUME OrderInv, Course PROVE ReadsFollowed'
<1>1. SUFFICES ASSUME NEW s \in Reads', sb' # Nil, s.uid = sb'.uid
               PROVE  Follows(s, sb')
  BY DEF ReadsFollowed, Follows
<1>2. sb' \in Sandboxes
  BY <1>1, Grounds DEF OrNil
<1>3. Follows(sb', sb')
  BY DEF Follows
<1>4. s \in Objects \/ s = sb'
  BY <1>1, ObjectsStep
<1>5. CASE sb = Nil
  BY <1>1, <1>3, <1>5, NewIsUnread
<1>6. CASE sb # Nil /\ s \in Objects
  <2>1. sb \in Sandboxes /\ s \in Sandboxes /\ sb'.uid = sb.uid
    BY <1>1, <1>6, Grounds, Becomes DEF OrNil
  <2>2. Follows(s, sb)
    <3>1. CASE s = sb
      BY <3>1 DEF Follows
    <3>2. CASE s \in Reads
      BY <1>1, <1>6, <2>1, <3>2 DEF OrderInv, ReadsFollowed
    <3> QED
      BY <1>6, <3>1, <3>2 DEF Objects
  <2>3. Follows(sb, sb')
    <3>1. CASE sb' = sb
      BY <3>1 DEF Follows
    <3>2. CASE Turned
      BY <1>6, <3>2, TurnFollows DEF Turned
    <3> QED
      BY <1>1, <1>6, <3>1, <3>2, Becomes
  <2> QED
    BY <1>2, <2>1, <2>2, <2>3, FollowsTransitive
<1> QED
  BY <1>3, <1>4, <1>5, <1>6

\* What agent-sandbox makes a Pod from.
LEMMA StartsFrom ==
  ASSUME OrderInv, PodStarted
  PROVE  /\ agent \in Reads /\ agent \in Objects /\ agent \in Sandboxes
         /\ agent.mode = "Running" /\ ~agent.deleting /\ agent.managed
         /\ agent.podOrder # Nil
         /\ agent.podSecret = WorkOrderSecretName(agent.uid, agent.podOrder)
         /\ agent.uid <= lastUid
         /\ pod = Nil /\ pod' # Nil /\ pod'.owner = agent.uid /\ pod'.order = agent.podOrder
         /\ pod'.secret = agent.podSecret
<1>1. agent \in Reads /\ agent \in Objects
  BY DEF PodStarted, Reads, Objects
<1>2. agent \in Sandboxes
  BY <1>1, ReadsAreSandboxes DEF OrderInv, IInv
<1>3. agent.mode = "Running" /\ ~agent.deleting /\ pod = Nil
  BY DEF PodStarted, NeedsPod
<1>4. agent.podOrder # Nil /\ agent.uid <= lastUid
  BY <1>1, <1>3 DEF OrderInv, IInv, InstalledOrder, DatedReads, Dated
<1>5. Coherent(agent) /\ Accepted(agent)
  BY <1>1 DEF OrderInv, ObjectsFit
<1>6. agent.managed /\ agent.podSecret = WorkOrderSecretName(agent.uid, agent.podOrder)
  BY <1>3, <1>4, <1>5 DEF Coherent, Accepted
<1>7. pod'.owner = agent.uid /\ pod'.order = agent.podOrder /\ pod'.secret = agent.podSecret
  BY DEF PodStarted
<1>8. pod' # Nil
  <2>1. pod' \in Pods
    BY <1>2 DEF PodStarted, Pods, Sandboxes
  <2> QED
    BY <2>1, APIAssumption
<1> QED
  BY <1>1, <1>2, <1>3, <1>4, <1>6, <1>7, <1>8

\* The Pod of after the step is of before, or just started.
LEMMA PodBecomes ==
  ASSUME Course, pod' # Nil
  PROVE  \/ /\ pod # Nil /\ pod'.owner = pod.owner /\ pod'.order = pod.order
            /\ pod'.secret = pod.secret
            /\ spawned' = spawned
         \/ PodStarted
BY DEF Course, Moves, Quiet, apiVars, Opened, Appeared, Turned, Closed, SecretMade,
       SecretsCollected, PodWentOn, PodLeft

LEMMA PodsKnownKept == ASSUME OrderInv, Course PROVE PodsKnown'
<1>0. lastUid \in Nat /\ lastUid' \in Nat /\ lastUid <= lastUid'
  BY Grounds
<1>1. \A p \in PodReads :
        /\ p.order # Nil
        /\ p.secret = WorkOrderSecretName(p.owner, p.order)
        /\ WorkOrderSecretName(p.owner, p.order) \in spawned
        /\ p.owner <= lastUid
  BY DEF OrderInv, PodsKnown, Spawned
<1>2. PodReads \subseteq Pods
  BY DEF PodReads, OrderInv, IInv, TypeOK, APITypeOK, ControllerTypeOK, Caches, OrNil
<1>3. pod' # Nil =>
        /\ pod'.order # Nil
        /\ pod'.secret = WorkOrderSecretName(pod'.owner, pod'.order)
        /\ WorkOrderSecretName(pod'.owner, pod'.order) \in spawned'
        /\ pod'.owner <= lastUid
  <2>1. CASE PodStarted
    BY <2>1, StartsFrom DEF PodStarted
  <2>2. CASE pod # Nil /\ pod'.owner = pod.owner /\ pod'.order = pod.order
             /\ pod'.secret = pod.secret /\ spawned' = spawned
    BY <1>1, <2>2 DEF PodReads
  <2> QED
    BY <2>1, <2>2, PodBecomes
<1>4. PodReads' \subseteq PodReads \cup ({pod'} \ {Nil})
  BY DEF Course, PodReads
<1>5. \A p \in PodReads' :
        /\ p.order # Nil
        /\ p.secret = WorkOrderSecretName(p.owner, p.order)
        /\ WorkOrderSecretName(p.owner, p.order) \in spawned'
  BY <1>1, <1>3, <1>4, SpawnedGrows
<1>6. \A p \in PodReads' : p.owner <= lastUid'
  <2> TAKE p \in PodReads'
  <2>1. p \in Pods
    BY <1>2, <1>4 DEF Course, Shape, TypeOK, APITypeOK, OrNil
  <2>2. p.owner <= lastUid
    BY <1>1, <1>3, <1>4
  <2> QED
    BY <1>0, <2>1, <2>2 DEF Pods
<1>7. \A n \in spawned' : n.uid <= lastUid'
  <2>1. \A n \in spawned : n.uid <= lastUid /\ n.uid \in Nat
    BY DEF OrderInv, PodsKnown, IInv, TypeOK, APITypeOK, SecretNames
  <2>2. CASE spawned' = spawned
    BY <1>0, <2>1, <2>2
  <2>3. CASE PodStarted
    <3>1. agent.uid <= lastUid /\ agent.uid \in Nat
      BY <2>3, StartsFrom DEF Sandboxes
    <3>2. \A n \in spawned' : n \in spawned \/ n.uid = agent.uid
      BY <2>3 DEF PodStarted, WorkOrderSecretName
    <3> QED
      BY <1>0, <2>1, <3>1, <3>2
  <2>4. spawned' = spawned \/ PodStarted
    BY DEF Course, Moves, Quiet, apiVars, Opened, Appeared, Turned, Closed, SecretMade,
       SecretsCollected, PodWentOn, PodLeft
  <2> QED
    BY <2>2, <2>3, <2>4
<1> QED
  BY <1>5, <1>6, <1>7 DEF PodsKnown, Spawned
\* The Secrets of after the step: of before, or made by a hook, or those not orphaned.
LEMMA SecretsBecome ==
  ASSUME Course
  PROVE  \/ secrets' = secrets
         \/ SecretMade
         \/ SecretsCollected
BY DEF Course, Moves, Quiet, apiVars, Opened, Appeared, Turned, Closed, PodStarted,
       PodWentOn, PodLeft

LEMMA SecretsKnownKept == ASSUME OrderInv, Course PROVE SecretsKnown'
<1>1. /\ lastUid \in Nat /\ lastUid' \in Nat /\ lastUid <= lastUid'
      /\ \A x \in secrets : x.owner \in Nat
  BY Grounds DEF OrderInv, IInv, TypeOK, APITypeOK, Secrets
<1>2. \A x \in secrets :
        /\ x.name = WorkOrderSecretName(x.owner, x.order)
        /\ Offered(x.order, x.attempt)
        /\ x.owner <= lastUid
  BY DEF OrderInv, SecretsKnown
<1>3. CASE secrets' \subseteq secrets
  <2>1. \A x \in secrets' : x.owner <= lastUid'
    BY <1>1, <1>2, <1>3
  <2> QED
    BY <1>2, <1>3, <2>1 DEF SecretsKnown, Offered
<1>4. CASE SecretMade
  <2>1. PICK h \in Hooks :
          /\ hooks[h].pc = "secret"
          /\ secrets' = secrets \cup {WorkOrderSecret(hooks[h].snap, hooks[h].offer)}
    BY <1>4 DEF SecretMade
  <2> DEFINE x == WorkOrderSecret(hooks[h].snap, hooks[h].offer)
  <2>2. hooks[h].snap \in Reads /\ hooks[h].snap \in Sandboxes /\ hooks[h].offer \in Offers
    BY <2>1, SnapHeld, OfferHeld DEF OrderInv
  <2>3. hooks[h].snap.uid \in Nat /\ hooks[h].snap.uid <= lastUid
    BY <2>2 DEF OrderInv, IInv, DatedReads, Dated, Sandboxes
  <2>4. /\ x.name = WorkOrderSecretName(x.owner, x.order)
        /\ x.owner = hooks[h].snap.uid
        /\ x.order = hooks[h].offer.id /\ x.attempt = hooks[h].offer.attempt
    BY DEF WorkOrderSecret
  <2>5. Offered(x.order, x.attempt)
    BY <2>2, <2>4 DEF Offered
  <2> HIDE DEF x
  <2>6. \A y \in secrets' : y.owner <= lastUid'
    BY <1>1, <1>2, <2>1, <2>3, <2>4 DEF x
  <2>7. \A y \in secrets' :
          y.name = WorkOrderSecretName(y.owner, y.order) /\ Offered(y.order, y.attempt)
    BY <1>2, <2>1, <2>4, <2>5 DEF x
  <2> QED
    BY <2>6, <2>7 DEF SecretsKnown, Offered
<1>5. CASE SecretsCollected
  BY <1>3, <1>5 DEF SecretsCollected
<1> QED
  BY <1>3, <1>4, <1>5, SecretsBecome

LEMMA ForeignBareKept == ASSUME OrderInv, Course PROVE ForeignBare'
<1>1. SUFFICES ASSUME sb' # Nil, ~sb'.managed
               PROVE  /\ "foreign" \in Disruptions
                      /\ ~(pod' # Nil /\ pod'.owner = sb'.uid)
                      /\ \A x \in secrets' : x.owner # sb'.uid
  BY DEF ForeignBare, Owned
<1>2. CASE Opened
  BY <1>1, <1>2 DEF Opened, NewSandbox
<1>3. CASE Appeared
  <2>1. /\ "foreign" \in Disruptions /\ lastUid \in Nat /\ sb'.uid = lastUid + 1
        /\ pod' = pod /\ secrets' = secrets
    BY <1>3, Grounds DEF Appeared
  <2>2. pod # Nil => pod.owner \in Nat /\ pod.owner <= lastUid
    BY DEF OrderInv, PodsKnown, PodReads, IInv, TypeOK, APITypeOK, OrNil, Pods
  <2>3. \A x \in secrets : x.owner \in Nat /\ x.owner <= lastUid
    BY DEF OrderInv, SecretsKnown, IInv, TypeOK, APITypeOK, Secrets
  <2> QED
    BY <2>1, <2>2, <2>3
<1>4. CASE sb # Nil /\ sb'.uid = sb.uid
  <2>1. ~sb.managed
    <3>1. CASE Turned
      BY <1>1, <3>1 DEF Turned, Turn, Touched, Alike, HookWrites, Repointed, Superseded,
             Acknowledged, FellAsleep, WokeUp, SameSelf
    <3> QED
      BY <1>1, <1>4, <3>1, Becomes, Grounds DEF OrNil, Sandboxes
  <2>2. /\ "foreign" \in Disruptions
        /\ ~Owned(pod, sb.uid)
        /\ \A x \in secrets : x.owner # sb.uid
    BY <1>4, <2>1 DEF OrderInv, ForeignBare
  <2>3. \A s \in Reads : s.uid = sb.uid => ~s.managed
    BY <1>4, <2>1 DEF OrderInv, ReadsFollowed, Follows
  <2>4. ~(pod' # Nil /\ pod'.owner = sb.uid)
    <3>1. CASE PodStarted
      BY <2>3, <3>1, StartsFrom
    <3> QED
      BY <2>2, <3>1, PodBecomes DEF Owned
  <2>5. \A x \in secrets' : x.owner # sb.uid
    <3>1. CASE SecretMade
      <4>1. PICK h \in Hooks :
              /\ hooks[h].pc = "secret"
              /\ secrets' = secrets \cup {WorkOrderSecret(hooks[h].snap, hooks[h].offer)}
        BY <3>1 DEF SecretMade
      <4>2. hooks[h].snap \in Reads
        BY <4>1, SnapHeld DEF OrderInv
      <4>3. hooks[h].snap.managed
        BY <4>1 DEF OrderInv, HookReady, Evaluate
      <4>4. WorkOrderSecret(hooks[h].snap, hooks[h].offer).owner # sb.uid
        BY <2>3, <4>2, <4>3 DEF WorkOrderSecret
      <4> QED
        BY <2>2, <4>1, <4>4
    <3> QED
      BY <2>2, <3>1, SecretsBecome DEF SecretsCollected
  <2> QED
    BY <1>4, <2>2, <2>4, <2>5
<1> QED
  BY <1>1, <1>2, <1>3, <1>4, Becomes

LEMMA HookReadyKept == ASSUME OrderInv, Course PROVE HookReady'
<1>1. SUFFICES ASSUME NEW h \in Hooks, hooks'[h].pc \in {"secret", "patch"}
               PROVE  Evaluate(hooks'[h].snap, hooks'[h].offer) \in {"redelivery", "newer"}
  BY DEF HookReady, Evaluate
<1>2. HookGoesOn(h)
  BY DEF Course
<1>3. hooks[h].pc \in {"secret", "patch"} =>
        Evaluate(hooks[h].snap, hooks[h].offer) \in {"redelivery", "newer"}
  BY DEF OrderInv, HookReady
<1> QED
  BY <1>1, <1>2, <1>3 DEF HookGoesOn

\* The Secrets of a Sandbox stay as long as it lives.
LEMMA SecretStays ==
  ASSUME OrderInv, Course, sb # Nil, sb' # Nil, sb'.uid = sb.uid, NEW x \in secrets,
         NEW id, x.name = WorkOrderSecretName(sb.uid, id)
  PROVE  x \in secrets'
<1>1. CASE SecretsCollected
  <2>1. x.name = WorkOrderSecretName(x.owner, x.order)
    BY DEF OrderInv, SecretsKnown
  <2>2. x.owner = sb.uid
    BY <2>1 DEF WorkOrderSecretName
  <2> QED
    BY <1>1, <2>2 DEF SecretsCollected, Orphaned
<1> QED
  BY <1>1, SecretsBecome DEF SecretMade

LEMMA BackedKept == ASSUME OrderInv, Course PROVE Backed'
<1> DEFINE Has(uid, id) == \E x \in secrets' : x.name = WorkOrderSecretName(uid, id)
<1>1. SUFFICES ASSUME sb' # Nil
               PROVE  /\ \A s \in Objects' :
                           s.uid = sb'.uid =>
                             /\ s.pendingSecret # Nil => Has(s.uid, s.pending)
                             /\ s.podOrder # Nil => Has(s.uid, s.podOrder)
                      /\ pod' # Nil /\ pod'.owner = sb'.uid => Has(pod'.owner, pod'.order)
                      /\ \A h \in Hooks :
                           hooks'[h].pc = "patch" /\ hooks'[h].snap.uid = sb'.uid =>
                             Has(hooks'[h].snap.uid, hooks'[h].offer.id)
  BY DEF Backed, HasSecret, Owned
<1>2. CASE sb = Nil
  <2>1. Opened \/ Appeared
    BY <1>1, <1>2, Becomes
  <2>2. sb'.pendingSecret = Nil /\ sb'.podOrder = Nil
    BY <2>1 DEF Opened, Appeared, NewSandbox
  <2>3. \A s \in Objects' : s.uid = sb'.uid => s = sb'
    BY <1>1, <1>2, NewIsUnread
  <2>4. sb'.uid = lastUid + 1 /\ lastUid \in Nat /\ pod' = pod
    BY <1>1, <1>2, <2>1, Becomes, Grounds DEF Opened, Appeared
  <2>5. pod # Nil => pod.owner \in Nat /\ pod.owner <= lastUid
    BY DEF OrderInv, PodsKnown, PodReads, IInv, TypeOK, APITypeOK, OrNil, Pods
  <2>6. ASSUME NEW h \in Hooks, hooks'[h].pc = "patch"
        PROVE  hooks'[h].snap.uid # sb'.uid
    <3>1. hooks[h].pc \in {"secret", "patch"} /\ hooks'[h].snap = hooks[h].snap
      BY <2>6 DEF Course, HookGoesOn
    <3>2. hooks[h].snap \in Reads /\ hooks[h].snap \in Sandboxes
      BY <3>1, SnapHeld DEF OrderInv
    <3>3. hooks[h].snap.uid \in Nat /\ hooks[h].snap.uid <= lastUid
      BY <3>2 DEF OrderInv, IInv, DatedReads, Dated, Sandboxes
    <3> QED
      BY <2>4, <3>1, <3>3
  <2> QED
    BY <2>2, <2>3, <2>4, <2>5, <2>6
<1>3. CASE sb # Nil /\ sb'.uid = sb.uid
  <2>1. \A id : HasSecret(sb.uid, id) => Has(sb.uid, id)
    <3> TAKE id
    <3>1. ASSUME NEW x \in secrets, x.name = WorkOrderSecretName(sb.uid, id)
          PROVE  x \in secrets'
      BY <1>1, <1>3, <3>1, SecretStays
    <3> QED
      BY <3>1 DEF HasSecret
  <2> HIDE DEF Has
  <2>2. \A s \in Objects :
          s.uid = sb.uid =>
            /\ s.pendingSecret # Nil => Has(s.uid, s.pending)
            /\ s.podOrder # Nil => Has(s.uid, s.podOrder)
    BY <1>3, <2>1 DEF OrderInv, Backed
  <2>3. /\ sb'.pendingSecret # Nil => Has(sb.uid, sb'.pending)
        /\ sb'.podOrder # Nil => Has(sb.uid, sb'.podOrder)
    <3>1. sb \in Objects
      BY <1>3 DEF Objects
    <3>2. CASE Touched(sb, sb')
      BY <2>2, <3>1, <3>2 DEF Touched, Alike, SamePending, SameInstalled
    <3>3. ASSUME NEW h \in Hooks, HookWrites(h, sb, sb')
          PROVE  /\ sb'.pendingSecret # Nil => Has(sb.uid, sb'.pending)
                 /\ sb'.podOrder # Nil => Has(sb.uid, sb'.podOrder)
      <4>1. Has(sb.uid, hooks[h].offer.id)
        BY <1>3, <2>1, <3>3 DEF HookWrites, OrderInv, Backed
      <4> QED
        BY <2>2, <3>1, <3>3, <4>1 DEF HookWrites, Repointed, Superseded, SameInstalled
    <3>4. CASE Acknowledged(sb, sb')
      BY <2>2, <3>1, <3>4 DEF Acknowledged, SameInstalled
    <3>5. CASE FellAsleep(sb, sb')
      BY <2>2, <3>1, <3>5 DEF FellAsleep, SamePending, SameInstalled
    <3>6. CASE WokeUp(sb, sb')
      BY <2>2, <3>1, <3>6 DEF WokeUp, SamePending
    <3>7. CASE sb' = sb
      BY <2>2, <3>1, <3>7
    <3> QED
      BY <1>1, <1>3, <3>2, <3>3, <3>4, <3>5, <3>6, <3>7, Becomes DEF Turned, Turn
  <2>4. \A s \in Objects' :
          s.uid = sb'.uid =>
            /\ s.pendingSecret # Nil => Has(s.uid, s.pending)
            /\ s.podOrder # Nil => Has(s.uid, s.podOrder)
    BY <1>3, <2>2, <2>3, ObjectsStep
  <2>5. pod' # Nil /\ pod'.owner = sb'.uid => Has(pod'.owner, pod'.order)
    <3>1. CASE PodStarted
      BY <1>3, <2>2, <3>1, StartsFrom
    <3>2. CASE pod # Nil /\ pod'.owner = pod.owner /\ pod'.order = pod.order
      BY <1>3, <2>1, <3>2 DEF OrderInv, Backed, Owned
    <3> QED
      BY <3>1, <3>2, PodBecomes
  <2>6. ASSUME NEW h \in Hooks, hooks'[h].pc = "patch", hooks'[h].snap.uid = sb'.uid
        PROVE  Has(hooks'[h].snap.uid, hooks'[h].offer.id)
    <3>1. HookGoesOn(h)
      BY DEF Course
    <3>2. CASE /\ hooks'[h].pc = hooks[h].pc /\ hooks'[h].snap = hooks[h].snap
               /\ hooks'[h].offer = hooks[h].offer
      BY <1>3, <2>1, <2>6, <3>2 DEF OrderInv, Backed
    <3>3. CASE /\ hooks'[h].snap = hooks[h].snap /\ hooks'[h].offer = hooks[h].offer
               /\ \E x \in secrets' :
                    x.name = WorkOrderSecretName(hooks[h].snap.uid, hooks[h].offer.id)
      BY <3>3 DEF Has
    <3> QED
      BY <2>6, <3>1, <3>2, <3>3 DEF HookGoesOn
  <2> QED
    BY <2>4, <2>5, <2>6
<1> QED
  BY <1>1, <1>2, <1>3, Becomes
-----------------------------------------------------------------------------
(***************************************************************************)
(* OrderInv is inductive; what follows from it.                            *)
(***************************************************************************)

LEMMA InitOrderInv == Init => OrderInv
<1> SUFFICES ASSUME Init PROVE OrderInv
  OBVIOUS
<1>1. IInv
  BY InitIInv
<1> USE DEF Init, APIInit, HookInit, ControllerInit, AgentInit
<1>2. Objects = {} /\ Reads = {}
  BY DEF Objects, Reads, Idle
<1>3. PodReads = {}
  BY DEF PodReads
<1>4. ObjectsFit /\ SettledReads /\ ReadsFollowed
  BY <1>2 DEF ObjectsFit, SettledReads, ReadsFollowed
<1>5. PodsKnown /\ SecretsKnown /\ ForeignBare
  BY <1>3 DEF PodsKnown, SecretsKnown, ForeignBare
<1>6. Backed /\ HookReady
  BY DEF Backed, HookReady, Idle
<1> QED
  BY <1>1, <1>4, <1>5, <1>6 DEF OrderInv

\* A stuttering step keeps every part.
LEMMA StutterOrderInv == ASSUME OrderInv, UNCHANGED vars PROVE OrderInv'
<1>1. IInv'
  BY NextIInv DEF OrderInv
<1> USE DEF vars, apiVars, hookVars, agentVars
<1>2. Reads' = Reads
  BY DEF Reads
<1>3. Objects' = Objects
  BY <1>2 DEF Objects
<1>4. PodReads' = PodReads
  BY DEF PodReads
<1>5. ObjectsFit' /\ SettledReads' /\ ReadsFollowed'
  BY <1>2, <1>3 DEF OrderInv, ObjectsFit, Coherent, Accepted, Offered, SettledReads, Spawned,
         ReadsFollowed, Follows
<1>6. PodsKnown' /\ SecretsKnown' /\ ForeignBare'
  BY <1>4 DEF OrderInv, PodsKnown, SecretsKnown, Offered, Spawned, ForeignBare, Owned
<1>7. Backed' /\ HookReady'
  BY <1>3 DEF OrderInv, Backed, HasSecret, Owned, HookReady, Evaluate
<1> QED
  BY <1>1, <1>5, <1>6, <1>7 DEF OrderInv

LEMMA NextOrderInv == OrderInv /\ [Next]_vars => OrderInv'
<1> SUFFICES ASSUME OrderInv, [Next]_vars PROVE OrderInv'
  OBVIOUS
<1>1. CASE Next
  <2>1. Course
    BY <1>1, NextCourse DEF OrderInv
  <2>2. IInv'
    BY NextIInv DEF OrderInv
  <2> QED
    BY <2>1, <2>2, ObjectsFitKept, SettledReadsKept, ReadsFollowedKept, PodsKnownKept,
       SecretsKnownKept, ForeignBareKept, BackedKept, HookReadyKept DEF OrderInv
<1>2. CASE UNCHANGED vars
  BY <1>2, StutterOrderInv
<1> QED
  BY <1>1, <1>2

\* What the annotations, the Secrets, the Pods and every read of them say of the accepted
\* order fits together in every reachable state.
THEOREM OrderInvariance == Spec => []OrderInv
BY InitOrderInv, NextOrderInv, PTL DEF Spec

\* An acknowledgement never clears an order that has had no Pod, whatever Pod the
\* controller's cache still shows (reconciler.go spawnObservation).
THEOREM SettledRan == Spec => []SettledOrderRan
<1>1. OrderInv => SettledOrderRan
  BY DEF OrderInv, SettledReads, SettledOrderRan, Objects, Spawned, Live
<1> QED
  BY <1>1, OrderInvariance, PTL

\* A Pod of the live Sandbox mounts the Secret of its own order, and that Secret exists
\* (reconciler.go wake; hook.go ensureSecret before publishNewer).
THEOREM PodsMatch == Spec => []PodMatchesSecret
<1>1. ASSUME OrderInv, Live(sb), Owned(pod, sb.uid)
      PROVE  \E x \in secrets : x.name = pod.secret /\ x.order = pod.order /\ x.owner = sb.uid
  <2>1. pod \in PodReads /\ pod.owner = sb.uid /\ sb # Nil
    BY <1>1 DEF PodReads, Owned, Live
  <2>2. pod.secret = WorkOrderSecretName(sb.uid, pod.order)
    BY <1>1, <2>1 DEF OrderInv, PodsKnown
  <2>3. PICK x \in secrets : x.name = WorkOrderSecretName(sb.uid, pod.order)
    BY <1>1, <2>1 DEF OrderInv, Backed, HasSecret
  <2>4. x.name = WorkOrderSecretName(x.owner, x.order)
    BY <1>1 DEF OrderInv, SecretsKnown
  <2>5. x.owner = sb.uid /\ x.order = pod.order
    BY <2>3, <2>4 DEF WorkOrderSecretName
  <2> QED
    BY <2>2, <2>3, <2>5
<1>2. OrderInv => PodMatchesSecret
  BY <1>1 DEF PodMatchesSecret
<1> QED
  BY <1>2, OrderInvariance, PTL

\* GC never takes a Sandbox that has an order to run, or a Pod left (reconciler.go gc).
THEOREM CollectsRest == Spec => CollectsOnlyRest
<1>1. ASSUME OrderInv, [Next]_vars, Live(sb), sb' = Nil, ~sb.deleting
      PROVE  /\ sb.pending = Nil
             /\ WorkOrderSecretName(sb.uid, sb.lastId) \in spawned
             /\ ~Owned(pod, sb.uid)
  <2>1. sb' # sb /\ sb \in Objects
    BY <1>1 DEF Live, Objects
  <2>2. Course
    BY <1>1, <2>1, NextCourse DEF OrderInv, vars, apiVars
  <2>3. sb.pending = Nil /\ SuspensionConfirmed(sb)
    <3>1. sb' \notin Sandboxes
      BY <1>1, APIAssumption
    <3>2. ~Opened /\ ~Turned
      <4>1. ~Turned
        BY <3>1 DEF Turned, Turn, Touched, Alike, HookWrites, Repointed, Superseded,
           Acknowledged, FellAsleep, WokeUp, SameSelf
      <4> QED
        BY <1>1, <4>1 DEF Opened, Live
    <3>3. Closed
      BY <1>1, <2>1, <2>2, <3>2 DEF Course, Moves, Quiet, apiVars, Appeared, SecretMade,
         SecretsCollected, PodStarted, PodWentOn, PodLeft, Live
    <3> QED
      BY <1>1, <3>3 DEF Closed, IdleSince
  <2> QED
    BY <1>1, <2>1, <2>3 DEF OrderInv, SettledReads, Spawned, IInv, WakeGate, Live
<1>2. OrderInv /\ [Next]_vars =>
        [Live(sb) /\ sb' = Nil /\ ~sb.deleting =>
           /\ sb.pending = Nil
           /\ WorkOrderSecretName(sb.uid, sb.lastId) \in spawned
           /\ ~Owned(pod, sb.uid)]_sb
  BY <1>1
<1> QED
  BY <1>2, OrderInvariance, PTL DEF Spec, CollectsOnlyRest
\* A Sandbox is its fields.
LEMMA SandboxesEqual ==
  ASSUME NEW s \in Sandboxes, NEW t \in Sandboxes,
         s.uid = t.uid, s.rv = t.rv, s.gen = t.gen, s.managed = t.managed,
         s.selected = t.selected, s.deleting = t.deleting, s.mode = t.mode,
         s.suspendedAt = t.suspendedAt,
         s.lastSecret = t.lastSecret, s.suspended = t.suspended, s.finished = t.finished,
         SameOrder(s, t), SamePending(s, t), SameInstalled(s, t)
  PROVE  s = t
BY DEF Sandboxes, SameOrder, SamePending, SameInstalled

\* Nothing SHOCK does touches a Sandbox that is not its own: only status and deletion change
\* (hook.go evaluate; the predicates of reconciler.go, which the label check may let in).
THEOREM ForeignLeftAlone == Spec => ForeignUntouched
<1>1. ASSUME OrderInv, [Next]_vars, <<sb, secrets>>' # <<sb, secrets>>, sb # Nil, ~sb.managed
      PROVE  /\ sb' # Nil => [sb' EXCEPT !.rv = sb.rv, !.gen = sb.gen,
                                         !.deleting = sb.deleting,
                                         !.suspended = sb.suspended] = sb
             /\ \A x \in secrets' : x.owner # sb.uid
  <2>1. Course
    BY <1>1, NextCourse DEF OrderInv, vars, apiVars
  <2>2. ForeignBare' /\ ObjectsFit' /\ TypeOK'
    BY <1>1, NextOrderInv DEF OrderInv, IInv
  <2>3. sb \in Sandboxes /\ sb \in Objects /\ Accepted(sb)
    BY <1>1 DEF OrderInv, IInv, TypeOK, APITypeOK, OrNil, Objects, ObjectsFit
  <2>4. CASE sb' = Nil
    <3>1. secrets' = secrets
      BY <1>1, <2>1, <2>3, <2>4, APIAssumption
         DEF Course, Moves, Quiet, apiVars, Opened, Appeared, Turned, Closed, SecretMade,
             SecretsCollected, PodStarted, PodWentOn, PodLeft
    <3> QED
      BY <1>1, <2>4, <3>1 DEF OrderInv, ForeignBare
  <2>5. CASE sb' # Nil /\ sb' = sb
    <3>1. [sb' EXCEPT !.rv = sb.rv, !.gen = sb.gen, !.deleting = sb.deleting,
                      !.suspended = sb.suspended] = sb
      BY <2>3, <2>5 DEF Sandboxes
    <3>2. \A x \in secrets' : x.owner # sb.uid
      BY <1>1, <2>2, <2>5 DEF ForeignBare
    <3> QED
      BY <3>1, <3>2
  <2>6. CASE sb' # Nil /\ Turned
    <3>1. sb' \in Sandboxes
      BY <2>2, <2>6 DEF TypeOK, APITypeOK, OrNil
    <3>2. Touched(sb, sb')
      <4>1. ASSUME NEW h \in Hooks PROVE ~HookWrites(h, sb, sb')
        BY <1>1 DEF HookWrites, OrderInv, HookReady, Evaluate
      <4> QED
        BY <1>1, <2>6, <4>1 DEF Turned, Turn, Acknowledged, FellAsleep, WokeUp
    <3>3. /\ sb'.uid = sb.uid /\ sb'.managed = sb.managed
          /\ sb'.selected = sb.selected /\ sb'.mode = sb.mode
          /\ sb'.suspendedAt = sb.suspendedAt /\ sb'.lastSecret = sb.lastSecret
          /\ SameOrder(sb, sb') /\ SamePending(sb, sb') /\ SameInstalled(sb, sb')
      BY <3>2 DEF Touched, Alike, SameSelf, SameHistory
    <3>4. Accepted(sb')
      BY <2>6, <1>1, TurnAccepted DEF Turned
    <3>5. sb'.finished = sb.finished
      BY <1>1, <2>3, <3>3, <3>4 DEF Accepted
    <3> DEFINE t == [sb' EXCEPT !.rv = sb.rv, !.gen = sb.gen, !.deleting = sb.deleting,
                                !.suspended = sb.suspended]
    <3>6. t \in Sandboxes
      BY <2>3, <3>1 DEF Sandboxes
    <3>7. /\ t.rv = sb.rv /\ t.gen = sb.gen /\ t.deleting = sb.deleting
          /\ t.suspended = sb.suspended
          /\ t.uid = sb'.uid /\ t.managed = sb'.managed
          /\ t.selected = sb'.selected /\ t.mode = sb'.mode
          /\ t.suspendedAt = sb'.suspendedAt /\ t.lastSecret = sb'.lastSecret
          /\ t.finished = sb'.finished
      BY <3>1 DEF Sandboxes
    <3>8. SameOrder(sb', t) /\ SamePending(sb', t) /\ SameInstalled(sb', t)
      BY <3>1 DEF Sandboxes, SameOrder, SamePending, SameInstalled
    <3> HIDE DEF t
    <3>9. SameOrder(t, sb) /\ SamePending(t, sb) /\ SameInstalled(t, sb)
      BY <3>3, <3>8 DEF SameOrder, SamePending, SameInstalled
    <3>10. t = sb
      BY <2>3, <3>3, <3>5, <3>6, <3>7, <3>9, SandboxesEqual
    <3>11. \A x \in secrets' : x.owner # sb.uid
      BY <1>1, <2>2, <2>6, <3>3 DEF ForeignBare
    <3> QED
      BY <3>10, <3>11 DEF t
  <2> QED
    BY <1>1, <2>1, <2>4, <2>5, <2>6, Becomes
<1>2. OrderInv /\ [Next]_vars =>
        [sb # Nil /\ ~sb.managed =>
           /\ sb' # Nil => [sb' EXCEPT !.rv = sb.rv, !.gen = sb.gen,
                                       !.deleting = sb.deleting,
                                       !.suspended = sb.suspended] = sb
           /\ \A x \in secrets' : x.owner # sb.uid]_<<sb, secrets>>
  BY <1>1
<1> QED
  BY <1>2, OrderInvariance, PTL DEF Spec, ForeignUntouched
=============================================================================
