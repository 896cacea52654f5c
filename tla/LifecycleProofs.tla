--------------------------- MODULE LifecycleProofs ---------------------------
(***************************************************************************)
(* IInv is an invariant of Spec, for any hooks, controllers, offers and    *)
(* disruptions; TypeOK, WakeGate, WakesOnlyWhenStopped and                 *)
(* AcceptanceMonotone follow.                                              *)
(*                                                                         *)
(* The argument has three layers.  A write is built from a read, and the   *)
(* pin makes that read the object (PinnedReadIsCurrent).  So every step    *)
(* keeps the object, removes it, makes a new incarnation or rewrites the   *)
(* current one (SbStep), and every read it leaves behind is an old read or *)
(* the object before or after the step (ReadsStep).  What IInv says of     *)
(* reads and of status follows from those two shapes alone.                *)
(***************************************************************************)
EXTENDS LifecycleInv, TLAPS

-----------------------------------------------------------------------------
(***************************************************************************)
(* The mutations keep the type, and what else of them matters.             *)
(***************************************************************************)

\* A write keeps the UID and moves the resourceVersion by one (SandboxAPI).
LEMMA WrittenFacts ==
  ASSUME NEW s \in Sandboxes
  PROVE  /\ Written(s) \in Sandboxes
         /\ Written(s).uid = s.uid
         /\ Written(s).rv = s.rv + 1
         /\ Written(s).gen = s.gen
         /\ Written(s).mode = s.mode
         /\ Written(s).suspended = s.suspended
         /\ Written(s).lastId = s.lastId
         /\ Written(s).lastAttempt = s.lastAttempt
BY DEF Written, Sandboxes

\* A spec write does so too, and moves the generation by one.
LEMMA WrittenSpecFacts ==
  ASSUME NEW s \in Sandboxes
  PROVE  /\ WrittenSpec(s) \in Sandboxes
         /\ WrittenSpec(s).uid = s.uid
         /\ WrittenSpec(s).rv = s.rv + 1
         /\ WrittenSpec(s).gen = s.gen + 1
         /\ WrittenSpec(s).mode = s.mode
         /\ WrittenSpec(s).suspended = s.suspended
         /\ WrittenSpec(s).lastId = s.lastId
         /\ WrittenSpec(s).lastAttempt = s.lastAttempt
<1>1. WrittenSpec(s) \in Sandboxes
  <2>1. s.rv + 1 \in Nat /\ s.gen + 1 \in Nat
    BY DEF Sandboxes
  <2> QED
    BY <2>1 DEF WrittenSpec, Sandboxes
<1>2. /\ WrittenSpec(s).uid = s.uid
      /\ WrittenSpec(s).rv = s.rv + 1
      /\ WrittenSpec(s).gen = s.gen + 1
  BY DEF WrittenSpec, Sandboxes
<1>3. /\ WrittenSpec(s).mode = s.mode
      /\ WrittenSpec(s).suspended = s.suspended
      /\ WrittenSpec(s).lastId = s.lastId
      /\ WrittenSpec(s).lastAttempt = s.lastAttempt
  BY DEF WrittenSpec, Sandboxes
<1> QED
  BY <1>1, <1>2, <1>3

\* t is s with the identity and the status it had.
Derived(s, t) ==
  /\ t \in Sandboxes
  /\ t.uid = s.uid
  /\ t.rv = s.rv
  /\ t.gen = s.gen
  /\ t.suspended = s.suspended

\* The hook's two mutations (repairRedelivery, publishNewer).
LEMMA HookMutations ==
  ASSUME NEW s \in Sandboxes, NEW o \in Offers
  PROVE  /\ Derived(s, Repaired(s, o))
         /\ Repaired(s, o).mode = s.mode
         /\ Repaired(s, o).podOrder = s.podOrder
         /\ Repaired(s, o).lastId = s.lastId
         /\ Repaired(s, o).lastAttempt = s.lastAttempt
         /\ Derived(s, Published(s, o))
         /\ Published(s, o).mode = "Suspended"
         /\ Published(s, o).lastId = o.id
         /\ Published(s, o).lastAttempt = o.attempt
<1>1. o \in Orders
  BY APIAssumption
<1>2. s.uid \in Nat
  BY DEF Sandboxes
<1>3. WorkOrderSecretName(s.uid, o.id) \in SecretNames
  BY <1>1, <1>2 DEF WorkOrderSecretName, SecretNames, Orders
<1>4. Derived(s, Repaired(s, o)) /\ Repaired(s, o).mode = s.mode
      /\ Repaired(s, o).podOrder = s.podOrder
      /\ Repaired(s, o).lastId = s.lastId /\ Repaired(s, o).lastAttempt = s.lastAttempt
  <2> DEFINE name == WorkOrderSecretName(s.uid, o.id)
             ps   == IF s.pending = o.id /\ s.pendingSecret = Nil THEN name ELSE s.pendingSecret
             ls   == IF s.lastId = o.id /\ s.lastSecret = Nil THEN name ELSE s.lastSecret
  <2>1. ps \in OrNil(SecretNames) /\ ls \in OrNil(SecretNames)
    BY <1>3 DEF Sandboxes, OrNil
  <2>2. Repaired(s, o) = [s EXCEPT !.pendingSecret = ps, !.lastSecret = ls]
    BY DEF Repaired, Sandboxes
  <2> HIDE DEF ps, ls
  <2>3. Repaired(s, o) \in Sandboxes
    BY <2>1, <2>2 DEF Sandboxes
  <2>4. /\ Repaired(s, o).uid = s.uid
        /\ Repaired(s, o).rv = s.rv
        /\ Repaired(s, o).gen = s.gen
        /\ Repaired(s, o).suspended = s.suspended
    BY <2>2 DEF Sandboxes
  <2>5. /\ Repaired(s, o).mode = s.mode
        /\ Repaired(s, o).podOrder = s.podOrder
        /\ Repaired(s, o).lastId = s.lastId
        /\ Repaired(s, o).lastAttempt = s.lastAttempt
    BY <2>2 DEF Sandboxes
  <2> QED
    BY <2>3, <2>4, <2>5 DEF Derived
<1>5. Derived(s, Published(s, o)) /\ Published(s, o).mode = "Suspended"
      /\ Published(s, o).lastId = o.id
      /\ Published(s, o).lastAttempt = o.attempt
  BY <1>1, <1>3 DEF Derived, Published, Sandboxes, OrNil, Orders, Modes
<1> QED
  BY <1>4, <1>5

\* The controller's three mutations (spawnObservation, sleep, wake).
LEMMA ControllerMutations ==
  ASSUME NEW s \in Sandboxes
  PROVE  /\ Derived(s, Settled(s)) /\ Settled(s).mode = s.mode
         /\ Settled(s).podOrder = s.podOrder
         /\ Derived(s, Asleep(s)) /\ Asleep(s).mode = "Suspended"
         /\ Derived(s, Woken(s)) /\ Woken(s).podOrder = s.pending
         /\ \A t \in {Settled(s), Asleep(s), Woken(s)} :
              t.lastId = s.lastId /\ t.lastAttempt = s.lastAttempt
<1>1. Derived(s, Settled(s)) /\ Settled(s).mode = s.mode
      /\ Settled(s).podOrder = s.podOrder /\ Settled(s).lastId = s.lastId /\ Settled(s).lastAttempt = s.lastAttempt
  BY DEF Derived, Settled, Sandboxes, OrNil
<1>2. Derived(s, Asleep(s)) /\ Asleep(s).mode = "Suspended" /\ Asleep(s).lastId = s.lastId
      /\ Asleep(s).lastAttempt = s.lastAttempt
  BY DEF Derived, Asleep, Sandboxes, Modes
<1>3. Derived(s, Woken(s)) /\ Woken(s).podOrder = s.pending /\ Woken(s).lastId = s.lastId
      /\ Woken(s).lastAttempt = s.lastAttempt
  BY DEF Derived, Woken, Sandboxes, Modes, OrNil
<1> QED
  BY <1>1, <1>2, <1>3

\* A new Sandbox, as the hook creates it.
LEMMA NewSandboxFacts ==
  ASSUME NEW uid \in Nat, NEW o \in Offers
  PROVE  /\ NewSandbox(uid, o) \in Sandboxes
         /\ NewSandbox(uid, o).uid = uid
         /\ NewSandbox(uid, o).gen = 1
         /\ NewSandbox(uid, o).suspended = 0
BY APIAssumption DEF NewSandbox, Sandboxes, Orders, OrNil, Modes

-----------------------------------------------------------------------------
(***************************************************************************)
(* The shapes of a step.                                                   *)
(***************************************************************************)

Installed(t) == t.mode = "Running" => t.podOrder # Nil

\* Only Wake turns a Sandbox Running, and it has read a confirmed suspension.
WakesFrom(s, t) == t.mode = "Running" => s.mode = "Running" \/ SuspensionConfirmed(s)

\* An order is only ever accepted over a lower attempt.
AcceptsFrom(s, t) ==
  \/ t.lastAttempt > s.lastAttempt
  \/ t.lastAttempt = s.lastAttempt /\ t.lastId = s.lastId

Incarnation ==
  /\ sb = Nil
  /\ sb' \in Sandboxes
  /\ sb'.uid = lastUid + 1
  /\ lastUid' = lastUid + 1
  /\ sb'.gen = 1
  /\ sb'.suspended = 0
  /\ Installed(sb')

Rewrite ==
  /\ sb # Nil
  /\ sb' \in Sandboxes
  /\ sb'.uid = sb.uid
  /\ sb'.rv = sb.rv + 1
  /\ lastUid' = lastUid
  /\ Installed(sb')
  /\ WakesFrom(sb, sb')
  /\ AcceptsFrom(sb, sb')

\* The hook, the controller and operators leave status alone.
UserRewrite ==
  /\ Rewrite
  /\ sb'.suspended = sb.suspended
  /\ \/ sb'.gen = sb.gen + 1
     \/ sb'.gen = sb.gen /\ sb'.mode = sb.mode

\* Agent-sandbox writes status only.
StatusRewrite ==
  /\ Rewrite
  /\ sb'.gen = sb.gen
  /\ sb'.mode = sb.mode
  /\ \/ sb'.suspended = 0
     \/ /\ sb'.suspended = sb.gen
        /\ sb.mode = "Suspended"
        /\ ~Owned(pod, sb.uid)
        /\ pod' = pod
        /\ agent' = Nil

SbStep ==
  \/ UNCHANGED <<sb, lastUid>>
  \/ sb' = Nil /\ UNCHANGED lastUid
  \/ Incarnation
  \/ UserRewrite
  \/ StatusRewrite

\* No step gives the Pod an owner but agent-sandbox, from a Running read.
RunnerStep ==
  /\ \/ pod' \in {pod, Nil}
     \/ pod # Nil /\ pod' # Nil /\ pod'.owner = pod.owner
     \/ agent # Nil /\ agent.mode = "Running" /\ pod'.owner = agent.uid
  /\ agent' \in {agent, sb, Nil}

ReadsStep == Reads' \subseteq Reads \cup {sb, sb'}

Shape == TypeOK' /\ HookProgress' /\ SbStep /\ RunnerStep /\ ReadsStep

\* A write pinned to a read is a write on the object as it is (patch.Optimistic).
LEMMA PinnedReadIsCurrent ==
  ASSUME TypeOK, DatedReads, NEW s \in Reads, s \in Sandboxes, Current(s)
  PROVE  s = sb
BY DEF TypeOK, APITypeOK, OrNil, DatedReads, Dated, Current, Sandboxes

\* What is read is a Sandbox.
LEMMA ReadsAreSandboxes == ASSUME TypeOK PROVE Reads \subseteq Sandboxes
BY DEF TypeOK, HookTypeOK, ControllerTypeOK, AgentTypeOK, Reads, Invocation, Caches, OrNil

\* A write on the current Sandbox, as a shape.
LEMMA UserWrite ==
  ASSUME IInv, sb # Nil, NEW t \in Sandboxes, Derived(sb, t), Installed(t),
         WakesFrom(sb, t), AcceptsFrom(sb, t), UNCHANGED lastUid,
         \/ sb' = WrittenSpec(t)
         \/ sb' = Written(t) /\ t.mode = sb.mode
  PROVE  UserRewrite
<1>1. Written(t).podOrder = t.podOrder /\ WrittenSpec(t).podOrder = t.podOrder
  BY DEF Written, WrittenSpec, Sandboxes
<1>2. \A u \in {Written(t), WrittenSpec(t)} :
        u \in Sandboxes /\ WakesFrom(sb, u) /\ AcceptsFrom(sb, u)
  BY WrittenFacts, WrittenSpecFacts DEF WakesFrom, AcceptsFrom
<1> QED
  BY <1>1, <1>2, WrittenFacts, WrittenSpecFacts DEF UserRewrite, Rewrite, Derived, Installed

-----------------------------------------------------------------------------
(***************************************************************************)
(* The ends of an invocation and its moves (hook.go).                      *)
(***************************************************************************)

\* What a move of invocation h leaves behind.
HookMoves ==
  /\ hooks' \in [Hooks -> Invocation]
  /\ acked' \in SUBSET [uid : Nat, id : OrderIds, attempt : Nat]
  /\ rejected' \in SUBSET [offer : Offers, why : {"foreign", "attempt", "secret"}]
  /\ HookProgress'
  /\ \A g \in Hooks : hooks'[g].snap \in {hooks[g].snap, Nil, sb, sb'}

\* Exit(h) resets the slot.
LEMMA ExitMoves ==
  ASSUME IInv, NEW h \in Hooks, Exit(h)
  PROVE  /\ hooks' \in [Hooks -> Invocation]
         /\ HookProgress'
         /\ \A g \in Hooks : hooks'[g].snap \in {hooks[g].snap, Nil, sb, sb'}
<1>1. Idle \in Invocation /\ Idle.snap = Nil /\ Idle.pc = "idle"
  BY DEF Idle, Invocation, PCs, OrNil
<1>2. hooks \in [Hooks -> Invocation] /\ HookProgress
  BY DEF IInv, TypeOK, HookTypeOK
<1>3. hooks' = [hooks EXCEPT ![h] = Idle]
  BY DEF Exit
<1> QED
  BY <1>1, <1>2, <1>3 DEF HookProgress

\* An invocation under way has an order to report on.
LEMMA OfferTaken ==
  ASSUME IInv, NEW h \in Hooks, hooks[h].pc # "idle"
  PROVE  hooks[h].offer \in Offers /\ hooks[h].offer \in Orders
<1>1. hooks[h] \in Invocation /\ hooks[h].offer # Nil
  BY DEF IInv, TypeOK, HookTypeOK, HookProgress
<1> QED
  BY <1>1, APIAssumption DEF Invocation, OrNil

\* exit 1, 2 and 0
LEMMA ExitsMove ==
  ASSUME IInv, NEW h \in Hooks, hooks[h].pc # "idle",
         \/ ExitRetryable(h)
         \/ \E why \in {"foreign", "attempt", "secret"} : ExitNonRetryable(h, why)
         \/ \E s \in Sandboxes : ExitSubmitted(h, s)
  PROVE  HookMoves
<1>1. /\ acked \in SUBSET [uid : Nat, id : OrderIds, attempt : Nat]
      /\ rejected \in SUBSET [offer : Offers, why : {"foreign", "attempt", "secret"}]
  BY DEF IInv, TypeOK, HookTypeOK
<1>2. CASE ExitRetryable(h)
  BY <1>1, <1>2, ExitMoves DEF ExitRetryable, HookMoves
<1>3. CASE \E why \in {"foreign", "attempt", "secret"} : ExitNonRetryable(h, why)
  BY <1>1, <1>3, ExitMoves, OfferTaken DEF ExitNonRetryable, HookMoves
<1>4. CASE \E s \in Sandboxes : ExitSubmitted(h, s)
  <2>1. PICK s \in Sandboxes : ExitSubmitted(h, s)
    BY <1>4
  <2>2. [uid |-> s.uid, id |-> hooks[h].offer.id, attempt |-> hooks[h].offer.attempt]
        \in [uid : Nat, id : OrderIds, attempt : Nat]
    BY OfferTaken DEF Sandboxes, Orders
  <2> QED
    BY <1>1, <2>1, <2>2, ExitMoves DEF ExitSubmitted, HookMoves
<1> QED
  BY <1>2, <1>3, <1>4

\* Goto(h, pc, s) with a Sandbox in hand whenever the next call needs one.
LEMMA GotoMoves ==
  ASSUME IInv, NEW h \in Hooks, hooks[h].pc # "idle",
         NEW pc \in {"create", "secret", "patch"}, NEW s \in OrNil(Sandboxes),
         s \in {hooks[h].snap, Nil, sb, sb'}, pc = "create" \/ s # Nil,
         Goto(h, pc, s)
  PROVE  HookMoves
<1>1. hooks \in [Hooks -> Invocation] /\ HookProgress
  BY DEF IInv, TypeOK, HookTypeOK
<1>2. (IF s = Nil THEN hooks[h].seen ELSE s.uid) \in Nat
  BY <1>1 DEF Invocation, OrNil, Sandboxes
<1> DEFINE i == [hooks[h] EXCEPT !.pc = pc, !.snap = s,
                                 !.seen = IF s = Nil THEN @ ELSE s.uid]
<1>3. i \in Invocation /\ i.pc = pc /\ i.snap = s /\ i.offer = hooks[h].offer
  BY <1>1, <1>2 DEF Invocation, PCs
<1>4. hooks' = [hooks EXCEPT ![h] = i]
  BY <1>1 DEF Goto, Invocation
<1>5. hooks' \in [Hooks -> Invocation]
      /\ \A g \in Hooks : hooks'[g].snap \in {hooks[g].snap, Nil, sb, sb'}
  BY <1>1, <1>3, <1>4
<1>6. HookProgress'
  BY <1>1, <1>3, <1>4 DEF HookProgress
<1> QED
  BY <1>5, <1>6 DEF HookMoves, IInv, TypeOK, HookTypeOK, Goto

\* Retry(h) forgets the read.
LEMMA RetryMoves ==
  ASSUME IInv, NEW h \in Hooks, hooks[h].pc # "idle", Retry(h)
  PROVE  HookMoves
<1>1. hooks \in [Hooks -> Invocation] /\ HookProgress
  BY DEF IInv, TypeOK, HookTypeOK
<1>2. CASE hooks[h].tries + 1 = MaxAttempts
  BY <1>2, ExitsMove DEF Retry
<1>3. CASE hooks[h].tries + 1 # MaxAttempts
  <2> DEFINE i == [hooks[h] EXCEPT !.pc = "get", !.snap = Nil, !.tries = @ + 1]
  <2>1. i \in Invocation /\ i.pc = "get" /\ i.snap = Nil /\ i.offer = hooks[h].offer
    <3>1. hooks[h] \in Invocation /\ hooks[h].tries + 1 \in Nat
      BY <1>1 DEF Invocation
    <3> QED
      BY <3>1 DEF Invocation, PCs, OrNil
  <2>2. /\ hooks' = [hooks EXCEPT ![h].pc = "get", ![h].snap = Nil, ![h].tries = @ + 1]
        /\ UNCHANGED <<acked, rejected>>
    BY <1>3 DEF Retry
  <2>3. hooks' \in [Hooks -> Invocation]
        /\ \A g \in Hooks : hooks'[g].snap \in {hooks[g].snap, Nil, sb, sb'}
    BY <1>1, <2>1, <2>2 DEF Invocation
  <2>4. HookProgress'
    BY <1>1, <2>1, <2>2 DEF HookProgress, Invocation
  <2> QED
    BY <2>2, <2>3, <2>4 DEF HookMoves, IInv, TypeOK, HookTypeOK
<1> QED
  BY <1>2, <1>3

\* A move of a hook, with what its action does to the API objects, is a shape.
LEMMA HookShape ==
  ASSUME IInv, HookMoves, invocations' \in Nat, SbStep, APITypeOK', pod' = pod,
         UNCHANGED <<cache, agentVars>>
  PROVE  Shape
<1>1. HookTypeOK' /\ ControllerTypeOK' /\ AgentTypeOK'
  BY DEF IInv, TypeOK, HookTypeOK, ControllerTypeOK, AgentTypeOK, HookMoves, agentVars
<1>2. ReadsStep
  BY DEF ReadsStep, Reads, HookMoves, agentVars
<1>3. RunnerStep
  BY DEF RunnerStep, agentVars
<1> QED
  BY <1>1, <1>2, <1>3 DEF Shape, TypeOK, HookMoves

-----------------------------------------------------------------------------
(***************************************************************************)
(* The steps of an invocation.                                             *)
(***************************************************************************)

LEMMA DeliverShape ==
  ASSUME IInv, NEW h \in Hooks, NEW o \in Offers, Deliver(h, o),
         UNCHANGED <<cache, agentVars>>
  PROVE  Shape
<1>1. hooks \in [Hooks -> Invocation] /\ HookProgress /\ o # Nil
  BY APIAssumption DEF IInv, TypeOK, HookTypeOK
<1> DEFINE i == [Idle EXCEPT !.pc = "get", !.offer = o]
<1>2. i \in Invocation /\ i.pc = "get" /\ i.offer = o /\ i.snap = Nil
  BY DEF Idle, Invocation, PCs, OrNil
<1>3. hooks' = [hooks EXCEPT ![h] = i]
  BY DEF Deliver
<1>4. /\ hooks' \in [Hooks -> Invocation]
      /\ \A g \in Hooks : hooks'[g].snap \in {hooks[g].snap, Nil, sb, sb'}
  BY <1>1, <1>2, <1>3
<1>5. HookProgress'
  BY <1>1, <1>2, <1>3 DEF HookProgress
<1>6. HookMoves /\ invocations' \in Nat
  BY <1>4, <1>5 DEF HookMoves, Deliver, IInv, TypeOK, HookTypeOK
<1>7. APITypeOK' /\ SbStep /\ pod' = pod
  BY DEF Deliver, apiVars, IInv, TypeOK, APITypeOK, SbStep
<1> QED
  BY <1>6, <1>7, HookShape

\* reconcileExisting on the Sandbox just read or just created.
LEMMA ReconcileMoves ==
  ASSUME IInv, NEW h \in Hooks, hooks[h].pc # "idle",
         NEW s \in Sandboxes, s \in {sb, sb'}, ReconcileExisting(h, s)
  PROVE  HookMoves
<1>1. s \in OrNil(Sandboxes) /\ s # Nil
  BY APIAssumption DEF OrNil
<1>2. CASE Goto(h, "secret", s)
  BY <1>1, <1>2, GotoMoves
<1>3. CASE \/ ExitRetryable(h)
           \/ \E why \in {"foreign", "attempt", "secret"} : ExitNonRetryable(h, why)
           \/ ExitSubmitted(h, s)
  BY <1>3, ExitsMove
<1> QED
  BY <1>2, <1>3, Zenon DEF ReconcileExisting

LEMMA GetShape ==
  ASSUME IInv, NEW h \in Hooks, Get(h), UNCHANGED <<cache, agentVars>>
  PROVE  Shape
<1>1. hooks[h].pc # "idle"
  BY DEF Get
<1>2. HookMoves
  <2>1. CASE Goto(h, "create", Nil)
    BY <1>1, <2>1, GotoMoves DEF OrNil
  <2>2. CASE ExitRetryable(h)
    BY <1>1, <2>2, ExitsMove
  <2>3. CASE sb # Nil /\ ReconcileExisting(h, sb)
    BY <1>1, <2>3, ReconcileMoves DEF IInv, TypeOK, APITypeOK, OrNil
  <2> QED
    BY <2>1, <2>2, <2>3 DEF Get
<1>3. invocations' \in Nat /\ APITypeOK' /\ SbStep /\ pod' = pod
  BY DEF Get, apiVars, IInv, TypeOK, APITypeOK, HookTypeOK, SbStep
<1> QED
  BY <1>2, <1>3, HookShape

LEMMA CreateSandboxShape ==
  ASSUME IInv, NEW h \in Hooks, CreateSandbox(h), UNCHANGED <<cache, agentVars>>
  PROVE  Shape
<1>1. hooks[h].pc # "idle" /\ lastUid + 1 \in Nat
  BY DEF CreateSandbox, IInv, TypeOK, APITypeOK
<1>2. hooks[h].offer \in Offers
  BY <1>1, OfferTaken
<1>3. sb' = NewSandbox(lastUid + 1, hooks[h].offer)
  BY DEF CreateSandbox
<1>4. sb' \in Sandboxes /\ sb'.uid = lastUid + 1 /\ sb'.gen = 1 /\ sb'.suspended = 0
  BY <1>1, <1>2, <1>3, NewSandboxFacts
<1>5. Installed(sb')
  BY <1>3 DEF Installed, NewSandbox
<1>6. Incarnation
  BY <1>4, <1>5 DEF Incarnation, CreateSandbox
<1>7. HookMoves
  BY <1>1, <1>4, ReconcileMoves DEF CreateSandbox
<1>8. invocations' \in Nat /\ APITypeOK' /\ pod' = pod
  BY <1>1, <1>4 DEF CreateSandbox, IInv, TypeOK, APITypeOK, HookTypeOK, OrNil
<1> QED
  BY <1>6, <1>7, <1>8, HookShape DEF SbStep

LEMMA CreateLostShape ==
  ASSUME IInv, NEW h \in Hooks, CreateLost(h), UNCHANGED <<cache, agentVars>>
  PROVE  Shape
<1>1. HookMoves
  BY RetryMoves DEF CreateLost
<1>2. invocations' \in Nat /\ APITypeOK' /\ SbStep /\ pod' = pod
  BY DEF CreateLost, apiVars, IInv, TypeOK, APITypeOK, HookTypeOK, SbStep
<1> QED
  BY <1>1, <1>2, HookShape

\* Past Get, the invocation holds a Sandbox it read.
LEMMA SnapHeld ==
  ASSUME IInv, NEW h \in Hooks, hooks[h].pc \in {"secret", "patch"}
  PROVE  /\ hooks[h].snap \in Sandboxes
         /\ hooks[h].snap \in Reads
         /\ hooks[h].snap # Nil
         /\ Installed(hooks[h].snap)
<1>1. hooks[h].snap # Nil /\ hooks[h].snap \in Reads
  BY DEF IInv, HookProgress, Reads
<1> QED
  BY <1>1, ReadsAreSandboxes DEF IInv, InstalledOrder, Installed

LEMMA EnsureSecretShape ==
  ASSUME IInv, NEW h \in Hooks, EnsureSecret(h), UNCHANGED <<cache, agentVars>>
  PROVE  Shape
<1> DEFINE s == hooks[h].snap
           desired == WorkOrderSecret(s, hooks[h].offer)
<1>1. hooks[h].pc # "idle" /\ s \in Sandboxes /\ s # Nil /\ hooks[h].offer \in Orders
  BY SnapHeld, OfferTaken DEF EnsureSecret
<1>2. desired \in Secrets
  BY <1>1 DEF WorkOrderSecret, WorkOrderSecretName, SecretNames, Secrets, Sandboxes, Orders
<1>3. HookMoves
  <2>1. CASE Goto(h, "patch", s)
    BY <1>1, <2>1, GotoMoves DEF OrNil
  <2>2. CASE ExitNonRetryable(h, "secret")
    BY <1>1, <2>2, ExitsMove
  <2> QED
    BY <2>1, <2>2 DEF EnsureSecret
<1>4. secrets' \in {secrets, secrets \cup {desired}}
  BY DEF EnsureSecret
<1>5. invocations' \in Nat /\ APITypeOK' /\ SbStep /\ pod' = pod
  BY <1>2, <1>4 DEF EnsureSecret, IInv, TypeOK, APITypeOK, HookTypeOK, SbStep
<1> QED
  BY <1>3, <1>5, HookShape

\* The pinned patch of repairRedelivery and publishNewer.
LEMMA PinnedPatchShape ==
  ASSUME IInv, NEW h \in Hooks, hooks[h].pc = "patch", NEW t \in Sandboxes,
         Derived(hooks[h].snap, t), Installed(t),
         WakesFrom(hooks[h].snap, t), AcceptsFrom(hooks[h].snap, t),
         \/ PinnedPatch(h, WrittenSpec(t))
         \/ PinnedPatch(h, Written(t)) /\ t.mode = hooks[h].snap.mode,
         UNCHANGED lastUid
  PROVE  HookMoves /\ SbStep /\ sb' \in OrNil(Sandboxes)
<1> DEFINE s == hooks[h].snap
<1>1. s \in Sandboxes /\ s \in Reads /\ hooks[h].pc # "idle"
  BY SnapHeld
<1>2. CASE Current(s)
  <2>1. s = sb /\ sb # Nil
    BY <1>1, <1>2, PinnedReadIsCurrent DEF IInv, Current
  <2>2. UserRewrite
    BY <1>2, <2>1, UserWrite DEF PinnedPatch
  <2>3. ExitSubmitted(h, s)
    BY <1>2 DEF PinnedPatch
  <2> QED
    BY <1>1, <2>2, <2>3, ExitsMove DEF SbStep, UserRewrite, Rewrite, OrNil
<1>3. CASE ~Current(s)
  <2>1. Retry(h) /\ sb' = sb
    BY <1>3 DEF PinnedPatch
  <2> QED
    BY <1>1, <2>1, RetryMoves DEF SbStep, IInv, TypeOK, APITypeOK
<1> QED
  BY <1>2, <1>3

LEMMA RepairRedeliveryShape ==
  ASSUME IInv, NEW h \in Hooks, RepairRedelivery(h), UNCHANGED <<cache, agentVars>>
  PROVE  Shape
<1> DEFINE s == hooks[h].snap
           o == hooks[h].offer
<1>1. hooks[h].pc = "patch" /\ s \in Sandboxes /\ Installed(s) /\ o \in Offers
  BY SnapHeld, OfferTaken DEF RepairRedelivery
<1>2. HookMoves /\ SbStep /\ sb' \in OrNil(Sandboxes)
  <2>1. CASE PinnedPatch(h, Written(Repaired(s, o)))
    <3>1. Derived(s, Repaired(s, o)) /\ Repaired(s, o) \in Sandboxes
          /\ Installed(Repaired(s, o)) /\ Repaired(s, o).mode = s.mode
          /\ WakesFrom(s, Repaired(s, o)) /\ AcceptsFrom(s, Repaired(s, o))
      BY <1>1, HookMutations DEF Derived, Installed, WakesFrom, AcceptsFrom
    <3> QED
      BY <1>1, <2>1, <3>1, PinnedPatchShape DEF RepairRedelivery
  <2>2. CASE UNCHANGED sb /\ (ExitNonRetryable(h, "secret") \/ ExitSubmitted(h, s))
    BY <1>1, <2>2, ExitsMove DEF RepairRedelivery, SbStep, IInv, TypeOK, APITypeOK
  <2> QED
    BY <2>1, <2>2 DEF RepairRedelivery
<1>3. invocations' \in Nat /\ APITypeOK' /\ pod' = pod
  BY <1>2 DEF RepairRedelivery, IInv, TypeOK, APITypeOK, HookTypeOK
<1> QED
  BY <1>2, <1>3, HookShape

LEMMA PublishNewerShape ==
  ASSUME IInv, NEW h \in Hooks, PublishNewer(h), UNCHANGED <<cache, agentVars>>
  PROVE  Shape
<1> DEFINE s == hooks[h].snap
           t == Published(s, hooks[h].offer)
<1>1. hooks[h].pc = "patch" /\ s \in Sandboxes /\ hooks[h].offer \in Offers
  BY SnapHeld, OfferTaken DEF PublishNewer
<1>2. Derived(s, t) /\ t \in Sandboxes /\ Installed(t) /\ WakesFrom(s, t)
  BY <1>1, HookMutations DEF Derived, Installed, WakesFrom
<1>3. \/ PinnedPatch(h, WrittenSpec(t))
      \/ PinnedPatch(h, Written(t)) /\ t.mode = s.mode
  BY DEF PublishNewer
<1>4. AcceptsFrom(s, t)
  <2>1. hooks[h].offer.attempt \in Nat /\ s.lastAttempt \in Nat
    BY <1>1, APIAssumption DEF Orders, Sandboxes
  <2>2. hooks[h].offer.attempt > s.lastAttempt
    BY <2>1 DEF PublishNewer, Evaluate
  <2> QED
    BY <1>1, <2>2, HookMutations DEF AcceptsFrom
<1>5. HookMoves /\ SbStep /\ sb' \in OrNil(Sandboxes)
  BY <1>1, <1>2, <1>3, <1>4, PinnedPatchShape DEF PublishNewer
<1>6. invocations' \in Nat /\ APITypeOK' /\ pod' = pod
  BY <1>5 DEF PublishNewer, IInv, TypeOK, APITypeOK, HookTypeOK
<1> QED
  BY <1>5, <1>6, HookShape

LEMMA HookNextShape ==
  ASSUME IInv, HookNext, UNCHANGED <<cache, agentVars>>
  PROVE  Shape
<1>1. PICK h \in Hooks :
        (\E o \in Offers : Deliver(h, o)) \/ HookStep(h) \/ HookFails(h)
  BY DEF HookNext
<1>2. CASE \E o \in Offers : Deliver(h, o)
  BY <1>2, DeliverShape
<1>3. CASE HookStep(h)
  BY <1>3, GetShape, CreateSandboxShape, CreateLostShape, EnsureSecretShape,
     RepairRedeliveryShape, PublishNewerShape DEF HookStep
<1>4. CASE HookFails(h)
  <2>1. HookMoves
    BY <1>4, ExitsMove DEF HookFails
  <2>2. invocations' \in Nat /\ APITypeOK' /\ SbStep /\ pod' = pod
    BY <1>4 DEF HookFails, apiVars, IInv, TypeOK, APITypeOK, HookTypeOK, SbStep
  <2> QED
    BY <2>1, <2>2, HookShape
<1> QED
  BY <1>1, <1>2, <1>3, <1>4

-----------------------------------------------------------------------------
(***************************************************************************)
(* The controller's steps (reconciler.go).                                 *)
(***************************************************************************)

\* A reconcile leaves the hooks, the caches, the Pod and agent-sandbox alone.
LEMMA ControllerShape ==
  ASSUME IInv, SbStep, sb' \in OrNil(Sandboxes), UNCHANGED <<hookVars, agentVars>>,
         UNCHANGED <<cache, secrets, pod, lastUid, spawned>>
  PROVE  Shape
<1>1. TypeOK' /\ HookProgress'
  BY DEF IInv, TypeOK, APITypeOK, HookTypeOK, ControllerTypeOK, AgentTypeOK, HookProgress,
         hookVars, agentVars
<1>2. RunnerStep /\ ReadsStep
  BY DEF RunnerStep, ReadsStep, Reads, hookVars, agentVars
<1> QED
  BY <1>1, <1>2 DEF Shape

LEMMA ReconcileShape ==
  ASSUME IInv, NEW c \in Controllers, Reconcile(c), UNCHANGED <<hookVars, agentVars>>
  PROVE  Shape
<1> DEFINE s == cache[c].sb
<1>1. s # Nil /\ Current(s)
  BY DEF Reconcile, SpawnObservation, Sleep, Wake, GC, Reconcilable, ControllerPatch
<1>2. s \in Reads /\ s \in Sandboxes
  BY <1>1, ReadsAreSandboxes DEF Reads, IInv
<1>3. s = sb /\ sb # Nil /\ Installed(s)
  BY <1>1, <1>2, PinnedReadIsCurrent DEF IInv, InstalledOrder, Installed
<1>4. UNCHANGED <<cache, secrets, pod, lastUid, spawned>>
  BY DEF Reconcile, SpawnObservation, Sleep, Wake, GC, ControllerPatch
<1>5. CASE SpawnObservation(c)
  <2>1. Derived(s, Settled(s)) /\ Settled(s).mode = s.mode /\ Installed(Settled(s))
        /\ WakesFrom(s, Settled(s)) /\ AcceptsFrom(s, Settled(s))
    BY <1>2, <1>3, ControllerMutations DEF Installed, WakesFrom, AcceptsFrom
  <2>2. sb' = Written(Settled(s))
    BY <1>5 DEF SpawnObservation, ControllerPatch
  <2>3. UserRewrite
    BY <1>3, <1>4, <2>1, <2>2, UserWrite DEF Derived
  <2> QED
    BY <1>4, <2>3, ControllerShape DEF SbStep, UserRewrite, Rewrite, OrNil
<1>6. CASE Sleep(c)
  <2>1. Derived(s, Asleep(s)) /\ Installed(Asleep(s))
        /\ WakesFrom(s, Asleep(s)) /\ AcceptsFrom(s, Asleep(s))
    BY <1>2, ControllerMutations DEF Installed, WakesFrom, AcceptsFrom
  <2>2. sb' = WrittenSpec(Asleep(s))
    BY <1>6 DEF Sleep, ControllerPatch
  <2>3. UserRewrite
    BY <1>3, <1>4, <2>1, <2>2, UserWrite DEF Derived
  <2> QED
    BY <1>4, <2>3, ControllerShape DEF SbStep, UserRewrite, Rewrite, OrNil
<1>7. CASE Wake(c)
  <2>1. s.pending # Nil /\ SuspensionConfirmed(s)
    BY <1>7 DEF Wake, ShouldWake
  <2>2. Derived(s, Woken(s)) /\ Installed(Woken(s))
        /\ WakesFrom(s, Woken(s)) /\ AcceptsFrom(s, Woken(s))
    BY <1>2, <2>1, ControllerMutations DEF Installed, WakesFrom, AcceptsFrom
  <2>3. sb' = WrittenSpec(Woken(s))
    BY <1>7 DEF Wake, ControllerPatch
  <2>4. UserRewrite
    BY <1>3, <1>4, <2>2, <2>3, UserWrite DEF Derived
  <2> QED
    BY <1>4, <2>4, ControllerShape DEF SbStep, UserRewrite, Rewrite, OrNil
<1>8. CASE GC(c)
  <2>1. sb' = Nil
    BY <1>8 DEF GC, ControllerPatch
  <2> QED
    BY <1>4, <2>1, ControllerShape DEF SbStep, OrNil
<1> QED
  BY <1>5, <1>6, <1>7, <1>8 DEF Reconcile

LEMMA CacheSyncShape ==
  ASSUME IInv, NEW c \in Controllers, CacheSync(c), UNCHANGED <<hookVars, agentVars>>
  PROVE  Shape
<1>1. UNCHANGED apiVars
  BY DEF CacheSync, SyncSandbox, SyncPod
<1>2. cache \in [Controllers -> Caches] /\ sb \in OrNil(Sandboxes) /\ pod \in OrNil(Pods)
  BY DEF IInv, TypeOK, ControllerTypeOK, APITypeOK
<1>3. cache' \in [Controllers -> Caches]
      /\ \A d \in Controllers : cache'[d].sb \in {cache[d].sb, sb}
  <2>1. CASE SyncSandbox(c)
    BY <1>2, <2>1 DEF SyncSandbox, Caches
  <2>2. CASE SyncPod(c)
    BY <1>2, <2>2 DEF SyncPod, Caches
  <2> QED
    BY <2>1, <2>2 DEF CacheSync
<1>4. TypeOK' /\ HookProgress'
  BY <1>1, <1>3 DEF IInv, TypeOK, APITypeOK, HookTypeOK, ControllerTypeOK, AgentTypeOK,
         HookProgress, hookVars, agentVars, apiVars
<1>5. ReadsStep
  BY <1>3 DEF ReadsStep, Reads, hookVars, agentVars
<1>6. SbStep /\ RunnerStep
  BY <1>1 DEF SbStep, RunnerStep, apiVars, agentVars
<1> QED
  BY <1>4, <1>5, <1>6 DEF Shape

-----------------------------------------------------------------------------
(***************************************************************************)
(* Agent-sandbox and the environment.                                      *)
(***************************************************************************)

\* What these steps leave alone, and what they may do to agent-sandbox's read.
LEMMA AgentShape ==
  ASSUME IInv, UNCHANGED <<hookVars, cache>>, APITypeOK', AgentTypeOK', SbStep, RunnerStep
  PROVE  Shape
<1>1. TypeOK' /\ HookProgress'
  BY DEF IInv, TypeOK, HookTypeOK, ControllerTypeOK, HookProgress, hookVars
<1>2. ReadsStep
  BY DEF RunnerStep, ReadsStep, Reads, hookVars
<1> QED
  BY <1>1, <1>2 DEF Shape

LEMMA AgentObserveShape ==
  ASSUME IInv, AgentObserve, UNCHANGED <<hookVars, cache>>
  PROVE  Shape
<1>1. APITypeOK' /\ AgentTypeOK' /\ SbStep /\ RunnerStep
  BY DEF AgentObserve, IInv, TypeOK, APITypeOK, AgentTypeOK, SbStep, RunnerStep, apiVars
<1> QED
  BY <1>1, AgentShape

LEMMA AgentCreatePodShape ==
  ASSUME IInv, AgentCreatePod, UNCHANGED <<hookVars, cache>>
  PROVE  Shape
<1>1. agent \in Sandboxes /\ agent \in Reads /\ agent.mode = "Running"
  BY ReadsAreSandboxes DEF AgentCreatePod, NeedsPod, IInv, Reads
<1>2. agent.podOrder \in OrderIds
  BY <1>1 DEF IInv, InstalledOrder, Sandboxes, OrNil
<1>3. WorkOrderSecretName(agent.uid, agent.podOrder) \in SecretNames
  BY <1>1, <1>2 DEF WorkOrderSecretName, SecretNames, Sandboxes
<1>4. pod' \in Pods /\ pod'.owner = agent.uid
  BY <1>1 DEF AgentCreatePod, Pods, Sandboxes
<1>5. APITypeOK' /\ AgentTypeOK'
  BY <1>3, <1>4 DEF AgentCreatePod, IInv, TypeOK, APITypeOK, AgentTypeOK, OrNil
<1>6. SbStep /\ RunnerStep
  BY <1>1, <1>4 DEF AgentCreatePod, SbStep, RunnerStep
<1> QED
  BY <1>5, <1>6, AgentShape

\* A Pod marked terminating keeps its owner.
LEMMA Terminating ==
  ASSUME NEW p \in Pods, NEW q, q = [p EXCEPT !.terminating = TRUE]
  PROVE  q \in Pods /\ q # Nil /\ q.owner = p.owner
BY APIAssumption DEF Pods

LEMMA AgentDeletePodShape ==
  ASSUME IInv, AgentDeletePod, UNCHANGED <<hookVars, cache>>
  PROVE  Shape
<1>1. pod \in Pods /\ pod # Nil
  BY DEF AgentDeletePod, NeedsNoPod, Owned, IInv, TypeOK, APITypeOK, OrNil
<1>2. pod' \in Pods /\ pod' # Nil /\ pod'.owner = pod.owner
  BY <1>1, Terminating DEF AgentDeletePod
<1>3. APITypeOK' /\ AgentTypeOK' /\ SbStep /\ RunnerStep
  BY <1>1, <1>2 DEF AgentDeletePod, IInv, TypeOK, APITypeOK, AgentTypeOK, SbStep, RunnerStep,
         OrNil
<1> QED
  BY <1>3, AgentShape

\* Observed(s) is s with another status.
LEMMA ObservedFacts ==
  ASSUME NEW s \in Sandboxes
  PROVE  /\ Observed(s) \in Sandboxes
         /\ Observed(s).uid = s.uid /\ Observed(s).rv = s.rv /\ Observed(s).gen = s.gen
         /\ Observed(s).mode = s.mode /\ Observed(s).podOrder = s.podOrder
         /\ Observed(s).lastId = s.lastId /\ Observed(s).lastAttempt = s.lastAttempt
         /\ \/ Observed(s).suspended = 0
            \/ /\ Observed(s).suspended = s.gen
               /\ s.mode = "Suspended"
               /\ ~Owned(pod, s.uid)
<1>1. s.gen \in Nat
  BY DEF Sandboxes
<1> QED
  BY <1>1 DEF Observed, Sandboxes

LEMMA AgentStatusShape ==
  ASSUME IInv, AgentStatus, UNCHANGED <<hookVars, cache>>
  PROVE  Shape
<1>1. agent \in Sandboxes /\ agent \in Reads
  BY ReadsAreSandboxes DEF AgentStatus, IInv, Reads
<1>2. AgentTypeOK' /\ RunnerStep
  BY DEF AgentStatus, IInv, TypeOK, AgentTypeOK, RunnerStep, OrNil
<1>3. CASE sb' = sb
  BY <1>2, <1>3, AgentShape DEF AgentStatus, IInv, TypeOK, APITypeOK, SbStep
<1>4. CASE Current(agent) /\ sb' = Written(Observed(agent))
  <2>1. agent = sb /\ sb # Nil /\ Installed(sb)
    BY <1>1, <1>4, PinnedReadIsCurrent DEF IInv, Current, InstalledOrder, Installed
  <2>2. /\ sb' \in Sandboxes
        /\ sb'.uid = sb.uid /\ sb'.rv = sb.rv + 1 /\ sb'.gen = sb.gen /\ sb'.mode = sb.mode
        /\ sb'.suspended = Observed(sb).suspended
        /\ sb'.lastAttempt = sb.lastAttempt /\ sb'.lastId = sb.lastId
    BY <1>1, <1>4, <2>1, ObservedFacts, WrittenFacts
  <2>3. sb'.podOrder = sb.podOrder
    BY <1>1, <1>4, <2>1, ObservedFacts DEF Written, Sandboxes
  <2>4. StatusRewrite
    BY <1>1, <2>1, <2>2, <2>3, ObservedFacts
       DEF StatusRewrite, Rewrite, Installed, WakesFrom, AcceptsFrom, AgentStatus
  <2> QED
    BY <1>2, <2>2, <2>4, AgentShape DEF AgentStatus, IInv, TypeOK, APITypeOK, SbStep, OrNil
<1> QED
  BY <1>3, <1>4 DEF AgentStatus

\* The Pod goes on, ends, or is marked terminating: nothing else moves.
LEMMA PodEndsShape ==
  ASSUME IInv, UNCHANGED <<hookVars, cache>>, AgentTypeOK', UNCHANGED agent,
         UNCHANGED <<sb, secrets, lastUid, spawned>>,
         \/ pod' \in {pod, Nil}
         \/ pod \in Pods /\ pod' \in Pods /\ pod'.owner = pod.owner
  PROVE  Shape
<1>1. APITypeOK'
  BY DEF IInv, TypeOK, APITypeOK, OrNil
<1>2. SbStep /\ RunnerStep
  BY APIAssumption DEF SbStep, RunnerStep
<1> QED
  BY <1>1, <1>2, AgentShape

LEMMA EnvironmentShape ==
  ASSUME IInv, Environment, UNCHANGED <<hookVars, cache>>
  PROVE  Shape
<1> USE DEF IInv, TypeOK
<1>1. CASE RunnerFinishes
  <2>1. pod \in Pods /\ pod' \in Pods /\ pod'.owner = pod.owner
    BY <1>1 DEF RunnerFinishes, APITypeOK, OrNil, Pods
  <2> QED
    BY <1>1, <2>1, PodEndsShape DEF RunnerFinishes, AgentTypeOK, agentVars
<1>2. CASE PodGone
  BY <1>2, PodEndsShape DEF PodGone, AgentTypeOK, agentVars
<1>3. CASE Cascade
  <2>1. CASE pod # Nil /\ pod' = [pod EXCEPT !.terminating = TRUE]
             /\ UNCHANGED <<agentVars, sb, secrets, lastUid, spawned>>
    <3>1. pod \in Pods /\ pod' \in Pods /\ pod'.owner = pod.owner
      BY <2>1, Terminating DEF APITypeOK, OrNil
    <3> QED
      BY <2>1, <3>1, PodEndsShape DEF AgentTypeOK, agentVars
  <2>2. CASE secrets' \subseteq secrets /\ UNCHANGED <<agentVars, sb, pod, lastUid, spawned>>
    BY <2>2, AgentShape DEF APITypeOK, AgentTypeOK, agentVars, SbStep, RunnerStep
  <2> QED
    BY <1>3, <2>1, <2>2 DEF Cascade
<1>4. CASE Drain
  <2>1. pod \in Pods /\ pod' \in Pods /\ pod'.owner = pod.owner
    BY <1>4, Terminating DEF Drain, APITypeOK, OrNil
  <2>2. AgentTypeOK' /\ UNCHANGED agent
    BY <1>4 DEF Drain, Disrupt, AgentTypeOK
  <2> QED
    BY <1>4, <2>1, <2>2, PodEndsShape DEF Drain
<1>5. CASE OperatorDeletes
  <2> DEFINE t == [sb EXCEPT !.deleting = TRUE]
  <2>1. sb \in Sandboxes /\ sb # Nil /\ sb' = WrittenSpec(t) /\ UNCHANGED lastUid
    BY <1>5 DEF OperatorDeletes, APITypeOK, OrNil
  <2>2. /\ Derived(sb, t) /\ t.mode = sb.mode /\ t.podOrder = sb.podOrder
        /\ t.lastAttempt = sb.lastAttempt /\ t.lastId = sb.lastId
    BY <2>1 DEF Derived, Sandboxes
  <2>3. Installed(t) /\ WakesFrom(sb, t) /\ AcceptsFrom(sb, t)
    BY <2>1, <2>2 DEF Installed, InstalledOrder, WakesFrom, AcceptsFrom
  <2>4. UserRewrite
    BY <2>1, <2>2, <2>3, UserWrite DEF Derived
  <2>5. APITypeOK' /\ AgentTypeOK' /\ RunnerStep
    BY <1>5, <2>4 DEF OperatorDeletes, Disrupt, UserRewrite, Rewrite, APITypeOK, AgentTypeOK,
           RunnerStep, OrNil
  <2> QED
    BY <2>4, <2>5, AgentShape DEF SbStep
<1>6. CASE DeletionCompletes
  BY <1>6, AgentShape
     DEF DeletionCompletes, APITypeOK, AgentTypeOK, agentVars, SbStep, RunnerStep, OrNil
<1>7. CASE ForeignAppears
  <2>1. lastUid + 1 \in Nat
    BY DEF APITypeOK
  <2>2. sb' \in Sandboxes
    BY <1>7, <2>1 DEF ForeignAppears, Sandboxes, OrNil, Modes
  <2>3. Incarnation
    BY <1>7, <2>2 DEF ForeignAppears, Incarnation, Installed
  <2>4. APITypeOK' /\ AgentTypeOK' /\ RunnerStep
    BY <1>7, <2>1, <2>2 DEF ForeignAppears, Disrupt, APITypeOK, AgentTypeOK, RunnerStep, OrNil
  <2> QED
    BY <1>7, <2>3, <2>4, AgentShape DEF SbStep
<1> QED
  BY <1>1, <1>2, <1>3, <1>4, <1>5, <1>6, <1>7 DEF Environment

\* Every step has one of the shapes.
LEMMA NextShape ==
  ASSUME IInv, Next
  PROVE  Shape
<1>1. CASE HookNext /\ UNCHANGED <<cache, agentVars>>
  BY <1>1, HookNextShape
<1>2. CASE ControllerNext /\ UNCHANGED <<hookVars, agentVars>>
  BY <1>2, ReconcileShape, CacheSyncShape DEF ControllerNext
<1>3. CASE AgentNext /\ UNCHANGED <<hookVars, cache>>
  BY <1>3, AgentObserveShape, AgentCreatePodShape, AgentDeletePodShape, AgentStatusShape,
     EnvironmentShape DEF AgentNext, AgentStep
<1> QED
  BY <1>1, <1>2, <1>3 DEF Next

-----------------------------------------------------------------------------
(***************************************************************************)
(* The shapes keep the invariant.                                          *)
(***************************************************************************)

\* A Sandbox only ever gets the next UID, and keeps it.
LEMMA NewestUidKept == ASSUME IInv, Shape PROVE NewestUid'
<1>1. sb' # Nil => sb'.uid = lastUid'
  BY DEF IInv, NewestUid, Shape, SbStep, Incarnation, UserRewrite, StatusRewrite, Rewrite
<1> QED
  BY <1>1 DEF NewestUid

\* What was read gets older; what is read now is the object.
LEMMA DatedReadsKept == ASSUME IInv, Shape PROVE DatedReads'
<1>1. SUFFICES ASSUME NEW s \in Reads'
               PROVE  /\ s.uid <= lastUid'
                      /\ sb' # Nil /\ s.uid = sb'.uid => s.rv < sb'.rv \/ s = sb'
  BY DEF DatedReads, Dated
<1>2. TypeOK /\ NewestUid /\ DatedReads /\ SbStep /\ TypeOK' /\ NewestUid'
  BY NewestUidKept DEF IInv, Shape
<1>3. s # Nil /\ s \in Reads \cup {sb, sb'}
  BY DEF Shape, ReadsStep, Reads
<1>4. lastUid \in Nat /\ lastUid' \in Nat /\ sb \in OrNil(Sandboxes) /\ sb' \in OrNil(Sandboxes)
  BY <1>2 DEF TypeOK, APITypeOK
<1>5. CASE s = sb'
  BY <1>2, <1>3, <1>4, <1>5 DEF NewestUid, OrNil, Sandboxes
<1>6. CASE s = sb /\ s # sb'
  BY <1>2, <1>3, <1>4, <1>6
     DEF NewestUid, OrNil, Sandboxes, SbStep, Incarnation, UserRewrite, StatusRewrite, Rewrite
<1>7. CASE s \in Reads
  <2>1. s \in Sandboxes
    BY <1>2, <1>7, ReadsAreSandboxes
  <2>2. s.uid <= lastUid /\ (sb # Nil /\ s.uid = sb.uid => s.rv < sb.rv \/ s = sb)
    BY <1>2, <1>7 DEF DatedReads, Dated
  <2>3. CASE UNCHANGED <<sb, lastUid>> \/ (sb' = Nil /\ UNCHANGED lastUid)
    BY <2>2, <2>3
  <2>4. CASE Incarnation
    BY <1>4, <2>1, <2>2, <2>4 DEF Incarnation, Sandboxes
  <2>5. CASE Rewrite
    BY <1>4, <2>1, <2>2, <2>5 DEF Rewrite, Sandboxes, OrNil
  <2> QED
    BY <1>2, <2>3, <2>4, <2>5 DEF SbStep, UserRewrite, StatusRewrite
<1> QED
  BY <1>3, <1>5, <1>6, <1>7

LEMMA HonestStatusKept == ASSUME IInv, Shape PROVE HonestStatus'
<1>1. HonestStatus /\ SbStep /\ sb \in OrNil(Sandboxes)
  BY DEF IInv, TypeOK, APITypeOK, Shape
<1>2. sb' # Nil => /\ sb'.gen > 0
                   /\ sb'.suspended <= sb'.gen
                   /\ sb'.suspended = sb'.gen => sb'.mode = "Suspended"
  BY <1>1 DEF HonestStatus, SuspensionConfirmed, SbStep, Incarnation, UserRewrite,
         StatusRewrite, Rewrite, OrNil, Sandboxes
<1> QED
  BY <1>2 DEF HonestStatus, SuspensionConfirmed

LEMMA InstalledOrderKept == ASSUME IInv, Shape PROVE InstalledOrder'
<1>1. \A s \in Reads \cup ({sb} \ {Nil}) : Installed(s)
  BY DEF IInv, InstalledOrder, Installed
<1>2. sb' # Nil => Installed(sb')
  BY <1>1 DEF Shape, SbStep, Incarnation, UserRewrite, StatusRewrite, Rewrite
<1>3. \A s \in Reads' \cup ({sb'} \ {Nil}) : Installed(s)
  BY <1>1, <1>2 DEF Shape, ReadsStep, Reads
<1> QED
  BY <1>3 DEF InstalledOrder, Installed

\* The heart of it: a Suspended=True for the current generation was written with no Pod
\* in sight, from a read that is gone since, and whatever changes the mode moves the
\* generation past it.
LEMMA WakeGateKept == ASSUME IInv, Shape PROVE WakeGate'
<1>1. SUFFICES ASSUME sb' # Nil, sb'.suspended = sb'.gen
               PROVE  /\ ~Owned(pod', sb'.uid)
                      /\ ~(agent' # Nil /\ agent'.uid = sb'.uid /\ agent'.mode = "Running")
  BY DEF WakeGate, SuspensionConfirmed, Owned
<1>2. HonestStatus /\ WakeGate /\ SbStep /\ RunnerStep /\ sb \in OrNil(Sandboxes)
  BY DEF IInv, TypeOK, APITypeOK, Shape
<1>3. \/ sb # Nil /\ sb'.uid = sb.uid /\ sb.suspended = sb.gen
      \/ /\ StatusRewrite
         /\ ~Owned(pod, sb.uid) /\ pod' = pod /\ agent' = Nil
  BY <1>1, <1>2 DEF SbStep, Incarnation, UserRewrite, StatusRewrite, Rewrite, HonestStatus,
         OrNil, Sandboxes
<1>4. CASE sb # Nil /\ sb'.uid = sb.uid /\ sb.suspended = sb.gen
  <2>1. /\ sb.mode = "Suspended"
        /\ ~Owned(pod, sb.uid)
        /\ ~(agent # Nil /\ agent.uid = sb.uid /\ agent.mode = "Running")
    BY <1>2, <1>4 DEF HonestStatus, WakeGate, SuspensionConfirmed
  <2> QED
    BY <1>2, <1>4, <2>1 DEF RunnerStep, Owned
<1>5. CASE StatusRewrite /\ ~Owned(pod, sb.uid) /\ pod' = pod /\ agent' = Nil
  BY <1>5 DEF StatusRewrite, Rewrite, Owned
<1> QED
  BY <1>3, <1>4, <1>5

-----------------------------------------------------------------------------
(***************************************************************************)
(* The theorems.                                                           *)
(***************************************************************************)

LEMMA InitIInv == Init => IInv
<1> SUFFICES ASSUME Init PROVE IInv
  OBVIOUS
<1> USE DEF Init, APIInit, HookInit, ControllerInit, AgentInit
<1>1. TypeOK
  BY DEF TypeOK, APITypeOK, HookTypeOK, ControllerTypeOK, AgentTypeOK, Idle, Invocation, PCs,
         Caches, OrNil
<1>2. Reads = {}
  BY DEF Reads, Idle
<1>3. NewestUid /\ HonestStatus /\ WakeGate
  BY DEF NewestUid, HonestStatus, WakeGate
<1>4. DatedReads /\ InstalledOrder
  BY <1>2 DEF DatedReads, InstalledOrder
<1>5. HookProgress
  BY DEF HookProgress, Idle
<1> QED
  BY <1>1, <1>3, <1>4, <1>5 DEF IInv

LEMMA NextIInv == IInv /\ [Next]_vars => IInv'
<1> SUFFICES ASSUME IInv, [Next]_vars PROVE IInv'
  OBVIOUS
<1>1. CASE Next
  BY <1>1, NextShape, NewestUidKept, DatedReadsKept, HonestStatusKept, InstalledOrderKept,
     WakeGateKept DEF IInv, Shape
<1>2. CASE UNCHANGED vars
  <2> USE <1>2 DEF vars, apiVars, hookVars, agentVars
  <2>1. TypeOK'
    BY DEF IInv, TypeOK, APITypeOK, HookTypeOK, ControllerTypeOK, AgentTypeOK
  <2>2. Reads' = Reads
    BY DEF Reads
  <2>3. DatedReads' /\ InstalledOrder'
    BY <2>2 DEF IInv, DatedReads, Dated, InstalledOrder
  <2>4. NewestUid' /\ HonestStatus' /\ WakeGate' /\ HookProgress'
    BY DEF IInv, NewestUid, HonestStatus, WakeGate, HookProgress, SuspensionConfirmed, Owned
  <2> QED
    BY <2>1, <2>3, <2>4 DEF IInv
<1> QED
  BY <1>1, <1>2

\* IInv is inductive, so it holds in every reachable state.
THEOREM Invariance == Spec => []IInv
BY InitIInv, NextIInv, PTL DEF Spec

\* Every variable keeps its type, whatever hooks, controllers and agent-sandbox do.
THEOREM TypeCorrect == Spec => []TypeOK
<1>1. IInv => TypeOK
  BY DEF IInv
<1> QED
  BY <1>1, Invariance, PTL

\* A confirmed suspension means that no Pod is left or on its way: what Wake and GC rely
\* on (reconciler.go wake, idleSince).
THEOREM GateHolds == Spec => []WakeGate
<1>1. IInv => WakeGate
  BY DEF IInv
<1> QED
  BY <1>1, Invariance, PTL

\* Two runners never share a workspace (reconciler.go wake; shock-spec section 7).
THEOREM WakesStopped == Spec => WakesOnlyWhenStopped
<1>1. ASSUME IInv, [Next]_vars, sb # Nil, sb' # Nil, sb'.uid = sb.uid,
             sb.mode # "Running", sb'.mode = "Running"
      PROVE  /\ ~Owned(pod, sb.uid)
             /\ ~(agent # Nil /\ agent.uid = sb.uid /\ agent.mode = "Running")
  <2>1. sb' # sb
    BY <1>1
  <2>2. SbStep
    BY <1>1, <2>1, NextShape DEF vars, apiVars, Shape
  <2>3. Rewrite
    BY <1>1, <2>1, <2>2 DEF SbStep, Incarnation, UserRewrite, StatusRewrite
  <2> QED
    BY <1>1, <2>3 DEF Rewrite, WakesFrom, IInv, WakeGate
<1>2. IInv /\ [Next]_vars =>
        [sb # Nil /\ sb' # Nil /\ sb'.uid = sb.uid /\ sb.mode # "Running" /\ sb'.mode = "Running" =>
           /\ ~Owned(pod, sb.uid)
           /\ ~(agent # Nil /\ agent.uid = sb.uid /\ agent.mode = "Running")]_sb
  BY <1>1
<1> QED
  BY <1>2, Invariance, PTL DEF Spec, WakesOnlyWhenStopped

\* Racing hooks never take a Sandbox back to an older order, nor accept two orders at one
\* attempt (hook.go evaluate, publishNewer).
THEOREM AcceptanceOnlyGrows == Spec => AcceptanceMonotone
<1>1. ASSUME IInv, [Next]_vars, sb # Nil, sb' # Nil, sb'.uid = sb.uid, sb' # sb
      PROVE  \/ sb'.lastAttempt > sb.lastAttempt
             \/ sb'.lastAttempt = sb.lastAttempt /\ sb'.lastId = sb.lastId
  <2>1. SbStep
    BY <1>1, NextShape DEF vars, apiVars, Shape
  <2>2. Rewrite
    BY <1>1, <2>1 DEF SbStep, Incarnation, UserRewrite, StatusRewrite
  <2> QED
    BY <2>2 DEF Rewrite, AcceptsFrom
<1>2. IInv /\ [Next]_vars =>
        [sb # Nil /\ sb' # Nil /\ sb'.uid = sb.uid =>
           \/ sb'.lastAttempt > sb.lastAttempt
           \/ sb'.lastAttempt = sb.lastAttempt /\ sb'.lastId = sb.lastId]_sb
  BY <1>1
<1> QED
  BY <1>2, Invariance, PTL DEF Spec, AcceptanceMonotone
=============================================================================
