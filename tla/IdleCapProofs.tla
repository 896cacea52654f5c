---------------------------- MODULE IdleCapProofs ----------------------------
(***************************************************************************)
(* IdleInv is an invariant of Spec and NewestKept follows, for any number  *)
(* of sessions and replicas, any clock and any GCMaxIdleSessions.          *)
(*                                                                         *)
(* The point is the delete.  It takes z from the sleepers later than some  *)
(* x that another replica is about to delete; but z itself had             *)
(* MaxIdleSessions sleepers after it, and they are later than x too.       *)
(***************************************************************************)
EXTENDS IdleCap, FiniteSetTheorems, TLAPS

\* SleptAfter is a strict order on (time, name).
LEMMA SleptAfterOrders ==
  /\ \A a \in Times, x \in Sessions : ~SleptAfter(a, x, a, x)
  /\ \A a, b, d \in Times, x, y, z \in Sessions :
       SleptAfter(a, x, b, y) /\ SleptAfter(b, y, d, z) => SleptAfter(a, x, d, z)
<1>1. Times \subseteq Int /\ Sessions \subseteq Int
  BY IdleCapAssumption DEF Times, Never
<1>2. \A a \in Int, x \in Int : ~SleptAfter(a, x, a, x)
  BY DEF SleptAfter
<1>3. \A a, b, d, x, y, z \in Int :
        SleptAfter(a, x, b, y) /\ SleptAfter(b, y, d, z) => SleptAfter(a, x, d, z)
  BY DEF SleptAfter
<1> QED
  BY <1>1, <1>2, <1>3

\* The counts are numbers, and a larger set has no smaller one.
LEMMA Counts ==
  ASSUME NEW S \in SUBSET Sessions, NEW T \in SUBSET S
  PROVE  Cardinality(T) \in Nat /\ Cardinality(S) \in Nat /\ Cardinality(T) <= Cardinality(S)
<1>1. IsFiniteSet(S)
  BY IdleCapAssumption, FS_Subset
<1> QED
  BY <1>1, FS_Subset, FS_CardinalityType

\* Surplus survives whatever takes nobody away from those who slept later.
LEMMA SurplusGrows ==
  ASSUME NEW x \in Sessions, Surplus(x), SleptLater(x) \subseteq SleptLater(x)'
  PROVE  Surplus(x)'
<1>1. SleptLater(x)' \in SUBSET Sessions
  BY DEF SleptLater
<1>2. Cardinality(SleptLater(x)) <= Cardinality(SleptLater(x)')
      /\ Cardinality(SleptLater(x)) \in Nat /\ Cardinality(SleptLater(x)') \in Nat
  BY <1>1, Counts
<1> QED
  BY <1>2, IdleCapAssumption DEF Surplus

\* What a cache lists while it is in step with the Sandboxes counts.
LEMMA FreshListCounts ==
  ASSUME IdleInv, NEW x \in Victims(ViewOf)
  PROVE  x \in Idle /\ Surplus(x)
<1>1. x \in Sessions /\ ViewOf[x].idle # Never
      /\ Cardinality(NewerIn(ViewOf, x)) >= MaxIdleSessions
  BY DEF Victims
<1>2. \A y \in Sessions : ViewOf[y].idle = IdleSince(boxes[y])
  BY DEF ViewOf
<1>3. \A y \in Sessions : IdleSince(boxes[y]) # Never =>
        y \in Idle /\ IdleSince(boxes[y]) = slept[y] /\ y \notin capped
  BY DEF IdleSince, Idle, IdleInv, SleepTimes
<1>4. NewerIn(ViewOf, x) \subseteq SleptLater(x)
  BY <1>1, <1>2, <1>3 DEF NewerIn, SleptLater
<1>5. SleptLater(x) \in SUBSET Sessions
  BY DEF SleptLater
<1>6. Cardinality(NewerIn(ViewOf, x)) <= Cardinality(SleptLater(x))
      /\ Cardinality(NewerIn(ViewOf, x)) \in Nat /\ Cardinality(SleptLater(x)) \in Nat
  BY <1>4, <1>5, Counts
<1> QED
  BY <1>1, <1>2, <1>3, <1>6, IdleCapAssumption DEF Surplus

-----------------------------------------------------------------------------
(***************************************************************************)
(* A write to z leaves every other Sandbox, cached entry and job alone.    *)
(***************************************************************************)

WriteShape(z, b) ==
  /\ boxes' \in [Sessions -> Boxes] /\ boxes'[z] = b
  /\ \A x \in Sessions \ {z} : boxes'[x] = boxes[x]
  /\ cache' \in [Replicas -> [Sessions -> Views]]
  /\ jobs' \in [Replicas -> Jobs]
  /\ \A c \in Replicas, x \in Sessions :
       /\ cache'[c][x].idle = cache[c][x].idle
       /\ cache'[c][x].current <=> cache[c][x].current /\ x # z
  /\ \A c \in Replicas :
       \/ jobs'[c] = NoJob
       \/ /\ jobs'[c].pc = jobs[c].pc
          /\ jobs'[c].session = jobs[c].session
          /\ jobs'[c].reason = jobs[c].reason
          /\ jobs'[c].current <=> jobs[c].current /\ jobs[c].session # z

LEMMA WriteFacts ==
  ASSUME IdleTypeOK, NEW z \in Sessions, NEW b \in Boxes,
         boxes' = [boxes EXCEPT ![z] = b], cache' = UnpinnedCaches(z),
         jobs' = UnpinnedJobs(z) \/ \E c \in Replicas : jobs' = [UnpinnedJobs(z) EXCEPT ![c] = NoJob]
  PROVE  WriteShape(z, b)
<1>1. boxes' \in [Sessions -> Boxes] /\ boxes'[z] = b
      /\ \A x \in Sessions \ {z} : boxes'[x] = boxes[x]
  BY DEF IdleTypeOK
<1>2. /\ cache' \in [Replicas -> [Sessions -> Views]]
      /\ \A c \in Replicas, x \in Sessions :
           /\ cache'[c][x].idle = cache[c][x].idle
           /\ cache'[c][x].current <=> cache[c][x].current /\ x # z
  <2>1. \A c \in Replicas : cache[c] \in [Sessions -> Views]
    BY DEF IdleTypeOK
  <2>2. \A c \in Replicas : cache'[c] = [cache[c] EXCEPT ![z].current = FALSE]
    BY DEF UnpinnedCaches
  <2>3. ASSUME NEW c \in Replicas
        PROVE  /\ cache'[c] \in [Sessions -> Views]
               /\ \A x \in Sessions :
                    /\ cache'[c][x].idle = cache[c][x].idle
                    /\ cache'[c][x].current <=> cache[c][x].current /\ x # z
    <3>1. \A x \in Sessions :
            cache'[c][x] = IF x = z THEN [cache[c][z] EXCEPT !.current = FALSE] ELSE cache[c][x]
      BY <2>1, <2>2
    <3>2. /\ DOMAIN cache'[c] = Sessions
          /\ cache'[c] = [x \in Sessions |-> cache'[c][x]]
      BY <2>1, <2>2
    <3>3. \A x \in Sessions : cache[c][x] \in Views
      BY <2>1
    <3>4. \A x \in Sessions :
            /\ cache'[c][x] \in Views
            /\ cache'[c][x].idle = cache[c][x].idle
            /\ cache'[c][x].current <=> cache[c][x].current /\ x # z
      BY <3>1, <3>3 DEF Views
    <3> QED
      BY <3>2, <3>4
  <2>4. cache' = [c \in Replicas |-> [cache[c] EXCEPT ![z].current = FALSE]]
    BY DEF UnpinnedCaches
  <2> QED
    BY <2>2, <2>3, <2>4
<1>3. /\ jobs' \in [Replicas -> Jobs]
      /\ \A c \in Replicas :
           \/ jobs'[c] = NoJob
           \/ /\ jobs'[c].pc = jobs[c].pc
              /\ jobs'[c].session = jobs[c].session
              /\ jobs'[c].reason = jobs[c].reason
              /\ jobs'[c].current <=> jobs[c].current /\ jobs[c].session # z
  <2> DEFINE left == UnpinnedJobs(z)
  <2>1. \A c \in Replicas : jobs[c] \in Jobs
    BY DEF IdleTypeOK
  <2>2. left = [c \in Replicas |-> [jobs[c] EXCEPT !.current = @ /\ jobs[c].session # z]]
    BY DEF UnpinnedJobs
  <2>3. /\ left \in [Replicas -> Jobs]
        /\ \A c \in Replicas :
             /\ left[c].pc = jobs[c].pc
             /\ left[c].session = jobs[c].session
             /\ left[c].reason = jobs[c].reason
             /\ left[c].current <=> jobs[c].current /\ jobs[c].session # z
    <3>1. ASSUME NEW c \in Replicas
          PROVE  /\ left[c] \in Jobs
                 /\ left[c].pc = jobs[c].pc
                 /\ left[c].session = jobs[c].session
                 /\ left[c].reason = jobs[c].reason
                 /\ left[c].current <=> jobs[c].current /\ jobs[c].session # z
      <4> DEFINE pin == jobs[c].current /\ jobs[c].session # z
      <4>1. left[c] = [jobs[c] EXCEPT !.current = pin]
        BY <2>2
      <4>2. pin \in BOOLEAN
        BY <2>1 DEF Jobs
      <4> HIDE DEF pin, left
      <4>3. left[c] \in Jobs /\ (left[c].current <=> pin)
        BY <2>1, <4>1, <4>2 DEF Jobs
      <4>4. left[c].pc = jobs[c].pc /\ left[c].session = jobs[c].session
            /\ left[c].reason = jobs[c].reason
        BY <2>1, <4>1 DEF Jobs
      <4> QED
        BY <4>3, <4>4 DEF pin
    <3> QED
      BY <2>2, <3>1
  <2>4. NoJob \in Jobs
    BY DEF NoJob, Jobs, Never
  <2> HIDE DEF left
  <2>5. CASE jobs' = left
    BY <2>3, <2>5
  <2>6. CASE \E c \in Replicas : jobs' = [left EXCEPT ![c] = NoJob]
    BY <2>3, <2>4, <2>6
  <2> QED
    BY <2>5, <2>6 DEF left
<1> QED
  BY <1>1, <1>2, <1>3 DEF WriteShape

\* Victims are told by what the list says of sleep times only.
LEMMA VictimsByTimes ==
  ASSUME NEW v, NEW w, \A x \in Sessions : v[x].idle = w[x].idle
  PROVE  Victims(v) = Victims(w)
<1>1. \A x \in Sessions : NewerIn(v, x) = NewerIn(w, x)
  BY DEF NewerIn
<1> QED
  BY <1>1 DEF Victims

\* A write to z that takes nobody's surplus keeps the caches and jobs counting.
LEMMA WriteKeepsCounts ==
  ASSUME IdleInv, NEW z \in Sessions, NEW b \in Boxes, WriteShape(z, b), now' = now,
         \A x \in Sessions \ {z} : x \in Idle /\ Surplus(x) => Surplus(x)'
  PROVE  CachesCount' /\ JobsCount'
<1> USE DEF IdleInv, WriteShape
<1>1. \A c \in Replicas : Victims(cache'[c]) = Victims(cache[c])
  BY VictimsByTimes
<1>2. \A x \in Sessions \ {z} : (x \in Idle)' <=> x \in Idle
  BY DEF Idle
<1>3. \A c \in Replicas : \A x \in Victims(cache[c]) :
        x \in Sessions /\ (cache[c][x].current => x \in Idle)
  BY DEF Victims, CachesCount, IdleSince, Idle
<1>4. CachesCount'
  <2> SUFFICES ASSUME NEW c \in Replicas, NEW x \in Sessions, cache'[c][x].current
               PROVE  /\ cache'[c][x].idle = IdleSince(boxes'[x])
                      /\ boxes'[x].state # "none"
                      /\ x \in Victims(cache'[c]) => Surplus(x)'
    BY DEF CachesCount, Victims, NewerIn, IdleSince
  <2>1. x # z /\ cache[c][x].current /\ boxes'[x] = boxes[x]
        /\ cache'[c][x].idle = cache[c][x].idle
    OBVIOUS
  <2>2. cache'[c][x].idle = IdleSince(boxes'[x]) /\ boxes'[x].state # "none"
    BY <2>1 DEF CachesCount
  <2>3. ASSUME x \in Victims(cache'[c]) PROVE Surplus(x)'
    BY <1>1, <1>3, <2>1, <2>3 DEF CachesCount
  <2> QED
    BY <2>2, <2>3
<1>5. JobsCount'
  <2> SUFFICES ASSUME NEW c \in Replicas, NEW x, x = jobs'[c].session,
                      jobs'[c].pc # "none", jobs'[c].current
               PROVE  /\ x \in Idle'
                      /\ jobs'[c].pc = "list" => cache'[c][x].current
                      /\ jobs'[c].pc = "delete" =>
                           \/ jobs'[c].reason = "age" /\ now' - boxes'[x].at >= MaxIdleAge
                           \/ jobs'[c].reason = "cap" /\ Surplus(x)'
    BY DEF JobsCount, Surplus, SleptLater, Idle
  <2>1. /\ jobs[c].pc # "none" /\ jobs[c].current /\ x # z
        /\ jobs[c].session = x /\ jobs'[c].pc = jobs[c].pc /\ jobs'[c].reason = jobs[c].reason
    BY DEF NoJob
  <2>2. /\ x \in Idle
        /\ jobs[c].pc = "list" => cache[c][x].current
        /\ jobs[c].pc = "delete" =>
             \/ jobs[c].reason = "age" /\ now - boxes[x].at >= MaxIdleAge
             \/ jobs[c].reason = "cap" /\ Surplus(x)
    BY <2>1 DEF JobsCount
  <2>3. x \in Sessions /\ boxes'[x] = boxes[x] /\ x \in Idle'
    BY <1>2, <2>1, <2>2 DEF Idle
  <2>4. jobs[c].pc = "list" => cache'[c][x].current
    BY <2>1, <2>2, <2>3
  <2>5. jobs[c].pc = "delete" =>
          \/ jobs[c].reason = "age" /\ now' - boxes'[x].at >= MaxIdleAge
          \/ jobs[c].reason = "cap" /\ Surplus(x)'
    BY <2>1, <2>2, <2>3
  <2> QED
    BY <2>1, <2>3, <2>4, <2>5
<1> QED
  BY <1>4, <1>5

-----------------------------------------------------------------------------
(***************************************************************************)
(* The writes.                                                             *)
(***************************************************************************)

\* Nothing of the history moves: who slept later is as it was.
LEMMA SameHistory ==
  ASSUME UNCHANGED <<slept, capped>>
  PROVE  \A x \in Sessions : Surplus(x) => Surplus(x)'
BY DEF Surplus, SleptLater

LEMMA SleepStep ==
  ASSUME IdleInv, NEW z \in Sessions, Sleep(z)
  PROVE  IdleInv'
<1> DEFINE b == [state |-> "falling", at |-> now]
<1>1. b \in Boxes /\ b.state = "falling" /\ b.at = now
  BY DEF IdleInv, IdleTypeOK, Boxes, Times
<1>2. WriteShape(z, b) /\ UNCHANGED <<now, stirs, slept, capped>>
  BY <1>1, WriteFacts DEF Sleep, Writes, IdleInv
<1> HIDE DEF b
<1>3. \A x \in Sessions : boxes'[x] = IF x = z THEN b ELSE boxes[x]
  BY <1>2 DEF WriteShape
<1>4. IdleTypeOK'
  BY <1>2 DEF WriteShape, IdleInv, IdleTypeOK
<1>5. SleepTimes'
  BY <1>1, <1>2, <1>3 DEF IdleInv, IdleTypeOK, SleepTimes, Idle
<1>6. CachesCount' /\ JobsCount'
  BY <1>1, <1>2, SameHistory, WriteKeepsCounts
<1> QED
  BY <1>4, <1>5, <1>6 DEF IdleInv

LEMMA ConfirmStep ==
  ASSUME IdleInv, NEW z \in Sessions, Confirm(z)
  PROVE  IdleInv'
<1> DEFINE b == [boxes[z] EXCEPT !.state = "asleep"]
<1>0. boxes[z] \in Boxes
  BY DEF IdleInv, IdleTypeOK
<1>1. b \in Boxes /\ b.state = "asleep" /\ b.at = boxes[z].at
  BY <1>0 DEF Boxes
<1>2. WriteShape(z, b) /\ UNCHANGED <<now, stirs>> /\ capped' = capped \ {z}
  BY <1>1, WriteFacts DEF Confirm, Writes, IdleInv
<1> HIDE DEF b
<1>3. boxes[z].at \in Nat /\ slept[z] <= boxes[z].at /\ boxes[z].at <= now
  BY DEF Confirm, IdleInv, SleepTimes
<1>4. /\ slept' \in [Sessions -> Times]
      /\ \A x \in Sessions : slept'[x] = IF x = z THEN boxes[z].at ELSE slept[x]
  BY <1>3 DEF Confirm, IdleInv, IdleTypeOK, Times
<1>5. \A x \in Sessions : boxes'[x] = IF x = z THEN b ELSE boxes[x]
  BY <1>2 DEF WriteShape
<1>6. IdleTypeOK'
  BY <1>2, <1>4 DEF WriteShape, IdleInv, IdleTypeOK
<1>7. SleepTimes'
  BY <1>1, <1>2, <1>3, <1>4, <1>5 DEF IdleInv, IdleTypeOK, SleepTimes, Idle
<1>8. ASSUME NEW x \in Sessions \ {z}, Surplus(x)
      PROVE  Surplus(x)'
  <2>1. \A y \in Sessions : slept[y] \in Int /\ slept'[y] \in Int /\ slept'[y] >= slept[y]
                          /\ (slept[y] # Never => slept'[y] # Never)
    BY <1>3, <1>4 DEF IdleInv, IdleTypeOK, Times, Never
  <2>2. slept'[x] = slept[x] /\ capped' \subseteq capped
    BY <1>2, <1>4
  <2>3. \A y \in Sessions : SleptAfter(slept[y], y, slept[x], x) =>
          SleptAfter(slept'[y], y, slept[x], x)
    BY <2>1 DEF SleptAfter
  <2>4. SleptLater(x) \subseteq SleptLater(x)'
    BY <2>1, <2>2, <2>3 DEF SleptLater
  <2> QED
    BY <1>8, <2>4, SurplusGrows
<1>9. CachesCount' /\ JobsCount'
  BY <1>1, <1>2, <1>8, WriteKeepsCounts
<1> QED
  BY <1>6, <1>7, <1>9 DEF IdleInv

LEMMA OrderStep ==
  ASSUME IdleInv, NEW z \in Sessions, Order(z)
  PROVE  IdleInv'
<1> DEFINE b == [state |-> "busy", at |-> Never]
<1>1. b \in Boxes /\ b.state = "busy"
  BY DEF Boxes, Times
<1>2. /\ WriteShape(z, b)
      /\ UNCHANGED <<now, slept, capped>> /\ stirs' = stirs + 1
  BY <1>1, WriteFacts DEF Order, Writes, IdleInv
<1> HIDE DEF b
<1>3. \A x \in Sessions : boxes'[x] = IF x = z THEN b ELSE boxes[x]
  BY <1>2 DEF WriteShape
<1>4. IdleTypeOK'
  BY <1>2 DEF WriteShape, IdleInv, IdleTypeOK
<1>5. SleepTimes'
  BY <1>1, <1>2, <1>3 DEF IdleInv, SleepTimes, Idle
<1>6. CachesCount' /\ JobsCount'
  BY <1>1, <1>2, SameHistory, WriteKeepsCounts
<1> QED
  BY <1>4, <1>5, <1>6 DEF IdleInv

LEMMA StatusWriteStep ==
  ASSUME IdleInv, NEW z \in Sessions, StatusWrite(z)
  PROVE  IdleInv'
<1>1. boxes[z] \in Boxes
  BY DEF IdleInv, IdleTypeOK
<1>2. /\ WriteShape(z, boxes[z])
      /\ UNCHANGED <<now, slept, capped>> /\ stirs' = stirs + 1
  BY <1>1, WriteFacts DEF StatusWrite, Writes, IdleInv
<1>3. \A x \in Sessions : boxes'[x] = boxes[x]
  BY <1>2 DEF WriteShape
<1>4. IdleTypeOK'
  BY <1>2 DEF WriteShape, IdleInv, IdleTypeOK
<1>5. SleepTimes'
  BY <1>2, <1>3 DEF IdleInv, SleepTimes, Idle
<1>6. CachesCount' /\ JobsCount'
  BY <1>1, <1>2, SameHistory, WriteKeepsCounts
<1> QED
  BY <1>4, <1>5, <1>6 DEF IdleInv

-----------------------------------------------------------------------------
(***************************************************************************)
(* The delete.                                                             *)
(***************************************************************************)

\* What a delete that lands was decided on.
LEMMA DeleteReads ==
  ASSUME IdleInv, NEW c \in Replicas, Delete(c)
  PROVE  LET z == jobs[c].session IN
         /\ z \in Idle
         /\ \/ jobs[c].reason = "age" /\ now - boxes[z].at >= MaxIdleAge
            \/ jobs[c].reason = "cap" /\ Surplus(z)
BY DEF Delete, PinHolds, IdleInv, JobsCount

\* Taking z by the cap leaves x its surplus: whoever slept later than z takes its place.
LEMMA CapLeavesSurplus ==
  ASSUME IdleInv, NEW z \in Idle, Surplus(z), NEW x \in Sessions \ {z}, Surplus(x),
         slept' = slept, capped' = capped \cup {z}
  PROVE  Surplus(x)'
<1>0. \A y \in Sessions : slept[y] \in Times
  BY DEF IdleInv, IdleTypeOK
<1>1. z \in Sessions /\ ~SleptAfter(slept[z], z, slept[z], z)
  BY <1>0, SleptAfterOrders DEF Idle
<1>2. CASE z \in SleptLater(x)
  <2>1. SleptLater(z) \subseteq SleptLater(x)'
    BY <1>0, <1>1, <1>2, SleptAfterOrders DEF SleptLater
  <2>2. SleptLater(x)' \in SUBSET Sessions
    BY DEF SleptLater
  <2>3. Cardinality(SleptLater(z)) <= Cardinality(SleptLater(x)')
        /\ Cardinality(SleptLater(z)) \in Nat /\ Cardinality(SleptLater(x)') \in Nat
    BY <2>1, <2>2, Counts
  <2> QED
    BY <2>3, IdleCapAssumption DEF Surplus
<1>3. CASE z \notin SleptLater(x)
  <2>1. SleptLater(x) \subseteq SleptLater(x)'
    BY <1>3 DEF SleptLater
  <2> QED
    BY <2>1, SurplusGrows
<1> QED
  BY <1>2, <1>3

LEMMA DeleteStep ==
  ASSUME IdleInv, NEW c \in Replicas, Delete(c)
  PROVE  IdleInv'
<1> DEFINE z == jobs[c].session
           b == [state |-> "none", at |-> Never]
<1>1. z \in Idle /\ z \in Sessions /\ (jobs[c].reason = "cap" => Surplus(z))
  BY DeleteReads DEF Idle
<1>2. b \in Boxes
  BY DEF Boxes, Times
<1>3. WriteShape(z, b)
  BY <1>1, <1>2, WriteFacts DEF Delete, IdleInv
<1>4. UNCHANGED <<now, slept, stirs>> /\ capped' \in {capped, capped \cup {z}}
      /\ (capped' # capped => Surplus(z))
  BY <1>1 DEF Delete
<1> HIDE DEF z, b
<1>5. IdleTypeOK'
  BY <1>1, <1>3, <1>4 DEF WriteShape, IdleInv, IdleTypeOK
<1>6. SleepTimes'
  <2>1. \A x \in Sessions : boxes'[x] = IF x = z THEN b ELSE boxes[x]
    BY <1>3 DEF WriteShape
  <2>2. b.state = "none"
    BY DEF b
  <2> QED
    BY <1>4, <2>1, <2>2 DEF IdleInv, SleepTimes, Idle
<1>7. ASSUME NEW x \in Sessions \ {z}, Surplus(x)
      PROVE  Surplus(x)'
  <2>1. CASE capped' = capped
    BY <1>4, <1>7, <2>1, SameHistory
  <2>2. CASE capped' = capped \cup {z} /\ Surplus(z)
    BY <1>1, <1>4, <1>7, <2>2, CapLeavesSurplus
  <2> QED
    BY <1>4, <2>1, <2>2
<1>8. CachesCount' /\ JobsCount'
  BY <1>1, <1>2, <1>3, <1>4, <1>7, WriteKeepsCounts
<1> QED
  BY <1>5, <1>6, <1>8 DEF IdleInv

-----------------------------------------------------------------------------
(***************************************************************************)
(* The steps that write no Sandbox.                                        *)
(***************************************************************************)

LEMMA TickStep ==
  ASSUME IdleInv, Tick
  PROVE  IdleInv'
<1>1. /\ now \in Nat /\ now' = now + 1
      /\ UNCHANGED <<boxes, cache, jobs, stirs, slept, capped>>
  BY DEF Tick, IdleInv, IdleTypeOK
<1>2. IdleTypeOK'
  BY <1>1 DEF IdleInv, IdleTypeOK
<1>3. \A x \in Sessions : slept[x] \in Int /\ boxes[x].at \in Int
  BY DEF IdleInv, IdleTypeOK, Boxes, Times, Never
<1>4. SleepTimes'
  BY <1>1, <1>3 DEF IdleInv, SleepTimes, Idle
<1>5. CachesCount'
  BY <1>1, SameHistory DEF IdleInv, CachesCount, Victims, NewerIn, IdleSince, Surplus, SleptLater
<1>6. JobsCount'
  <2> SUFFICES ASSUME NEW d \in Replicas, NEW x, x = jobs'[d].session,
                      jobs'[d].pc # "none", jobs'[d].current
               PROVE  /\ x \in Idle'
                      /\ jobs'[d].pc = "list" => cache'[d][x].current
                      /\ jobs'[d].pc = "delete" =>
                           \/ jobs'[d].reason = "age" /\ now' - boxes'[x].at >= MaxIdleAge
                           \/ jobs'[d].reason = "cap" /\ Surplus(x)'
    BY DEF JobsCount, Surplus, SleptLater, Idle
  <2>1. /\ x \in Idle
        /\ jobs[d].pc = "list" => cache[d][x].current
        /\ jobs[d].pc = "delete" =>
             \/ jobs[d].reason = "age" /\ now - boxes[x].at >= MaxIdleAge
             \/ jobs[d].reason = "cap" /\ Surplus(x)
    BY <1>1 DEF IdleInv, JobsCount
  <2>2. x \in Sessions /\ x \in Idle'
    BY <1>1, <2>1 DEF Idle
  <2>3. now - boxes[x].at >= MaxIdleAge => now' - boxes'[x].at >= MaxIdleAge
    BY <1>1, <1>3, <2>2, IdleCapAssumption
  <2> QED
    BY <1>1, <2>1, <2>2, <2>3, SameHistory
<1> QED
  BY <1>2, <1>4, <1>5, <1>6 DEF IdleInv

\* A cache that has caught up, with no reconcile at it or one whose pin is looked at again.
LEMMA SyncStep ==
  ASSUME IdleInv, NEW c \in Replicas, CacheSync(c) \/ Restart(c)
  PROVE  IdleInv'
<1>1. /\ cache' = [cache EXCEPT ![c] = ViewOf]
      /\ jobs' = jobs \/ jobs' = [jobs EXCEPT ![c] = NoJob]
      /\ stirs' \in {stirs, stirs + 1}
      /\ UNCHANGED <<boxes, now, slept, capped>>
  BY DEF CacheSync, Restart
<1>2. ViewOf \in [Sessions -> Views]
  BY DEF ViewOf, Views, IdleSince, IdleInv, IdleTypeOK, Boxes, Times
<1>3. NoJob \in Jobs /\ NoJob.pc = "none"
  BY DEF NoJob, Jobs, Never
<1>4. IdleTypeOK'
  BY <1>1, <1>2, <1>3 DEF IdleInv, IdleTypeOK
<1>5. SleepTimes'
  BY <1>1 DEF IdleInv, SleepTimes, Idle
<1>6. \A d \in Replicas : cache'[d] = IF d = c THEN ViewOf ELSE cache[d]
  BY <1>1 DEF IdleInv, IdleTypeOK
<1>7. \A d \in Replicas : jobs'[d] \in {jobs[d], NoJob}
  BY <1>1 DEF IdleInv, IdleTypeOK
<1>8. \A x \in Sessions : ViewOf[x].idle = IdleSince(boxes[x])
                       /\ (ViewOf[x].current <=> boxes[x].state # "none")
  BY DEF ViewOf
<1>9. CachesCount'
  <2> SUFFICES ASSUME NEW d \in Replicas, NEW x \in Sessions, cache'[d][x].current
               PROVE  /\ cache'[d][x].idle = IdleSince(boxes'[x])
                      /\ boxes'[x].state # "none"
                      /\ x \in Victims(cache'[d]) => Surplus(x)'
    BY DEF CachesCount, Victims, NewerIn, IdleSince
  <2>1. CASE d = c
    BY <1>1, <1>6, <1>8, <2>1, FreshListCounts, SameHistory
  <2>2. CASE d # c
    BY <1>1, <1>6, <2>2, SameHistory DEF IdleInv, CachesCount
  <2> QED
    BY <2>1, <2>2
<1>10. JobsCount'
  <2> SUFFICES ASSUME NEW d \in Replicas, NEW x, x = jobs'[d].session,
                      jobs'[d].pc # "none", jobs'[d].current
               PROVE  /\ x \in Idle'
                      /\ jobs'[d].pc = "list" => cache'[d][x].current
                      /\ jobs'[d].pc = "delete" =>
                           \/ jobs'[d].reason = "age" /\ now' - boxes'[x].at >= MaxIdleAge
                           \/ jobs'[d].reason = "cap" /\ Surplus(x)'
    BY DEF JobsCount, Surplus, SleptLater, Idle
  <2>1. jobs'[d] = jobs[d]
    BY <1>3, <1>7
  <2>2. /\ x \in Idle
        /\ jobs[d].pc = "list" => cache[d][x].current
        /\ jobs[d].pc = "delete" =>
             \/ jobs[d].reason = "age" /\ now - boxes[x].at >= MaxIdleAge
             \/ jobs[d].reason = "cap" /\ Surplus(x)
    BY <2>1 DEF IdleInv, JobsCount
  <2>3. x \in Sessions /\ boxes[x].state # "none" /\ x \in Idle'
    BY <1>1, <2>2 DEF Idle
  <2>4. jobs[d].pc = "list" => cache'[d][x].current
    BY <1>6, <1>8, <2>2, <2>3
  <2> QED
    BY <1>1, <2>1, <2>2, <2>3, <2>4, SameHistory
<1> QED
  BY <1>4, <1>5, <1>9, <1>10 DEF IdleInv

\* A move of replica c's reconcile.
LEMMA JobStep ==
  ASSUME IdleInv, NEW c \in Replicas, NEW j \in Jobs,
         jobs' = [jobs EXCEPT ![c] = j],
         UNCHANGED <<boxes, cache, now, stirs, slept, capped>>,
         j.pc # "none" /\ j.current =>
           /\ j.session \in Idle
           /\ j.pc = "list" => cache[c][j.session].current
           /\ j.pc = "delete" =>
                \/ j.reason = "age" /\ now - boxes[j.session].at >= MaxIdleAge
                \/ j.reason = "cap" /\ Surplus(j.session)
  PROVE  IdleInv'
<1>1. IdleTypeOK'
  BY DEF IdleInv, IdleTypeOK
<1>2. SleepTimes'
  BY DEF IdleInv, SleepTimes, Idle
<1>3. CachesCount'
  BY SameHistory DEF IdleInv, CachesCount, Victims, NewerIn, IdleSince, Surplus, SleptLater
<1>4. \A d \in Replicas : jobs'[d] = IF d = c THEN j ELSE jobs[d]
  BY DEF IdleInv, IdleTypeOK
<1>5. JobsCount'
  <2> SUFFICES ASSUME NEW d \in Replicas, NEW x, x = jobs'[d].session,
                      jobs'[d].pc # "none", jobs'[d].current
               PROVE  /\ x \in Idle'
                      /\ jobs'[d].pc = "list" => cache'[d][x].current
                      /\ jobs'[d].pc = "delete" =>
                           \/ jobs'[d].reason = "age" /\ now' - boxes'[x].at >= MaxIdleAge
                           \/ jobs'[d].reason = "cap" /\ Surplus(x)'
    BY DEF JobsCount, Surplus, SleptLater, Idle
  <2>1. CASE d = c
    BY <1>4, <2>1, SameHistory DEF Idle
  <2>2. CASE d # c
    <3>1. jobs'[d] = jobs[d]
      BY <1>4, <2>2
    <3>2. /\ x \in Idle
          /\ jobs[d].pc = "list" => cache[d][x].current
          /\ jobs[d].pc = "delete" =>
               \/ jobs[d].reason = "age" /\ now - boxes[x].at >= MaxIdleAge
               \/ jobs[d].reason = "cap" /\ Surplus(x)
      BY <3>1 DEF IdleInv, JobsCount
    <3> QED
      BY <3>1, <3>2, SameHistory DEF Idle
  <2> QED
    BY <2>1, <2>2
<1> QED
  BY <1>1, <1>2, <1>3, <1>5 DEF IdleInv

LEMMA GetStep ==
  ASSUME IdleInv, NEW c \in Replicas, NEW x \in Sessions, Get(c, x)
  PROVE  IdleInv'
<1> DEFINE view == cache[c][x]
           aged == [pc |-> "delete", session |-> x, current |-> view.current, reason |-> "age"]
           list == [pc |-> "list", session |-> x, current |-> view.current, reason |-> "none"]
<1>1. view \in Views
  BY DEF IdleInv, IdleTypeOK
<1>2. aged \in Jobs /\ list \in Jobs
  BY <1>1 DEF Jobs, Views
<1>3. view.current => x \in Idle /\ boxes[x].at = view.idle
  BY DEF Get, IdleInv, CachesCount, IdleSince, Idle
<1>4. UNCHANGED <<boxes, cache, now, stirs, slept, capped>>
  BY DEF Get
<1>5. \/ jobs' = [jobs EXCEPT ![c] = aged] /\ now - view.idle >= MaxIdleAge
      \/ jobs' = [jobs EXCEPT ![c] = list]
  BY DEF Get, NoJob
<1>6. CASE jobs' = [jobs EXCEPT ![c] = aged] /\ now - view.idle >= MaxIdleAge
  BY <1>2, <1>3, <1>4, <1>6, JobStep
<1>7. CASE jobs' = [jobs EXCEPT ![c] = list]
  BY <1>2, <1>3, <1>4, <1>7, JobStep
<1> QED
  BY <1>5, <1>6, <1>7

LEMMA ListStep ==
  ASSUME IdleInv, NEW c \in Replicas, List(c)
  PROVE  IdleInv'
<1> DEFINE x == jobs[c].session
           j == [pc |-> "delete", session |-> x, current |-> jobs[c].current, reason |-> "cap"]
<1>1. jobs[c] \in Jobs /\ jobs \in [Replicas -> Jobs]
  BY DEF IdleInv, IdleTypeOK
<1>2. j \in Jobs /\ NoJob \in Jobs /\ NoJob.pc = "none"
  BY <1>1 DEF Jobs, NoJob, Never
<1>3. UNCHANGED <<boxes, cache, now, stirs, slept, capped>>
  BY DEF List
<1>4. CASE x \in Victims(cache[c])
  <2>1. jobs' = [jobs EXCEPT ![c] = j]
    BY <1>1, <1>4 DEF List, Jobs
  <2>2. jobs[c].current => x \in Idle /\ Surplus(x)
    BY <1>4 DEF List, IdleInv, JobsCount, CachesCount, Idle
  <2> QED
    BY <1>2, <1>3, <2>1, <2>2, JobStep
<1>5. CASE x \notin Victims(cache[c])
  BY <1>2, <1>3, <1>5, JobStep DEF List
<1> QED
  BY <1>4, <1>5

LEMMA RefusedStep ==
  ASSUME IdleInv, NEW c \in Replicas, Refused(c)
  PROVE  IdleInv'
<1>1. NoJob \in Jobs /\ NoJob.pc = "none"
  BY DEF NoJob, Jobs, Never
<1> QED
  BY <1>1, JobStep DEF Refused

-----------------------------------------------------------------------------
(***************************************************************************)
(* The theorems.                                                           *)
(***************************************************************************)

LEMMA InitIdleInv == Init => IdleInv
<1> SUFFICES ASSUME Init PROVE IdleInv
  OBVIOUS
<1>1. ViewOf \in [Sessions -> Views] /\ \A x \in Sessions : ViewOf[x].idle = Never
  BY DEF Init, ViewOf, Views, IdleSince, Times
<1>2. NoJob \in Jobs /\ NoJob.pc = "none"
  BY DEF NoJob, Jobs, Never
<1>3. IdleTypeOK
  BY <1>1, <1>2 DEF Init, IdleTypeOK, Boxes, Times
<1>4. SleepTimes
  BY DEF Init, SleepTimes, Idle, Never
<1>5. CachesCount
  <2>1. \A c \in Replicas : Victims(cache[c]) = {}
    BY <1>1 DEF Init, Victims
  <2> QED
    BY <2>1, <1>1 DEF Init, CachesCount, IdleSince
<1>6. JobsCount
  BY <1>2 DEF Init, JobsCount
<1> QED
  BY <1>3, <1>4, <1>5, <1>6 DEF IdleInv

LEMMA NextIdleInv == IdleInv /\ [Next]_vars => IdleInv'
<1> SUFFICES ASSUME IdleInv, [Next]_vars PROVE IdleInv'
  OBVIOUS
<1>1. CASE Tick
  BY <1>1, TickStep
<1>2. ASSUME NEW x \in Sessions, Sleep(x) \/ Confirm(x) \/ Order(x) \/ StatusWrite(x)
      PROVE  IdleInv'
  BY <1>2, SleepStep, ConfirmStep, OrderStep, StatusWriteStep
<1>3. ASSUME NEW c \in Replicas, CacheSync(c) \/ Restart(c)
      PROVE  IdleInv'
  BY <1>3, SyncStep
<1>4. ASSUME NEW c \in Replicas, Reconcile(c)
      PROVE  IdleInv'
  BY <1>4, ListStep, DeleteStep, RefusedStep DEF Reconcile
<1>5. ASSUME NEW c \in Replicas, NEW x \in Sessions, Get(c, x)
      PROVE  IdleInv'
  BY <1>5, GetStep
<1>6. CASE UNCHANGED vars
  <2>1. IdleTypeOK' /\ SleepTimes'
    BY <1>6 DEF vars, IdleInv, IdleTypeOK, SleepTimes, Idle
  <2>2. boxes' = boxes /\ cache' = cache /\ jobs' = jobs /\ now' = now
    BY <1>6 DEF vars
  <2>3. \A x \in Sessions : Surplus(x)' = Surplus(x)
    BY <1>6 DEF vars, Surplus, SleptLater
  <2>4. CachesCount'
    BY <2>2, <2>3 DEF IdleInv, CachesCount
  <2>5. JobsCount'
    BY <2>1, <2>2, <2>3 DEF IdleInv, JobsCount, IdleTypeOK, Jobs, Idle
  <2> QED
    BY <2>1, <2>4, <2>5 DEF IdleInv
<1> QED
  BY <1>1, <1>2, <1>3, <1>4, <1>5, <1>6 DEF Next

\* IdleInv holds in every reachable state (reconciler.go gc, idleVictims).
THEOREM IdleInvariance == Spec => []IdleInv
BY InitIdleInv, NextIdleInv, PTL DEF Spec

\* One step takes a Sandbox away only as NewestKept says: it is a delete that lands.
LEMMA StepKeepsNewest ==
  ASSUME IdleInv, [Next]_vars, NEW x \in Sessions,
         boxes[x].state # "none", boxes'[x].state = "none"
  PROVE  x \in Idle /\ (now - boxes[x].at >= MaxIdleAge \/ Surplus(x))
<1>1. boxes \in [Sessions -> Boxes]
  BY DEF IdleInv, IdleTypeOK
<1>2. boxes' # boxes
  OBVIOUS
<1>3. ASSUME NEW y \in Sessions, Sleep(y) \/ Confirm(y) \/ Order(y) \/ StatusWrite(y)
      PROVE  boxes'[x].state # "none"
  <2>1. PICK b : boxes' = [boxes EXCEPT ![y] = b] /\ b.state # "none"
    <3>1. CASE Sleep(y)
      BY <3>1 DEF Sleep, Writes
    <3>2. CASE Confirm(y)
      BY <3>2, <1>1 DEF Confirm, Writes, Boxes
    <3>3. CASE Order(y)
      BY <3>3 DEF Order, Writes
    <3>4. CASE StatusWrite(y)
      BY <3>4 DEF StatusWrite, Writes
    <3> QED
      BY <1>3, <3>1, <3>2, <3>3, <3>4
  <2> QED
    BY <1>1, <2>1
<1>4. PICK c \in Replicas : Delete(c)
  BY <1>2, <1>3 DEF Next, vars, Tick, CacheSync, Restart, Reconcile, Get, List, Refused
<1>5. x = jobs[c].session
  BY <1>1, <1>4 DEF Delete
<1> QED
  BY <1>4, <1>5, DeleteReads

\* Whatever the caches lag and however many replicas delete, the cap never takes one of
\* the GCMaxIdleSessions that fell asleep last (reconciler.go gc, idleVictims).
THEOREM NewestSpared == Spec => NewestKept
<1>1. IdleInv /\ [Next]_vars =>
        [ \A x \in Sessions :
            boxes[x].state # "none" /\ boxes'[x].state = "none" =>
              /\ x \in Idle
              /\ \/ now - boxes[x].at >= MaxIdleAge
                 \/ Cardinality(SleptLater(x)) >= MaxIdleSessions ]_boxes
  BY StepKeepsNewest DEF Surplus
<1> QED
  BY <1>1, IdleInvariance, PTL DEF Spec, NewestKept
=============================================================================
