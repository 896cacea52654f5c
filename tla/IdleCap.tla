------------------------------- MODULE IdleCap -------------------------------
(***************************************************************************)
(* The idle-session cap (internal/sessioncontroller gc, idleVictims)       *)
(* across the sessions of one release.  A reconcile reads its Sandbox,     *)
(* lists the release's Sandboxes, and deletes later: both reads are of the *)
(* replica's cache, the two may straddle an update of it, and several      *)
(* replicas overlap in a rollout.  Only the pin ties the delete to them.   *)
(*                                                                         *)
(* A Sandbox is asleep since "at" (last-suspended-at, in whole seconds, so *)
(* that ties occur), "falling" until agent-sandbox has confirmed the       *)
(* suspension, and otherwise busy: running, waking, pending, being         *)
(* deleted.  One watch feeds a cache, so a cache is a past state of all    *)
(* Sandboxes.  A pin is a flag that every write to the Sandbox clears.     *)
(***************************************************************************)
EXTENDS Integers, FiniteSets

CONSTANTS
  Sessions,         \* the sessions of the release, numbered by their Sandboxes' names
  Replicas,         \* session controller processes
  MaxIdleAge,       \* Options.GCMaxIdleAge
  MaxIdleSessions,  \* Options.GCMaxIdleSessions, 0 = unlimited
  MaxTime,          \* bound: the clock
  MaxStirs          \* bound: orders, status writes and restarts

ASSUME IdleCapAssumption ==
  /\ Sessions \subseteq Nat
  /\ IsFiniteSet(Sessions)
  /\ MaxIdleAge \in Nat
  /\ MaxIdleSessions \in Nat

Never == -1

VARIABLES
  boxes,   \* [Sessions -> the session's Sandbox]
  cache,   \* [Replicas -> [Sessions -> what the replica's cache says of it]]
  jobs,    \* [Replicas -> the reconcile under way]
  now,     \* the clock
  stirs,   \* orders, status writes and restarts so far
  slept,   \* history: [Sessions -> "at" of the last confirmed sleep, or Never]
  capped   \* history: sessions the cap took after that sleep

vars == <<boxes, cache, jobs, now, stirs, slept, capped>>

Times == Nat \cup {Never}

Boxes == [state : {"none", "busy", "falling", "asleep"}, at : Times]

\* Of a cached Sandbox: idleSince, and whether a pin on it would still hold.
Views == [idle : Times, current : BOOLEAN]

Jobs ==
  [ pc      : {"none", "list", "delete"},
    session : Sessions \cup {Never},
    current : BOOLEAN,              \* the pin of the Sandbox read
    reason  : {"none", "age", "cap"} ]

NoJob == [pc |-> "none", session |-> Never, current |-> FALSE, reason |-> "none"]

\* IdleTypeOK: the states of Sandboxes, caches and reconciles.
IdleTypeOK ==
  /\ boxes \in [Sessions -> Boxes]
  /\ cache \in [Replicas -> [Sessions -> Views]]
  /\ jobs \in [Replicas -> Jobs]
  /\ now \in Nat
  /\ stirs \in Nat
  /\ slept \in [Sessions -> Times]
  /\ capped \in SUBSET Sessions

\* idleSince
IdleSince(b) == IF b.state = "asleep" THEN b.at ELSE Never

ViewOf == [x \in Sessions |-> [idle |-> IdleSince(boxes[x]), current |-> boxes[x].state # "none"]]

Init ==
  /\ boxes = [x \in Sessions |-> [state |-> "busy", at |-> Never]]
  /\ cache = [c \in Replicas |-> ViewOf]
  /\ jobs = [c \in Replicas |-> NoJob]
  /\ now = 0
  /\ stirs = 0
  /\ slept = [x \in Sessions |-> Never]
  /\ capped = {}

-----------------------------------------------------------------------------
\* The order idleVictims sorts by: sleep time, ties by name.
SleptAfter(atX, x, atY, y) == atX > atY \/ (atX = atY /\ x > y)

\* Those a cache lists as asleep longer than x is not.
NewerIn(view, x) ==
  {y \in Sessions : view[y].idle # Never /\ SleptAfter(view[y].idle, y, view[x].idle, x)}

\* (mutant) one session too many
VictimsOneMore(view) ==
  {x \in Sessions : view[x].idle # Never /\ Cardinality(NewerIn(view, x)) + 1 >= MaxIdleSessions}

\* (mutant) the newest beyond the cap stays
VictimsOneLess(view) ==
  {x \in Sessions : view[x].idle # Never /\ Cardinality(NewerIn(view, x)) > MaxIdleSessions}

\* idleVictims: what is asleep, but for the MaxIdleSessions that fell asleep last.
Victims(view) ==
  {x \in Sessions : view[x].idle # Never /\ Cardinality(NewerIn(view, x)) >= MaxIdleSessions}

-----------------------------------------------------------------------------
\* A write to x: whoever read x before has lost its pin.
UnpinnedCaches(x) == [c \in Replicas |-> [cache[c] EXCEPT ![x].current = FALSE]]
UnpinnedJobs(x) ==
  [c \in Replicas |-> [jobs[c] EXCEPT !.current = @ /\ jobs[c].session # x]]

Writes(x, b) ==
  /\ boxes' = [boxes EXCEPT ![x] = b]
  /\ cache' = UnpinnedCaches(x)
  /\ jobs' = UnpinnedJobs(x)

Tick ==
  /\ now < MaxTime
  /\ now' = now + 1
  /\ UNCHANGED <<boxes, cache, jobs, stirs, slept, capped>>

\* sleep: Suspended, with last-suspended-at.
Sleep(x) ==
  /\ boxes[x].state = "busy"
  /\ Writes(x, [state |-> "falling", at |-> now])
  /\ UNCHANGED <<now, stirs, slept, capped>>

\* Agent-sandbox confirms the suspension for the current generation.
Confirm(x) ==
  /\ boxes[x].state = "falling"
  /\ Writes(x, [boxes[x] EXCEPT !.state = "asleep"])
  /\ slept' = [slept EXCEPT ![x] = boxes[x].at]
  /\ capped' = capped \ {x}
  /\ UNCHANGED <<now, stirs>>

\* An order arrives: the Sandbox is created, or has a pending order and will wake.
Order(x) ==
  /\ boxes[x].state # "busy"
  /\ stirs < MaxStirs
  /\ stirs' = stirs + 1
  /\ Writes(x, [state |-> "busy", at |-> Never])
  /\ UNCHANGED <<now, slept, capped>>

\* A write that changes nothing idleSince reads.
StatusWrite(x) ==
  /\ boxes[x].state = "asleep"
  /\ stirs < MaxStirs
  /\ stirs' = stirs + 1
  /\ Writes(x, boxes[x])
  /\ UNCHANGED <<now, slept, capped>>

-----------------------------------------------------------------------------
\* The watch catches up.
CacheSync(c) ==
  /\ cache[c] # ViewOf
  /\ cache' = [cache EXCEPT ![c] = ViewOf]
  /\ UNCHANGED <<boxes, jobs, now, stirs, slept, capped>>

\* A replica restarts and lists afresh.
Restart(c) ==
  /\ stirs < MaxStirs
  /\ stirs' = stirs + 1
  /\ cache' = [cache EXCEPT ![c] = ViewOf]
  /\ jobs' = [jobs EXCEPT ![c] = NoJob]
  /\ UNCHANGED <<boxes, now, slept, capped>>

\* gc up to the list: the age decides by itself.
Get(c, x) ==
  LET view == cache[c][x]
      aged == now - view.idle >= MaxIdleAge
      read == [NoJob EXCEPT !.session = x, !.current = view.current]
  IN /\ jobs[c].pc = "none"
     /\ view.idle # Never
     /\ \/ aged  /\ jobs' = [jobs EXCEPT ![c] = [read EXCEPT !.pc = "delete", !.reason = "age"]]
        \/ ~aged /\ MaxIdleSessions > 0
                 /\ jobs' = [jobs EXCEPT ![c] = [read EXCEPT !.pc = "list"]]
     /\ UNCHANGED <<boxes, cache, now, stirs, slept, capped>>

\* Whether the Sandbox is among the victims; if not, it is requeued.
List(c) ==
  /\ jobs[c].pc = "list"
  /\ \/ /\ jobs[c].session \in Victims(cache[c])
        /\ jobs' = [jobs EXCEPT ![c].pc = "delete", ![c].reason = "cap"]
     \/ /\ jobs[c].session \notin Victims(cache[c])
        /\ jobs' = [jobs EXCEPT ![c] = NoJob]
  /\ UNCHANGED <<boxes, cache, now, stirs, slept, capped>>

\* (mutant) the delete has no preconditions
PinHoldsAlways(c) == boxes[jobs[c].session].state # "none"

\* UID and resourceVersion preconditions.
PinHolds(c) == jobs[c].current

Delete(c) ==
  LET x == jobs[c].session IN
  /\ jobs[c].pc = "delete"
  /\ PinHolds(c)
  /\ boxes' = [boxes EXCEPT ![x] = [state |-> "none", at |-> Never]]
  /\ cache' = UnpinnedCaches(x)
  /\ jobs' = [UnpinnedJobs(x) EXCEPT ![c] = NoJob]
  /\ capped' = IF jobs[c].reason = "cap" THEN capped \cup {x} ELSE capped
  /\ UNCHANGED <<now, stirs, slept>>

\* Refused: the error requeues the Sandbox.
Refused(c) ==
  /\ jobs[c].pc = "delete"
  /\ ~PinHolds(c)
  /\ jobs' = [jobs EXCEPT ![c] = NoJob]
  /\ UNCHANGED <<boxes, cache, now, stirs, slept, capped>>

Reconcile(c) == List(c) \/ Delete(c) \/ Refused(c)

Next ==
  \/ Tick
  \/ \E x \in Sessions : Sleep(x) \/ Confirm(x) \/ Order(x) \/ StatusWrite(x)
  \/ \E c \in Replicas :
       CacheSync(c) \/ Restart(c) \/ Reconcile(c) \/ \E x \in Sessions : Get(c, x)

Spec == Init /\ [][Next]_vars

\* The watch goes on, a reconcile comes to its end, and the workqueue, which the resync
\* fills with every cached Sandbox, reaches each of them again and again.
Fairness ==
  \A c \in Replicas :
    /\ WF_vars(CacheSync(c))
    /\ WF_vars(Reconcile(c))
    /\ \A x \in Sessions : SF_vars(Get(c, x))

FairSpec == Spec /\ Fairness

-----------------------------------------------------------------------------
Idle == {x \in Sessions : boxes[x].state = "asleep"}

\* Sessions that fell asleep after x last did, and that the cap has not taken since.
SleptLater(x) ==
  {y \in Sessions \ capped : slept[y] # Never /\ SleptAfter(slept[y], y, slept[x], x)}

\* NewestKept: a Sandbox disappears only asleep, and short of GCMaxIdleAge only when
\* GCMaxIdleSessions others fell asleep after it and were spared by the cap, however old
\* the lists are and however many replicas act on them: replicas never add up to take
\* what each alone would keep (reconciler.go gc, idleVictims).
NewestKept ==
  [][ \A x \in Sessions :
        boxes[x].state # "none" /\ boxes'[x].state = "none" =>
          /\ x \in Idle
          /\ \/ now - boxes[x].at >= MaxIdleAge
             \/ Cardinality(SleptLater(x)) >= MaxIdleSessions ]_boxes

\* CapReached: once orders stop, the cap brings the sessions asleep down to
\* GCMaxIdleSessions, also when it is an older Sandbox's turn because of a younger one's
\* sleep (reconciler.go gc "The cap reaches older Sandboxes on their resync").
CapReached ==
  Cardinality(Idle) > MaxIdleSessions ~> Cardinality(Idle) <= MaxIdleSessions

\* Sleep times follow the clock, and a session asleep was not taken since.
SleepTimes ==
  \A x \in Sessions :
    /\ slept[x] <= now
    /\ boxes[x].state \in {"falling", "asleep"} =>
         boxes[x].at \in Nat /\ slept[x] <= boxes[x].at /\ boxes[x].at <= now
    /\ x \in Idle => slept[x] = boxes[x].at /\ x \notin capped

\* Enough sessions were spared for the cap to take x.
Surplus(x) == Cardinality(SleptLater(x)) >= MaxIdleSessions

\* Where a cached Sandbox is the Sandbox, the list around it still counts.
CachesCount ==
  \A c \in Replicas, x \in Sessions :
    cache[c][x].current =>
      /\ cache[c][x].idle = IdleSince(boxes[x])
      /\ boxes[x].state # "none"
      /\ x \in Victims(cache[c]) => Surplus(x)

\* And so does the decision of a reconcile whose pin still holds.
JobsCount ==
  \A c \in Replicas :
    LET job == jobs[c] IN
    job.pc # "none" /\ job.current =>
      /\ job.session \in Idle
      /\ job.pc = "list" => cache[c][job.session].current
      /\ job.pc = "delete" =>
           \/ job.reason = "age" /\ now - boxes[job.session].at >= MaxIdleAge
           \/ job.reason = "cap" /\ Surplus(job.session)

\* IdleInv: a pin that still holds means that the read is the Sandbox and that the list
\* behind the decision still counts: whoever the cap took from it meanwhile had as many
\* sleepers after it (reconciler.go gc, one delete of several replicas); it is inductive.
IdleInv == IdleTypeOK /\ SleepTimes /\ CachesCount /\ JobsCount
=============================================================================
