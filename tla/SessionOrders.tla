--------------------------- MODULE SessionOrders ---------------------------
(***************************************************************************)
(* What SHOCK promises the control plane about one session, without hooks, *)
(* caches, resourceVersions or Secrets (src/plans/shock-spec.md sections 6 *)
(* and 7): accepted attempts only grow, orders are run one at a time on    *)
(* the session's workspace, an order is installed only when no runner is   *)
(* left, an accepted order is settled only by running it, and a session is *)
(* closed only at rest.                                                    *)
(***************************************************************************)
EXTENDS Naturals

CONSTANTS
  Offers,         \* orders: records [id, attempt]
  Nil,
  MayBeDeleted    \* an operator may delete the session

VARIABLES
  stage,       \* where the accepted order is
  accepted,    \* its id, or Nil
  attempt,     \* its attempt
  installed,   \* the order runners are started for, or Nil
  runner,      \* the order whose Pod exists, or Nil
  ran          \* the orders a runner was started for

vars == <<stage, accepted, attempt, installed, runner, ran>>

Stages == {"none", "queued", "installed", "running", "asleep"}

Absent ==
  /\ stage = "none"
  /\ accepted = Nil
  /\ attempt = 0
  /\ installed = Nil
  /\ runner = Nil
  /\ ran = {}

Init == Absent

\* The first order of a session, or of a session that had been closed.
Open(o) ==
  /\ stage = "none"
  /\ stage' = "queued"
  /\ accepted' = o.id
  /\ attempt' = o.attempt
  /\ UNCHANGED <<installed, runner, ran>>

\* A newer order replaces the accepted one, wherever that is.
Accept(o) ==
  /\ stage # "none"
  /\ o.attempt > attempt
  /\ o.id # accepted
  /\ stage' = "queued"
  /\ accepted' = o.id
  /\ attempt' = o.attempt
  /\ UNCHANGED <<installed, runner, ran>>

Install ==
  /\ stage = "queued"
  /\ runner = Nil
  /\ stage' = "installed"
  /\ installed' = accepted
  /\ UNCHANGED <<accepted, attempt, runner, ran>>

\* One runner at a time, for the installed order.
Start ==
  /\ stage # "none"
  /\ installed # Nil
  /\ runner = Nil
  /\ runner' = installed
  /\ ran' = ran \cup {installed}
  /\ UNCHANGED <<stage, accepted, attempt, installed>>

Stop ==
  /\ runner # Nil
  /\ runner' = Nil
  /\ UNCHANGED <<stage, accepted, attempt, installed, ran>>

Settle ==
  /\ stage = "installed"
  /\ accepted \in ran
  /\ stage' = "running"
  /\ UNCHANGED <<accepted, attempt, installed, runner, ran>>

Rest ==
  /\ stage = "running"
  /\ stage' = "asleep"
  /\ UNCHANGED <<accepted, attempt, installed, runner, ran>>

Close ==
  /\ stage = "asleep"
  /\ runner = Nil
  /\ Absent'

Delete ==
  /\ MayBeDeleted
  /\ stage # "none"
  /\ Absent'

Next ==
  \/ \E o \in Offers : Open(o) \/ Accept(o)
  \/ Install \/ Start \/ Stop \/ Settle \/ Rest \/ Close \/ Delete

Spec == Init /\ [][Next]_vars
=============================================================================
