---------------------------- MODULE LifecycleInv ----------------------------
(***************************************************************************)
(* The inductive invariant behind WakeGate, WakesOnlyWhenStopped and       *)
(* AcceptanceMonotone, in named parts.  LifecycleProofs proves it.         *)
(***************************************************************************)
EXTENDS Lifecycle

\* What writes are computed from: the Sandbox as a hook, a controller's cache and
\* agent-sandbox have read it.
Reads ==
  ({hooks[h].snap : h \in Hooks} \cup {cache[c].sb : c \in Controllers} \cup {agent}) \ {Nil}

\* UIDs are handed out in order, and a live Sandbox has the last one.
NewestUid == sb # Nil => sb.uid = lastUid

\* A read of the live incarnation is older than the object or is the object: this is
\* what makes a write pinned to UID and resourceVersion a write on the current object.
Dated(s) ==
  /\ s.uid <= lastUid
  /\ sb # Nil /\ s.uid = sb.uid => s.rv < sb.rv \/ s = sb

DatedReads == \A s \in Reads : Dated(s)

\* Suspended is never claimed for a generation to come, nor for a Running spec.
HonestStatus ==
  sb # Nil => /\ sb.gen > 0
              /\ sb.suspended <= sb.gen
              /\ SuspensionConfirmed(sb) => sb.mode = "Suspended"

\* Agent-sandbox only ever reads a Running Sandbox with an order installed.
InstalledOrder ==
  \A s \in Reads \cup ({sb} \ {Nil}) : s.mode = "Running" => s.podOrder # Nil

\* An invocation under way has its order, and past Get and create a Sandbox it read.
HookProgress ==
  \A h \in Hooks :
    /\ hooks[h].pc # "idle" => hooks[h].offer # Nil
    /\ hooks[h].pc \in {"secret", "patch"} => hooks[h].snap # Nil

\* IInv: types, dated reads, honest status, what a step relies on, and WakeGate; every
\* step keeps all of it (hook.go and reconciler.go, wherever a pinned patch is built).
IInv ==
  /\ TypeOK
  /\ NewestUid
  /\ DatedReads
  /\ HonestStatus
  /\ InstalledOrder
  /\ HookProgress
  /\ WakeGate
=============================================================================
