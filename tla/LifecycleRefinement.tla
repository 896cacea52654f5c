------------------------ MODULE LifecycleRefinement ------------------------
(***************************************************************************)
(* Lifecycle implements SessionOrders: what the annotations, the mode and  *)
(* the Pod of the session's Sandbox say, read as one abstract session.     *)
(***************************************************************************)
EXTENDS Lifecycle

StageOf(s) ==
  IF ~Live(s) THEN "none"
  ELSE IF s.pending # Nil
       THEN IF s.applied = s.pending THEN "installed" ELSE "queued"
       ELSE IF s.mode = "Running" THEN "running" ELSE "asleep"

Session ==
  INSTANCE SessionOrders
  WITH stage        <- StageOf(sb),
       accepted     <- IF Live(sb) THEN sb.lastId ELSE Nil,
       attempt      <- IF Live(sb) THEN sb.lastAttempt ELSE 0,
       installed    <- IF Live(sb) THEN sb.applied ELSE Nil,
       runner       <- IF Live(sb) /\ Owned(pod, sb.uid) THEN pod.order ELSE Nil,
       ran          <- IF Live(sb)
                       THEN {id \in OrderIds : WorkOrderSecretName(sb.uid, id) \in spawned}
                       ELSE {},
       MayBeDeleted <- "delete" \in Disruptions

\* ImplementsSessionOrders: every step of hooks, controller, agent-sandbox and kubelet
\* is a step of the abstract session or leaves it alone (shock-spec sections 6 and 7).
ImplementsSessionOrders == Session!Spec
=============================================================================
