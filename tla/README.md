# SHOCK in TLA+

SHOCK runs one Kubernetes Sandbox per session of a control plane. A *spawn
hook* process is started for every order the control plane hands out; a
long-running *session controller* wakes, settles, puts to sleep and collects the
Sandboxes; the external *agent-sandbox* controller turns a Sandbox into a Pod.
They share nothing but Kubernetes objects. These modules model that protocol,
check it with TLC on small instances, and prove its central invariants with
TLAPS for all instances.

    tlc -config core.cfg MCLifecycle        # also disrupted, overlap, live, recreate, wedge
    tlc -config cap.cfg MCActiveCap
    tlc -config idle.cfg IdleCap
    tlc -config monitor.cfg Monitor         # also gauge
    tlc -config contract.cfg MCContract     # also lock
    tlapm LifecycleProofs.tla               # likewise every *Proofs.tla

`PROJECT.json` lists components, runs, mutants, hazards, findings and theorems,
and maps every definition to the lines it models.

## 1. Inventory

| component | state | operations | talks to |
|---|---|---|---|
| Spawn hook, `internal/hook/hook.go` | none across invocations; in one: the request, the Sandbox as last read, the retry count | Get, capacity check, create, ensure Secret, repair (redelivery) or publish (newer order), exit 0/1/2 | Sandbox and Secrets, uncached |
| Conditional writes, `internal/patch` | none | merge patch pinned to UID and resourceVersion; "is this refusal a stale read" | used by hook and controller |
| Names, `internal/naming` | none | Sandbox, Secret and label names from release, session, UID, order | used by all |
| Template contract, `hook/template.go` | none; the Sandbox's podTemplate carries it on | check the chart's template for its anchors, force identity, labels, mounts, account lock onto it | the hook's create and publish, then Wake |
| Hook inputs, `hook/inputs.go` | none | parse and validate the environment | run once, before the first API call |
| Lifecycle predicates, `sessioncontroller/reconciler.go` | informer caches of Sandboxes and Pods | Spawn observation, Sleep, Wake, GC; at most one write per reconcile | Sandbox (cached reads, pinned writes), Pods (cached), Secrets (uncached) |
| Idle-session cap, `reconciler.go` idleVictims | cache | rank asleep sessions, delete the excess | Sandboxes of the release |
| Alarms, `reconciler.go` zombie, alarm | once-per-transition maps by UID | Events | none |
| Manager and CRD probe, `manager.go`, `metrics.go` | readiness flag, gauge | periodic discovery | API discovery, probes |
| State metrics, `metrics.go` | none | projection of the cache | scrapes |
| CLI, build information, chart, images | none | wiring | |
| *external* agent-sandbox, kubelet, garbage collector, operator, control plane | the objects' status, Pods | Pod creation and deletion, conditions, cascades, deliveries | all of the above |

**What is hard.** Hooks run concurrently (up to `hookConcurrency` per
orchestrator), are killed on a deadline, are invoked again with the same order
(redelivery) or a newer one (re-offer), and lose responses of calls that took
effect. The controller reads two caches that lag independently; during a rollout
two controllers overlap. A runner Pod outlives the decision to suspend it, and
two runners on one workspace volume are the failure the whole design avoids. The
only synchronisation is the pinned write. So the questions are of interleaving,
staleness and partial failure: is an order that was answered 0 ever lost, run
twice, run on top of another runner, acknowledged by another order's Pod, or
collected together with its session; can a redelivery be rejected; can a
prepared order hang for ever; how far is the cap of active sessions overshot.
`PROJECT.json` "hazards" has them one by one with the line where each bites.

**What makes each component correct.** Hook: accepted attempts only grow, exit 0
means the order is kept, exit 2 only for what is really wrong. Controller: an
order is settled only by its own Pod, Wake only when no runner is left, Sleep
only after the runner finished, GC only at rest. Cap: a bounded overshoot.
Idle cap: whatever the replicas see, the newest sleepers stay. Manager and
probe: readiness and gauge come to say what is there. Names: two sessions
never meet in one Sandbox, and none is refused for its name. Contract: nothing a
chart merges reaches a runner in its stead. Alarms: none lost, none repeated.

## 2. Modules

| module | what it is | code |
|---|---|---|
| `SandboxAPI` | the objects of one session, the pinned write, condition reading | `internal/patch`, `internal/naming` |
| `Hook` | the hook: one process per invocation slot | `internal/hook/hook.go` |
| `SessionController` | Reconcile on stale caches | `internal/sessioncontroller/reconciler.go` |
| `AgentSandbox` | EXTERNAL: everything around SHOCK | `src/test/e2e`, `src/plans/shock-spec.md` |
| `Lifecycle` | their composition, fairness, and the properties | |
| `SessionOrders` | the abstract session: what SHOCK promises | shock-spec sections 6 and 7 |
| `LifecycleRefinement` | the refinement mapping, and the step simulation | |
| `LifecycleInv`, `LifecycleProofs` | the inductive invariant of reads and gate, and its proof | |
| `OrderInv` | the inductive invariants of orders, answers and Pods | |
| `OrderProofs`, `AttemptProofs` | their proofs: whatever is offered; with one attempt per order | |
| `MCLifecycle` | values for TLC | |
| `ActiveCap`, `MCActiveCap`, `ActiveCapProofs` | the active-session cap over many sessions | `checkCapacity` |
| `IdleCap`, `IdleCapProofs` | the idle-session cap over many sessions and replicas | `gc`, `idleVictims` |
| `CRDProbe` | the controller's process, discovery, readiness, gauge | `manager.go`, `metrics.go` |
| `Alarms` | Events once per transition, over caches and restarts | `zombie`, `alarm`, `Collect` |
| `Monitor`, `MonitorProofs` | `CRDProbe` and `Alarms` over one process, fairness, properties | `Run` |
| `Naming`, `NamingProofs` | names and label values as operators on words, and what they give | `internal/naming` |
| `Contract`, `MCContract`, `ContractProofs` | the template of a session from chart to runner, for several releases | `template.go`, `publishNewer`, `wake` |

### State and code

`sb` is the session's one Sandbox (its name is a function of release and session):
annotations, mode, podTemplate's order and Secret, and the two conditions. A condition
is kept as the observedGeneration it was last written True with, so
`currentGenerationTrue` is an equality. `rv` counts writes of an incarnation; it is only
ever compared for equality, with the UID. `Written` and `WrittenSpec` are what the API
server does to a write. `managed` collapses the three labels `evaluate` checks (part-of,
instance, session): a Sandbox either carries this session's or is foreign. `selected` is
the two the controller's cache and `Reconcile` go by (instance, name), so it may see a
foreign Sandbox. `secrets` and `pod` are the objects the Sandbox owns; `spawned`,
`acked`, `rejected` and an invocation's `seen` are history variables no action reads.

`Hook`: `pc` names the next API call, `snap` the Sandbox the hook read. `Get` is
the read and everything computed up to the next call (`evaluate`,
`checkCapacity` without its List); `CreateSandbox`/`CreateLost` the Create;
`EnsureSecret` the Secret's Create with `verifySecret` on AlreadyExists;
`RepairRedelivery` and `PublishNewer` the rest of their functions, ending in the
pinned patch. A refused patch is `Retry`, which re-reads up to `MaxAttempts`
times and then exits 1. After `Create` the code goes on with the created object
in place of a second Get; so does `CreateSandbox`. `HookFails` may happen before
any call: death, deadline, API errors, a lost response (the call's own step
happened, the exit is a failure).

`SessionController`: one action per predicate, guarded by the negation of the
predicates that would have returned before it. Reading the Secret and patching
are one step in `Wake`: Secrets are immutable and outlive their Sandbox, and the
patch is pinned. A refused write changes nothing and is requeued.

`AgentSandbox` reads the Sandbox and acts later, so it may still create a Pod for
a mode that has since changed, the case the generation gate exists for. Its
status write is pinned to what it read.

`ActiveCap` keeps of a Sandbox what `holdsSlot` reads, and a pin as one flag.
What the other modules model of one session is here the choice of the next
transition, a superset of theirs.

`IdleCap` has a clock; a Sandbox is asleep since `at`, whole seconds as in the
annotation, so that ties occur. A reconcile is up to three steps: `Get` reads the
Sandbox from the replica's cache, `List` ranks the cache as it is by then,
`Delete` or `Refused` is what the API server makes of the preconditions. One
watch feeds a cache, so a cache is a past state of all Sandboxes; the pin is the
flag `current`, which every write clears. `slept` and `capped` are history.

`CRDProbe` follows `Run`: down, waiting (`waitForCRD`), starting, running, and from
`synced` on the ticker. `check` splits into `Discover`, which has the answer, and
`Conclude`, which stores it. A cache that cannot sync ends `Run`, and the kubelet starts
it again. `Alarms` keeps of one Sandbox name what `zombie`, `alarm` and `Collect` read;
whether `spawnObservation`, `sleep` or `wake` return first is the flag `settled`, and
`gc` may return between `zombie` and `alarm` (`RaiseAlarms` without `RaiseCrowded`). The
maps are a new `Reconciler`'s in every life of the process (`AlarmsRestart`); `forget`
drops nothing. `Monitor` ties both to one process: its end empties flags, maps and
caches together.

`Contract` keeps of a pod template what the contract is about: the anchors, the
Secret and order installed, the labels, the runner's arguments, mount, restart
policy. An overlay may render any of these. Of an argument it keeps whether it is
`--lock-to-account` by itself, `--lock-to-account=value` in one, or any other text:
`WithLockToAccount` reads them one by one as the code does. One invocation of the hook is
one step, `Spawn`; racing ones are `Lifecycle`'s. Every release has its chart,
which `Upgrade` replaces. `runner` is the Pod, a copy of the podTemplate at its
creation. `Naming` works on short words: a character per symbol, a hash one
symbol that counts for `HashLen` characters, the prefix "cs-" written "c-", and the
limits 63, 24, 63 constants small enough that the words reach them.

## 3. Properties and runs

Every run is exhaustive. The columns give incarnations (UIDs), hooks,
invocations, controllers; every property has a mutant of the code that breaks it.

| run | bounds | what is checked |
|---|---|---|
| `core` | 1 UID, 2 hooks, 3 invocations, 3 orders, 1 controller, 1.6M states | `SettledOrderRan`, `AckedOrderKept`, `PreparedOrderWakeable`, `PodMatchesSecret`, `NoSpuriousReject`; `AcceptanceMonotone`, `OneRunPerOrder`, `SleepsOnlyFinished` |
| `disrupted` | 2 UIDs, 1 hook that retries, 2 invocations, one of drain/delete/foreign, 1.6M | `WakeGate`, `IInv` (`TypeOK` within); `WakesOnlyWhenStopped`, `SpawnsInOrder`, `ForeignUntouched` |
| `overlap` | 1 UID, 1 hook, 2 invocations, 2 controllers, GC, 2.3M | `RunInv`; `CollectsOnlyRest`, `SpawnsInOrder`, `OneRunPerOrder` |
| `live` | 1 UID, 2 hooks, 2 invocations, GC, fairness, 94k | `AnswerInv`; `ImplementsSessionOrders`, `PreparedOrderRuns`, `FinishedRunnerSleeps`, `IdleCollected` |
| `cap` | 4 sessions, 2 hooks, cap 2, 23k | `Overshoot`, `CapInv` |
| `idle` | 2 sessions, 2 replicas, cap 1, fairness, 57k | `IdleInv`; `NewestKept`, `CapReached` |
| `monitor` | 1 Pod, 2 incarnations, 1 change of discovery, 1 crash, 2 changes of the Sandbox, fairness, 758k | `TypeOK`, `AlarmsOnce`; `StrandedAlarmed`, `StrandedExported`, `ReadinessFollowsCRD`, `CrowdAlarmed` |
| `contract` | 2 releases, 6 sessions, 2 accounts, 3 overlays, 2 orders, 1 upgrade, 484k | `ContractTypeOK`, `NoSharing`, `OwnSandbox`, `NamesAdmitted`, `ContractHeld`, `RunnerHoldsItsOrder`, `WakeInstalls` |
| `recreate`, `wedge`, `gauge`, `lock` | | the disagreements of section 6 |

What the properties say is at their definitions. In short, for one session: an order the
hook answered 0 has run, was superseded, or is pending with everything Wake needs; a
pending intent is cleared only by its own Pod; a recorded preparation is never refused
by Wake; the Pod mounts its own order's Secret; exit 2 only for two orders that really
share an attempt or a foreign Sandbox; the mode returns to Running only when no Pod is
left and none is on its way; no order runs twice on a Sandbox; Pods appear in attempt
order; GC takes only a session at rest. For many: the cap never takes one of the
`MaxIdleSessions` that fell asleep last, though every replica ranks an old list of its
own; no Sandbox serves two sessions, though releases may derive one name; a runner has
the Secret of its order and arguments that end in the lock to that order's account, the
flag's only occurrence (an overlay's one-argument form stays, section 6), though the
template was refreshed for another in the meantime. For operators: readiness follows the
CRD, and a stuck Pod raises one Event per process and is in every scrape.

**Why the bounds are enough.** Two orders are a predecessor and a successor; every
property relates at most two. `core` adds a rival, which claims the successor's attempt;
the two are interchangeable. Three invocations are three deliveries, two orders and a
repetition among them, in any assignment to two hooks, so a redelivery can race the
newer order, and a crashed preparation can be repaired. `MaxAttempts` 1 makes a refused
patch final, 2 adds the re-read (the code's 12 repeats the same read); `core` has the
racing hooks, where the other hook's later invocation is the retry, and `disrupted` the
retrying one, which the environment races. Two UIDs are a session and its successor. In
`overlap` each replica may hold the Sandbox asleep after the first order, or still
pending, or running, while the hook publishes the second onto it; without the pin of the
delete alone, or of the patches, the run fails. `live` has one repetition and no third
delivery because liveness asks what happens when deliveries end. One disruption keeps
the runs finite. What the runs cannot bound away the proofs do not bound: the safety
theorems of section 4 hold for any number of hooks, invocations, attempts, orders,
controllers, incarnations and disruptions. Overshoot in `cap` is tight: with one less,
TLC finds a counterexample. In `idle` two replicas and two sessions over a cap of one
let each replica hold a list in which the other session is the newer one. The words of
`contract` hold pairs sanitised alike, cut alike, with nothing left, of releases
sanitised and cut, and joined alike; no word leaves a dash at a cut, which the proofs of
`NamingProofs` cover. Its overlays are none, one that lost the anchor, and one that
breaks every term of the contract at once, with both forms of `--lock-to-account`. Two
orders are one runner and the refresh behind it. In `monitor` one change of discovery is
enough for each eventual answer, from each initial one; a crash and a second incarnation
reach the maps' reuse, and two changes of the Sandbox let each incarnation be crowded
once; `gauge` allows four changes and two crashes, and needs one. Hook, controller,
order and session symmetry are sound: no definition tells the members apart and the runs
that use it check no liveness. `CHECK_DEADLOCK FALSE` is set for the session runs
because a finite control plane comes to rest, and in `contract` because orders and
upgrades are finite; the others say at their end why or check deadlock.

**Bounds by name.** `MaxUID`, `MaxUid`, `MaxInvocations`, `MaxDisruptions`, `MaxTime`,
`MaxStirs`, `MaxChanges`, `MaxCrashes`, `MaxFlips`, `MaxOrders`, `MaxUpgrades` cap
counters; `MaxAttempts`, `MaxActive`, `MaxIdleAge`, `MaxIdleSessions`, `HashLen`,
`NameMax`, `ReleaseMax`, `LabelMax` are the code's parameters.

**Fairness** (`FairSpec`). In `live`: weak fairness on each hook's steps (an
invocation never waits for anything and has a deadline), on each controller's
reconcile and on each watch (controller-runtime requeues on watch events, on
errors with backoff, and on resync), on agent-sandbox, the kubelet ending a
terminating Pod, the garbage collector, and the end of a foreground deletion.
None on deliveries, on runners finishing, on hook crashes, on disruptions.
`IdleCollected` rests on GC being weakly fair, that is, on a finite
`GCMaxIdleAge`: an asleep session is eventually past it. In `idle`: the watch and
the end of a reconcile weakly, and the start of a reconcile strongly for every
Sandbox that the cache shows asleep again and again, since the resync
(`opts.ResyncPeriod`) requeues every cached Sandbox and the workqueue is a queue.
In `monitor` and `gauge`: discovery by a ticker, the kubelet restarting an ended
process, informers and their watches while the API serves them, and reconciles that
have something to raise; none on the cluster, on predicates that do not get done,
on crashes. What fairness leaves out is the escape `LeftAlone` of the alarm
properties: a Sandbox being deleted or never settled, or a CRD not served.

## 4. Proofs

TLAPS checks every leaf, for all values of the constants that the named assumptions
allow. Each safety invariant and each action property that a passing run checks is a
theorem.

| theorem | property | hypotheses |
|---|---|---|
| *one session*, `LifecycleProofs`: `Invariance`, `TypeCorrect`, `GateHolds` | `IInv`, `TypeOK`, `WakeGate` | |
| `WakesStopped`, `AcceptanceOnlyGrows` | `WakesOnlyWhenStopped`, `AcceptanceMonotone` | |
| `OrderProofs`: `OrderInvariance` | `OrderInv`, which the others rest on | |
| `SettledRan`, `PodsMatch` | `SettledOrderRan`, `PodMatchesSecret` | |
| `CollectsRest`, `ForeignLeftAlone` | `CollectsOnlyRest`, `ForeignUntouched` | |
| `AttemptProofs`: `AnswerInvariance`, `AckedKept` | `AnswerInv`, `AckedOrderKept` | one attempt per order |
| `PreparedWakeable`, `RejectsWithCause` | `PreparedOrderWakeable`, `NoSpuriousReject` | one attempt per order |
| `PrecedenceInvariance`, `SpawnsOrdered` | `SpawnsInOrder` | one attempt per order |
| `RestInvariance`, `SleepsFinished` | `SleepsOnlyFinished` | and no drain |
| `RunInvariance`, `RunsOnlyOnce` | `RunInv`, `OneRunPerOrder` | and neither drain nor deletion |
| `Refinement` | `ImplementsSessionOrders` | one attempt per order |
| *caps*: `CapInvariance`, `OvershootBounded` | `CapInv`, `Overshoot` | |
| `IdleInvariance`, `NewestSpared` | `IdleInv`, `NewestKept` | |
| *process*, `MonitorProofs`: `MonitorInvariance`, `MonitorTypeCorrect`, `AlarmedOnce` | `TypeOK`, `AlarmsOnce` | |
| *names*, `NamingProofs`: `NamesDiffer`, `NamesAreValid`, `LabelsDiffer`, `LabelsAreValid` | | |
| `ContractProofs`: `ContractInvariance`, `ContractTypeCorrect` | `ContractTypeOK` | |
| `NeverShared`, `NoneInTheWay`, `NeverRefused` | `NoSharing`, `OwnSandbox`, `NamesAdmitted` | |
| `SelectorsFindRunners`, `RunnersHoldTheirOrders`, `WakeNeverBlocked` | `ContractHeld`, `RunnerHoldsItsOrder`, `WakeInstalls` | |

**Hypotheses.** `OneAttemptPerId`: an order is always delivered with the same
attempt. shock-spec 443-445 asks the deployment to verify "stable attempts for
redelivery" and says that their lack blocks the protocol; `wedge` shows what happens
then. No drain: an evicted runner is replaced by agent-sandbox for the same order, and
its Sandbox may be put to sleep meanwhile. No deletion: an operator's delete lets a
Pod made from an older read follow a finished one. Both are Kubernetes' doing, not
SHOCK's; every other theorem holds with them. The hypotheses are satisfiable: `core`
and `overlap` meet all three.

### One session

`IInv` (in `LifecycleInv`) is what reads are worth. `WakeGate` alone is
not inductive: agent-sandbox's status write could confirm suspension on the
strength of an old read. What makes it hold is that a pinned write is a write on
the *current* object:

- `NewestUid` and `DatedReads`: each read held anywhere (hook, cache,
  agent-sandbox) is of an older UID, or of an older resourceVersion, or is the
  object itself. So `Current(read)` gives `sb = read`.
- `HonestStatus`: Suspended is never claimed for a future generation nor for a
  Running spec; a spec write moves the generation and so withdraws it.
- `InstalledOrder`, `HookProgress`: what `TypeOK` needs of agent-sandbox's Pod and of
  the hook's reads.

Steps are proved in three shapes: those that change the Sandbox, those that only
take a read, and those that change the Pod; each action is shown to be one of
them. `OrderProofs` refines this once more: a step takes one of a few *courses*
(`Course`), each an explicit change of the API objects with what the actor knew when
it made it. Every later proof argues from courses, not from handlers.

`OrderInv` is what the annotations, Secrets, Pods and all reads of one Sandbox
say together. `SettledOrderRan` needs it in every read, not just in the Sandbox
(`SettledReads`): the hook publishes on a read, and the acknowledgement in the
controller compares two caches that were filled at different times. `ReadsFollowed`
says what the present can be like, given a read; `PodsKnown` and `SecretsKnown` tie
every Pod and Secret to the order it was made for by its name; `Backed` says that
no pointer is ever ahead of its Secret, also one a hook is only about to write, and
`ForeignBare` that nothing is made for a Sandbox that is not SHOCK's. Such a Sandbox
stays bare (`Accepted`), so that no predicate of the controller applies to it
(`ActedOnOwn`), though the selector may let it through.

`AnswerInv` adds the answers. An order answered 0 is `OnTheWay`: it ran, or a higher
attempt was accepted, or it is pending with its pointers. Each course is shown to
keep that, and each exit 0 of the hook to establish it at the moment it is given
(`HookAnswers`), though it is given on the strength of a read that may be old by then.

`PrecedenceInv` is about Pods. `SpawnsInOrder` fails if agent-sandbox can create a Pod
from a read older than the template; so the invariant follows the read: one with mode
Running is of the order installed now (`InOrder`), because the order changes only in
Wake, which `WakeGate` lets through only when no such read is left. `RestInv` adds
that short of a drain a Running Sandbox keeps its Pod, and `RunInv` that a Running
Sandbox whose order had a Pod has it still, so that no second one is made.

`Refinement`: `StageOf` and the mapped accepted, installed and running orders
change only in some courses. Each of these is one action of `SessionOrders`, the rest
leave the mapped state as it is. `PrecedenceInv` gives the abstract guards: that
what is accepted is of a higher attempt, that the runner is the installed
order, that what closes has run.

### Caps and process

`CapInv` counts the sessions holding a slot together with those a hook was let
in for and has not written yet. When a hook is let in, at most `MaxActive - 1`
others hold a slot, and each other hook in flight accounts for at most one more;
every other step only shrinks the union. A hook that passed because its own
session held a slot adds none: its pin fails if the slot was lost meanwhile.

`IdleInv` is about decisions that could still be carried out. The cap takes x
when `MaxIdleSessions` others are asleep since later. That may no longer be so at the
delete: the others may have woken, or another replica may have taken one. A
sleeper that wakes still fell asleep after x and was spared. If the cap took z of
those others meanwhile, z itself had `MaxIdleSessions` spared after it, by the
same invariant, and they are after x too (the order is by time and name, so it is
transitive): x's count stands without z. If z slept anew, it is later still. So
each cached view whose pin holds ranks x among a surplus that is still there,
and the pin makes the read the Sandbox.

`MonitorInv` counts: a Pod had at most one Event in each earlier life of the
process, and one in this if the map remembers it (`OncePerLife`). The bound is in crashes,
but a cache sync that fails also ends a life and empties the map without being one;
that is harmless because such a life has not reconciled anything (`FreshBefore`).

### Names and contract

`sanitizeRFC1123` goes through a word character by character, so what it returns is
an induction. The prover takes no induction theorem with an operator parameter; the
library's facts about well-founded orders need none. Finite sets are well-ordered by
inclusion, so every set of numbers has a least element (`LeastNumber`), and that is
induction. It gives that the recursion is defined (`ReadingIsDefined`), that
its text starts with no dash and holds no hash (`ReadBegins`), and that trimming
and cutting leave it ending without one. A name is then its prefix and the id as it
is, or ends with the id's hash (`NameShape`), and these cannot meet (`NamesDiffer`).

`CInv` carries the properties, which are about Pods, back along the Pod's life. A Pod
has what the podTemplate had at its creation, in mode Running; there the template
`Holds` one order: Wake installed it, and the template's arguments end in the lock to
that order's account since it was accepted (`LockedTo`), because the publication that
accepts the order is the write that replaces the template. That no flag stays before the
appended pair is an induction over the arguments read (`FlagDropped`). `Forced` holds
from `ApplyContract` on, and `Refreshed` merges only labels the new template lacks.
`Owned` is what makes the second acceptance on a Sandbox one of the same session: labels
decide, and different sessions have different labels (`LabelsApart`). `NeverShared` uses
nothing of `SandboxName`; `NoneInTheWay` does.

### Assumptions

The named ones of the modules (`APIAssumption`, `HookAssumption`,
`ControllerAssumption`, `AgentAssumption`, `CapAssumption`, `IdleCapAssumption`,
`ProbeAssumption`, `AlarmAssumption`, `NamingAssumption`, `HashAssumption`,
`ContractAssumption`, `OverlayAssumption`): types of the constants, `Nil` distinct from
values, finitely many hooks and sessions for the caps, limits that leave room for the
hash, release names that are label values (Helm's are), no chart that names an order's
Secret. `HashAssumption` is the one that idealises: the 32-bit hash of one word is not
that of another, nor does a word contain it. An id made to end in the hash of another is
outside of it; what the labels then still guarantee, `NoSharing`, rests on it only
through `LabelsApart`.

### Only model-checked

The liveness properties `PreparedOrderRuns`, `FinishedRunnerSleeps`, `IdleCollected`,
`CapReached`, `ReadinessFollowsCRD`, `StrandedAlarmed`, `StrandedExported` and
`CrowdAlarmed`: `FairSpec` conjoins fairness conditions, which are about ENABLED, and
the prover does neither. `LifecycleRefinement` is proved as a safety refinement; the
abstract specification states no fairness.

## 5. Plan

The components that section 1 lists are modelled, and all their checked safety
properties are proved. What could still be added:

1. The projection of a `Lifecycle` behaviour to one session of `ActiveCap`, which would tie
   the cap to the hook's control as it is, in place of the superset described in
   section 2; the same for a `Sleep` of `IdleCap`.
2. The overlap of two releases in `Lifecycle`, where `Contract` has the hook as one step.

## 6. Where code and documents disagree

- `recreate`: shock-spec 437-438 says an invocation that observed a Sandbox ends
  with exit 1 when it is gone. `patch.IsStale` counts NotFound, so `runSession`
  (hook.go:164) re-reads, finds nothing and creates a new Sandbox.
- `wedge`: shock-spec 840-843 treats a redelivery with a surprising attempt as
  the order it names, and says it cannot be rejected. With the first delivery
  dead before its Secret, such a redelivery prepares the order with its own
  attempt and exits 0, and `validateWorkOrderSecret` (reconciler.go:288) refuses it
  on every Wake. With the Secret there already, `verifySecret` (hook.go:455)
  compares the attempt and exits 2: checking `NoSpuriousReject` under
  `wedge.cfg`'s offers shows that.
- `gauge`: metrics.go:40 and the chart's README say `shock_crd_served` is 1 while
  the CRD is served. `check` (manager.go:60-65) returns on any discovery error before
  it sets the gauge, and a removed CRD is such an error (NotFound): the gauge keeps
  its 1, and the alert `ShockSessionControllerNotReady`, which compares it with 0,
  never fires, while `/readyz` says 503. Only "group served, resource missing" clears it.

- `lock`: the comment at template.go:150 says `withLockToAccount` replaces "any
  existing value". It drops an argument equal to `--lock-to-account` and the one
  after it; an overlay's `--lock-to-account=value`, one argument, stays before the
  pair that is appended.

All four run with the code's own control. `wedge` uses offers in which one id
comes with two attempts, which the document says cannot be excluded; all other
runs use one attempt per id.

Two more are visible in `Naming` and need no run. The chart's README (271-272) says
releases never collide on names, but the release "a" with the id "cs-x" and the
release "a-cs" with the id "x" both get `a-cs-cs-x`, and releases longer than 24
characters may be cut alike; `NoSharing` shows that the second session is refused,
not mixed with the first. And an id without any letter or digit, such as "_",
gives a label value that starts with a dash: the API server refuses the Sandbox
(`NamesAdmitted` leaves such ids out). An account without one does the same.

## 7. Not modelled

- Failures that end an invocation with 2 before or in place of a write (RBAC,
  template, validation): for the objects they are `HookFails`. An Invalid answer
  to the pinned patch counts as stale in the code, which retries and ends in
  exit 1; so does the model.
- Merge-patch encoding: fields the modules do not list keep their values. Order
  data other than id and attempt: the same order is delivered with the same data.
- Clocks: sleep times and GC ages are a free choice in `SessionController`, exact
  in `IdleCap`. The active cap's count is a free choice in `Hook`, exact in
  `ActiveCap`.
- A last-suspended-at that does not parse, which only a foreign writer could leave.
- A foreign Sandbox with a life of its own: the one in `Lifecycle` is bare and Suspended.
  One that carries the runner's instance and name labels and SHOCK's annotations, or
  runs, is to the controller the release's own.
- Pods other than the Sandbox's own, and more than one Pod per Sandbox
  (agent-sandbox names the Pod after the Sandbox).
- `hook/inputs.go`: a pure function of the environment, run before the first API
  call, whose every branch a unit test reaches.
- Of the template: strict decoding, the labels and the claim that the chart renders
  outside podTemplate, and `Contract.Validate`'s comparison of two configured paths.
- Of the scrape: all series that copy a field of one cached Sandbox.
- CLI, build information, chart, images: no program state.
