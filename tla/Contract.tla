------------------------------ MODULE Contract ------------------------------
(***************************************************************************)
(* The template contract (internal/hook/template.go) and the names         *)
(* (Naming) over the life of the Sandboxes of a namespace: several         *)
(* releases are offered sessions, their charts are upgraded in between,    *)
(* and what reaches a runner Pod has gone through the hook's contract, the *)
(* refresh of a newer order, and Wake.                                     *)
(*                                                                         *)
(* Races on one Sandbox are Lifecycle's: the hook's one conditional write  *)
(* makes it a step here, and an order is newer than those before it.       *)
(*                                                                         *)
(* The chart renders the Sandbox's own labels and claim, and checks the    *)
(* base directory against the mount path; the rest of ValidateAnchors and  *)
(* Contract.Validate is about those.  An overlay may merge anything over   *)
(* podTemplate.                                                            *)
(***************************************************************************)
EXTENDS Naming

CONSTANTS
  Releases,   \* releases that share the namespace
  Sessions,   \* session ids
  Accounts,   \* account ids, <<>> for none
  Overlays,   \* pod templates that charts render
  MaxOrders,  \* bound: orders
  MaxUpgrades \* bound: chart upgrades

\* Helm's release names are valid label values.
ASSUME ContractAssumption ==
  /\ Releases \cup Sessions \subseteq Words
  /\ \A r \in Releases : ValidLabel(r)
  /\ Accounts \subseteq Words \cup {<<>>}
  /\ <<>> \notin Sessions
  /\ MaxOrders \in Nat
  /\ MaxUpgrades \in Nat

VARIABLES
  charts,   \* [Releases -> the pod template its hooks load]
  boxes,    \* [names of the Sandboxes there are -> Sandbox]
  orders,   \* the accounts of the accepted orders; an order is its index here
  upgrades

vars == <<charts, boxes, orders, upgrades>>

-----------------------------------------------------------------------------
NoOrder == 0
NoPod == [order |-> NoOrder]

NameOf == [r \in Releases |-> [s \in Sessions |-> SandboxName(r, s)]]

Names == {NameOf[t[1]][t[2]] : t \in Releases \X Sessions}

LabelOf == [w \in Sessions \cup Accounts |-> LabelValue(w)]

LabelWords == Words \cup {LabelOf[w] : w \in Sessions \cup Accounts}

\* The runner's arguments: --lock-to-account by itself, --lock-to-account=w as one argument,
\* and any other text, such as the value after the first.
Flag == [kind |-> "flag", word |-> <<>>]
Joined(w) == [kind |-> "joined", word |-> w]
Text(w) == [kind |-> "text", word |-> w]
Arguments == {Flag} \cup [kind : {"joined", "text"}, word : Words]

\* runner: the anchor container is there.  workOrder: the anchor volume, and its source.
\* secret: the order whose Secret it names.  mount: where the container mounts the
\* workspace claim.  shadowed: a volume of the claim's name.
PodTemplates ==
  [ runner    : BOOLEAN,
    workOrder : {"none", "other", "secret"},
    secret    : Nat,
    order     : Nat,
    labels    : UNION {[ks -> LabelWords] :
                         ks \in SUBSET {"instance", "session", "account", "extra"}},
    args      : Seq(Arguments),
    mount     : {"none", "elsewhere", "workspace"},
    shadowed  : BOOLEAN,
    restart   : {"Never", "Always"} ]

\* takers is history: the release and session of the orders it accepted.
Boxes ==
  [ labels  : [ instance : Releases,
                session  : {LabelOf[s] : s \in Sessions},
                account  : {LabelOf[a] : a \in Accounts} ],
    pt      : PodTemplates,
    mode    : {"Suspended", "Running"},
    pending : 0..MaxOrders,
    runner  : PodTemplates \cup {NoPod},
    takers  : SUBSET (Releases \X Sessions) ]

\* No chart names an order.
ASSUME OverlayAssumption ==
  \A pt \in Overlays : pt \in PodTemplates /\ pt.order = NoOrder /\ pt.secret = NoOrder

Init ==
  /\ charts \in [Releases -> Overlays]
  /\ boxes = <<>>
  /\ orders = <<>>
  /\ upgrades = 0

-----------------------------------------------------------------------------
(***************************************************************************)
(* The hook.                                                               *)
(***************************************************************************)

\* (mutant) only the container is looked for
ContainerAnchor(pt) == pt.runner

\* ValidateAnchors: without them the hook exits 2 and writes nothing.
Anchors(pt) == pt.runner /\ pt.workOrder # "none"

BoxLabels(r, s, a) == [instance |-> r, session |-> LabelOf[s], account |-> LabelOf[a]]

\* What the API server requires of a Sandbox.
Admits ==
  [r \in Releases |-> [s \in Sessions |-> [a \in Accounts |->
     LET labels == BoxLabels(r, s, a)
     IN  /\ ValidName(NameOf[r][s])
         /\ \A k \in DOMAIN labels : labels[k] = <<>> \/ ValidLabel(labels[k])]]]

\* The labels ls, with those of over merged last.
Merged(ls, over) ==
  [k \in DOMAIN ls \cup DOMAIN over |-> IF k \in DOMAIN over THEN over[k] ELSE ls[k]]

NothingKept == [out |-> <<>>, skips |-> FALSE]

\* withLockToAccount reads one argument more: the flag goes, and so does what follows it.
Kept(done, arg) ==
  CASE done.skips                -> [done EXCEPT !.skips = FALSE]
    [] ~done.skips /\ arg = Flag -> [done EXCEPT !.skips = TRUE]
    [] OTHER                     -> [done EXCEPT !.out = Append(@, arg)]

WithLockToAccount(args, a) ==
  LET read[n \in 0..Len(args)] ==
        IF n = 0 THEN NothingKept ELSE Kept(read[n - 1], args[n])
  IN  read[Len(args)].out \o <<Flag, Text(a)>>

\* (mutant) --lock-to-account is appended also without an account
ApplyContractLocking(pt, labels, a) ==
  [pt EXCEPT !.labels = Merged(@, labels), !.mount = "workspace", !.args = WithLockToAccount(@, a),
             !.workOrder = "secret", !.shadowed = FALSE, !.restart = "Never"]

\* (mutant) an overlay's labels and volumes win over the contract
ApplyContractFirst(pt, labels, a) ==
  [pt EXCEPT
    !.labels    = Merged(labels, @),
    !.mount     = "workspace",
    !.args      = IF a = <<>> THEN @ ELSE WithLockToAccount(@, a),
    !.workOrder = IF @ = "none" THEN @ ELSE "secret",
    !.restart   = "Never"]

ApplyContract(pt, labels, a) ==
  [pt EXCEPT
    !.labels    = Merged(@, labels),
    !.mount     = "workspace",
    !.args      = IF a = <<>> THEN @ ELSE WithLockToAccount(@, a),
    !.workOrder = IF @ = "none" THEN @ ELSE "secret",
    !.shadowed  = FALSE,
    !.restart   = "Never"]

\* (mutant) an existing Sandbox keeps its container
RefreshedKeepingRunner(old, new) ==
  [new EXCEPT !.order = old.order, !.secret = old.secret, !.args = old.args,
              !.labels = Merged(old.labels, @)]

\* publishNewer: the chart's template, with the order and Secret installed so far and
\* labels of the old one that it lacks.
Refreshed(old, new) ==
  [new EXCEPT
    !.order  = IF old.order # NoOrder THEN old.order ELSE @,
    !.secret = IF old.workOrder = "secret" THEN old.secret ELSE @,
    !.labels = Merged(old.labels, @)]

\* (mutant) what is found under the name is the session's own
EvaluatedByName(box, r, s) == TRUE

\* evaluate's label checks.
Evaluated(box, r, s) == box.labels.instance = r /\ box.labels.session = LabelOf[s]

\* createSandbox, and the pointers of the redelivery path it goes on with.
NewBox(labels, pt, o) ==
  [ labels |-> labels, pt |-> pt, mode |-> "Suspended", pending |-> o,
    runner |-> NoPod, takers |-> {} ]

Published(box, pt, o) ==
  [box EXCEPT !.pt = Refreshed(@, pt), !.mode = "Suspended", !.pending = o]

\* A hook of release r gets a newer order for session s, of account a.
Spawn(r, s, a) ==
  LET n      == NameOf[r][s]
      labels == BoxLabels(r, s, a)
      pt     == ApplyContract(charts[r], labels, a)
      o      == Len(orders) + 1
      Takes(box) == [box EXCEPT !.takers = @ \cup {<<r, s>>}]
  IN  /\ o <= MaxOrders
      /\ Anchors(charts[r])
      /\ \/ /\ n \notin DOMAIN boxes
            /\ Admits[r][s][a]
            /\ boxes' = [m \in DOMAIN boxes \cup {n} |->
                          IF m = n THEN Takes(NewBox(labels, pt, o)) ELSE boxes[m]]
         \/ /\ n \in DOMAIN boxes
            /\ Evaluated(boxes[n], r, s)
            /\ boxes' = [boxes EXCEPT ![n] = Takes(Published(@, pt, o))]
      /\ orders' = Append(orders, a)
      /\ UNCHANGED <<charts, upgrades>>

\* The chart of release r is upgraded.
Upgrade(r) ==
  /\ upgrades < MaxUpgrades
  /\ upgrades' = upgrades + 1
  /\ \E pt \in Overlays \ {charts[r]} : charts' = [charts EXCEPT ![r] = pt]
  /\ UNCHANGED <<boxes, orders>>

-----------------------------------------------------------------------------
(***************************************************************************)
(* What the controllers do with an accepted order.                         *)
(***************************************************************************)

Updates(n, box) ==
  /\ boxes' = [boxes EXCEPT ![n] = box]
  /\ UNCHANGED <<charts, orders, upgrades>>

\* Wake comes to this Sandbox.
Wakeable(box) == box.mode = "Suspended" /\ box.pending # NoOrder /\ box.runner = NoPod

\* Any other source of the volume is replaced.
Installed(pt, o) == [pt EXCEPT !.order = o, !.secret = o, !.workOrder = "secret"]

\* Wake: blocked without a volume.
Wake(n) ==
  LET box == boxes[n]
  IN  /\ Wakeable(box)
      /\ box.pt.workOrder # "none"
      /\ Updates(n, [box EXCEPT !.mode = "Running", !.pt = Installed(box.pt, box.pending)])

\* agent-sandbox creates the Pod from podTemplate, also in place of an evicted one.
PodStarts(n) ==
  /\ boxes[n].mode = "Running"
  /\ boxes[n].runner = NoPod
  /\ Updates(n, [boxes[n] EXCEPT !.runner = boxes[n].pt])

PodGoes(n) ==
  /\ boxes[n].runner # NoPod
  /\ Updates(n, [boxes[n] EXCEPT !.runner = NoPod])

SpawnObserved(n) ==
  /\ boxes[n].pending # NoOrder
  /\ boxes[n].mode = "Running"
  /\ boxes[n].runner.order = boxes[n].pending
  /\ Updates(n, [boxes[n] EXCEPT !.pending = NoOrder])

Sleep(n) ==
  /\ boxes[n].mode = "Running"
  /\ boxes[n].pending = NoOrder
  /\ Updates(n, [boxes[n] EXCEPT !.mode = "Suspended"])

\* GC deletes an idle Sandbox, and its name is free again.
Collect(n) ==
  /\ boxes[n].mode = "Suspended"
  /\ boxes[n].pending = NoOrder
  /\ boxes[n].runner = NoPod
  /\ boxes' = [m \in DOMAIN boxes \ {n} |-> boxes[m]]
  /\ UNCHANGED <<charts, orders, upgrades>>

Next ==
  \/ \E r \in Releases : Upgrade(r) \/ \E s \in Sessions, a \in Accounts : Spawn(r, s, a)
  \/ \E n \in DOMAIN boxes :
       Wake(n) \/ PodStarts(n) \/ PodGoes(n) \/ SpawnObserved(n) \/ Sleep(n) \/ Collect(n)

Spec == Init /\ [][Next]_vars

-----------------------------------------------------------------------------
\* ContractTypeOK: the names, labels, templates and Pods of the namespace.
ContractTypeOK ==
  /\ charts \in [Releases -> PodTemplates]
  /\ orders \in Seq(Accounts) /\ Len(orders) <= MaxOrders
  /\ upgrades \in 0..MaxUpgrades
  /\ DOMAIN boxes \subseteq Names
  /\ \A n \in DOMAIN boxes : boxes[n] \in Boxes

\* NoSharing: a Sandbox, and so a workspace volume, accepts the orders of one session of
\* one release, although releases may derive the same name (naming.go SandboxName,
\* hook.go evaluate).
NoSharing ==
  \A n \in DOMAIN boxes : \E t \in Releases \X Sessions : boxes[n].takers = {t}

\* OwnSandbox: within a release no session finds another's Sandbox under its name, so
\* that none is refused because of another (naming.go scopedName).
OwnSandbox ==
  \A r \in Releases, s \in Sessions :
    NameOf[r][s] \in DOMAIN boxes /\ boxes[NameOf[r][s]].labels.instance = r
      => boxes[NameOf[r][s]].takers = {<<r, s>>}

\* NamesAdmitted: a session without a Sandbox can have one: the API server does not refuse
\* the names and labels derived for it, however they are cut, if there is a letter or
\* digit in its id and in the account's, if any (naming.go scopedName, LabelValue).
NamesAdmitted ==
  \A r \in Releases, s \in Sessions, a \in Accounts :
    NameOf[r][s] \notin DOMAIN boxes
    /\ ToSet(s) \cap Alnum # {} /\ (a = <<>> \/ ToSet(a) \cap Alnum # {})
      => Admits[r][s][a]

\* ContractHeld: whatever was merged over the template, upgraded and refreshed, a runner
\* Pod is found by the selectors of its release and session, has the workspace claim
\* where the runner looks for it, and does not restart (charts/shock/README.md "an
\* overlay cannot break the lifecycle").
ContractHeld ==
  \A n \in DOMAIN boxes :
    LET pod == boxes[n].runner
    IN  pod # NoPod =>
          /\ pod.labels["instance"] = boxes[n].labels.instance
          /\ pod.labels["session"] = boxes[n].labels.session
          /\ pod.mount = "workspace" /\ ~pod.shadowed
          /\ pod.restart = "Never"

\* The last two arguments are the flag and account a, and the flag comes nowhere before.
Locked(args, a) ==
  LET n == Len(args)
  IN  /\ n >= 2
      /\ args[n - 1] = Flag /\ args[n] = Text(a)
      /\ \A i \in 1..(n - 2) : args[i] # Flag

\* RunnerHoldsItsOrder: a runner has the Secret of the order it is for, and its arguments
\* end in --lock-to-account and that order's account, the flag's one occurrence whatever
\* the overlay had, also when a newer order of another account has been accepted meanwhile
\* (hook.go publishNewer, reconciler.go wake, template.go withLockToAccount).
RunnerHoldsItsOrder ==
  \A n \in DOMAIN boxes :
    LET pod == boxes[n].runner
    IN  pod # NoPod =>
          /\ pod.order \in DOMAIN orders
          /\ pod.secret = pod.order
          /\ orders[pod.order] # <<>> => Locked(pod.args, orders[pod.order])

\* LockReplaced: where the hook appended the account of the order, no other value of
\* --lock-to-account is left, in either form (the comment at template.go:150).
LockReplaced ==
  \A n \in DOMAIN boxes :
    LET pod == boxes[n].runner
    IN  pod # NoPod /\ orders[pod.order] # <<>>
          => \A i \in DOMAIN pod.args : pod.args[i].kind # "joined"

\* WakeInstalls: Wake always finds the volume to install the order in, also in templates
\* of charts that have lost it since (reconciler.go wake, template.go ValidateAnchors).
WakeInstalls ==
  \A n \in DOMAIN boxes : Wakeable(boxes[n]) => boxes[n].pt.workOrder # "none"
=============================================================================
