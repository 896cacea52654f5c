--------------------------- MODULE ContractProofs ---------------------------
(***************************************************************************)
(* Proofs about Contract, for all words, hashes, overlays and limits that  *)
(* its assumptions allow: no Sandbox is shared or refused because of       *)
(* another, every runner holds its order and the contract, and Wake can    *)
(* always install.                                                         *)
(*                                                                         *)
(* The properties speak of Pods, so the invariant carries them back along  *)
(* the Pod's life: from the podTemplate it was made of, to the order Wake  *)
(* installed there, to the template that the order was accepted with.      *)
(***************************************************************************)
EXTENDS Contract, NamingProofs

\* The runner's arguments end in the account of order o, unless it has none.
LockedTo(pt, os, o) == os[o] # <<>> => Locked(pt.args, os[o])

\* The template holds one accepted order.
Holds(pt, os) ==
  /\ pt.order \in 1..Len(os)
  /\ pt.secret = pt.order
  /\ LockedTo(pt, os, pt.order)

\* The template obeys the contract of a Sandbox with these labels.
Forced(pt, labels) ==
  /\ {"instance", "session"} \subseteq DOMAIN pt.labels
  /\ pt.labels["instance"] = labels.instance
  /\ pt.labels["session"] = labels.session
  /\ pt.mount = "workspace"
  /\ ~pt.shadowed
  /\ pt.restart = "Never"
  /\ pt.workOrder = "secret"

\* Taken from the release and session of its labels.
Owned(box) ==
  \E r \in Releases, s \in Sessions :
    /\ box.takers = {<<r, s>>}
    /\ box.labels.instance = r
    /\ box.labels.session = LabelOf[s]

BoxInv(box, os) ==
  /\ box \in Boxes
  /\ box.pending \in 0..Len(os)
  /\ box.mode = "Running" => Holds(box.pt, os)
  /\ box.mode = "Suspended" /\ box.pending # NoOrder => LockedTo(box.pt, os, box.pending)
  /\ box.runner # NoPod => Holds(box.runner, os) /\ Forced(box.runner, box.labels)
  /\ Forced(box.pt, box.labels)
  /\ Owned(box)

CInv == ContractTypeOK /\ \A n \in DOMAIN boxes : BoxInv(boxes[n], orders)

-----------------------------------------------------------------------------
\* Different sessions have different labels.
LEMMA LabelsApart == \A s, t \in Sessions : LabelOf[s] = LabelOf[t] => s = t
BY LabelsDiffer, ContractAssumption DEF LabelOf

LEMMA LabelsTyped ==
  ASSUME NEW r \in Releases, NEW s \in Sessions, NEW a \in Accounts
  PROVE  /\ BoxLabels(r, s, a) \in [ instance : Releases,
                                     session  : {LabelOf[x] : x \in Sessions},
                                     account  : {LabelOf[x] : x \in Accounts} ]
         /\ DOMAIN BoxLabels(r, s, a) = {"instance", "session", "account"}
         /\ BoxLabels(r, s, a)["instance"] = r
         /\ BoxLabels(r, s, a)["session"] = LabelOf[s]
         /\ BoxLabels(r, s, a)["account"] = LabelOf[a]
BY DEF BoxLabels

Keys == {"instance", "session", "account", "extra"}

LEMMA LabelsIn ==
  ASSUME NEW ls, NEW pt \in PodTemplates
  PROVE  /\ DOMAIN pt.labels \subseteq Keys
         /\ pt.labels \in [DOMAIN pt.labels -> LabelWords]
         /\ \A ks \in SUBSET Keys : ls \in [ks -> LabelWords] =>
              [pt EXCEPT !.labels = ls] \in PodTemplates
<1>1. PICK ks \in SUBSET Keys : pt.labels \in [ks -> LabelWords]
  BY DEF PodTemplates, Keys
<1>2. DOMAIN pt.labels = ks
  BY <1>1
<1>3. ASSUME NEW k2 \in SUBSET Keys, ls \in [k2 -> LabelWords]
      PROVE  [pt EXCEPT !.labels = ls] \in PodTemplates
  <2>1. ls \in UNION {[k -> LabelWords] : k \in SUBSET Keys}
    BY <1>3
  <2> QED
    BY <2>1 DEF PodTemplates, Keys
<1> QED
  BY <1>1, <1>2, <1>3

LEMMA MergedTyped ==
  ASSUME NEW k1 \in SUBSET Keys, NEW k2 \in SUBSET Keys,
         NEW ls \in [k1 -> LabelWords], NEW over \in [k2 -> LabelWords]
  PROVE  /\ Merged(ls, over) \in [k1 \cup k2 -> LabelWords]
         /\ \A k \in k2 : Merged(ls, over)[k] = over[k]
BY DEF Merged

-----------------------------------------------------------------------------
(***************************************************************************)
(* The runner's arguments.                                                 *)
(***************************************************************************)

\* What withLockToAccount has kept after n arguments.
Keeps(args, n, g) ==
  g = [i \in 0..n |-> IF i = 0 THEN NothingKept ELSE Kept(g[i - 1], args[i])]
Keeping(args) == CHOOSE g : Keeps(args, Len(args), g)

\* The recursion has a solution: one for n arguments goes on to the next.
LEMMA KeepingIsDefined ==
  ASSUME NEW args, Len(args) \in Nat
  PROVE  Keeps(args, Len(args), Keeping(args))
<1> DEFINE P == {n \in Nat : \E g : Keeps(args, n, g)}
<1>1. 0 \in P
  <2>1. Keeps(args, 0, [i \in 0..0 |-> NothingKept])
    BY DEF Keeps
  <2> QED
    BY <2>1
<1>2. ASSUME NEW n \in 0..Len(args), n \in P, n < Len(args) PROVE n + 1 \in P
  <2>1. PICK g : Keeps(args, n, g)
    BY <1>2
  <2> DEFINE h == [i \in 0..(n + 1) |-> IF i = n + 1 THEN Kept(g[n], args[i]) ELSE g[i]]
  <2>2. ASSUME NEW i \in 0..(n + 1)
        PROVE  h[i] = IF i = 0 THEN NothingKept ELSE Kept(h[i - 1], args[i])
    <3>1. CASE i = 0
      BY <2>1, <3>1 DEF Keeps
    <3>2. CASE i # 0
      <4>1. i - 1 \in 0..n /\ h[i - 1] = g[i - 1]
        BY <3>2
      <4>2. i # n + 1 => g[i] = Kept(g[i - 1], args[i])
        BY <2>1, <3>2 DEF Keeps
      <4> QED
        BY <3>2, <4>1, <4>2
    <3> QED
      BY <3>1, <3>2
  <2>3. h = [i \in 0..(n + 1) |-> h[i]]
    OBVIOUS
  <2> HIDE DEF h
  <2>4. Keeps(args, n + 1, h)
    BY <2>2, <2>3 DEF Keeps
  <2> QED
    BY <2>4
<1> HIDE DEF P
<1>3. Len(args) \in P
  <2>1. \A i \in 0..Len(args) : i \in P /\ i < Len(args) => i + 1 \in P
    BY <1>2
  <2>2. \A i \in 0..Len(args) : i \in P
    BY <1>1, <2>1, Induction
  <2> QED
    BY <2>2
<1> QED
  BY <1>3 DEF P, Keeping

\* The flag is not among what is kept.
LEMMA FlagDropped ==
  ASSUME NEW args \in Seq(Arguments)
  PROVE  Keeping(args)[Len(args)].out \in Seq(Arguments \ {Flag})
<1> DEFINE Others == Arguments \ {Flag}
           States == [out : Seq(Others), skips : BOOLEAN]
           g      == Keeping(args)
           P      == {n \in 0..Len(args) : g[n] \in States}
<1>1. Len(args) \in Nat /\ \A i \in 1..Len(args) : args[i] \in Arguments
  BY LenProperties, ElementOfSeq
<1>2. /\ g[0] = NothingKept
      /\ \A i \in 1..Len(args) : g[i] = Kept(g[i - 1], args[i])
  <2>1. Keeps(args, Len(args), g)
    BY <1>1, KeepingIsDefined
  <2> HIDE DEF g
  <2> QED
    BY <1>1, <2>1 DEF Keeps
<1> HIDE DEF g
<1>3. 0 \in P
  <2>1. NothingKept \in States
    <3> HIDE DEF Others
    <3>1. <<>> \in Seq(Others)
      BY EmptySeq
    <3> QED
      BY <3>1 DEF NothingKept
  <2> HIDE DEF States
  <2> QED
    BY <1>1, <1>2, <2>1
<1>4. ASSUME NEW done \in States, NEW arg \in Arguments PROVE Kept(done, arg) \in States
  <2> HIDE DEF Others
  <2>1. CASE done.skips
    BY <2>1 DEF Kept
  <2>2. CASE ~done.skips /\ arg = Flag
    BY <2>2 DEF Kept
  <2>3. CASE ~done.skips /\ arg # Flag
    <3>1. Append(done.out, arg) \in Seq(Others)
      <4>1. arg \in Others /\ done.out \in Seq(Others)
        BY <2>3 DEF Others
      <4> QED
        BY <4>1, AppendProperties
    <3>2. Kept(done, arg) = [done EXCEPT !.out = Append(@, arg)]
      BY <2>3 DEF Kept
    <3> QED
      BY <3>1, <3>2
  <2> QED
    BY <2>1, <2>2, <2>3
<1>5. ASSUME NEW n \in 0..Len(args), n \in P, n < Len(args) PROVE n + 1 \in P
  <2>1. g[n] \in States /\ n + 1 \in 1..Len(args) /\ n + 1 \in 0..Len(args)
    BY <1>1, <1>5
  <2>2. g[n + 1] = Kept(g[n], args[n + 1])
    BY <1>1, <1>2, <1>5, <2>1
  <2> HIDE DEF States
  <2> QED
    BY <1>1, <1>4, <2>1, <2>2
<1> HIDE DEF P
<1>6. Len(args) \in P
  <2>1. \A i \in 0..Len(args) : i \in P /\ i < Len(args) => i + 1 \in P
    BY <1>5
  <2>2. \A i \in 0..Len(args) : i \in P
    BY <1>1, <1>3, <2>1, Induction
  <2> QED
    BY <1>1, <2>2
<1> HIDE DEF Others
<1>7. g[Len(args)].out \in Seq(Others)
  BY <1>6 DEF P
<1> QED
  BY <1>7 DEF g, Others

\* What withLockToAccount returns ends in the flag and its value, and has no other flag.
LEMMA LockAppended ==
  ASSUME NEW args \in Seq(Arguments), NEW a \in Words
  PROVE  /\ WithLockToAccount(args, a) \in Seq(Arguments)
         /\ Locked(WithLockToAccount(args, a), a)
<1> DEFINE out == Keeping(args)[Len(args)].out
           all == WithLockToAccount(args, a)
<1>1. all = out \o <<Flag, Text(a)>>
  BY DEF WithLockToAccount, Keeping, Keeps
<1>2. out \in Seq(Arguments \ {Flag})
  BY FlagDropped
<1> HIDE DEF out, all
<1>3. Len(out) \in Nat /\ \A i \in 1..Len(out) : out[i] \in Arguments /\ out[i] # Flag
  BY <1>2, LenProperties, ElementOfSeq
<1>4. Flag \in Arguments /\ Text(a) \in Arguments
  BY DEF Arguments, Text
<1>5. out \in Seq(Arguments) /\ <<Flag, Text(a)>> \in Seq(Arguments) /\ Len(<<Flag, Text(a)>>) = 2
  <2>1. out \in Seq(Arguments)
    BY <1>2, SeqMonotonic
  <2> QED
    BY <1>4, <2>1
<1>6. /\ all \in Seq(Arguments)
      /\ Len(all) = Len(out) + 2
      /\ \A i \in 1..(Len(out) + 2) :
           all[i] = IF i <= Len(out) THEN out[i] ELSE <<Flag, Text(a)>>[i - Len(out)]
  BY <1>1, <1>5, ConcatProperties
<1>7. all[Len(out) + 1] = Flag /\ all[Len(out) + 2] = Text(a)
  BY <1>3, <1>6
<1>8. \A i \in 1..Len(out) : all[i] # Flag
  BY <1>3, <1>6
<1>9. Len(all) >= 2 /\ Len(all) - 1 = Len(out) + 1 /\ Len(all) - 2 = Len(out)
  BY <1>3, <1>6
<1>10. /\ all[Len(all) - 1] = Flag /\ all[Len(all)] = Text(a)
       /\ \A i \in 1..(Len(all) - 2) : all[i] # Flag
  BY <1>6, <1>7, <1>8, <1>9
<1>11. Locked(all, a)
  BY <1>9, <1>10 DEF Locked
<1> QED
  BY <1>6, <1>11 DEF all

-----------------------------------------------------------------------------
\* What a hook makes of its chart's template.
LEMMA ContractForces ==
  ASSUME NEW r \in Releases, NEW s \in Sessions, NEW a \in Accounts,
         NEW pt \in PodTemplates, Anchors(pt)
  PROVE  LET new == ApplyContract(pt, BoxLabels(r, s, a), a)
         IN  /\ new \in PodTemplates
             /\ Forced(new, BoxLabels(r, s, a))
             /\ a # <<>> => Locked(new.args, a)
<1> DEFINE labels == BoxLabels(r, s, a)
           ls     == Merged(pt.labels, labels)
           new    == ApplyContract(pt, labels, a)
<1>1. pt \in PodTemplates
  OBVIOUS
<1>2. a # <<>> => a \in Words
  BY ContractAssumption
<1>3. labels \in [{"instance", "session", "account"} -> LabelWords]
  <2>1. r \in LabelWords /\ LabelOf[s] \in LabelWords /\ LabelOf[a] \in LabelWords
    BY ContractAssumption DEF LabelWords
  <2> QED
    BY <2>1 DEF BoxLabels
<1>4. /\ ls \in [DOMAIN pt.labels \cup {"instance", "session", "account"} -> LabelWords]
      /\ \A k \in {"instance", "session", "account"} : ls[k] = labels[k]
  <2> DEFINE k1 == DOMAIN pt.labels
             k2 == {"instance", "session", "account"}
  <2>1. k1 \in SUBSET Keys /\ pt.labels \in [k1 -> LabelWords]
    BY <1>1, LabelsIn
  <2>2. k2 \in SUBSET Keys
    BY DEF Keys
  <2> HIDE DEF k1, k2, labels
  <2>3. labels \in [k2 -> LabelWords]
    BY <1>3 DEF k2
  <2>4. ls \in [k1 \cup k2 -> LabelWords] /\ \A k \in k2 : ls[k] = labels[k]
    BY <2>1, <2>2, <2>3, MergedTyped
  <2> QED
    BY <2>4 DEF k1, k2
<1>5. [pt EXCEPT !.labels = ls] \in PodTemplates
  <2>1. DOMAIN pt.labels \cup {"instance", "session", "account"} \in SUBSET Keys
    BY <1>1, LabelsIn DEF Keys
  <2> QED
    BY <1>1, <1>4, <2>1, LabelsIn
<1>6. /\ new.labels = ls /\ new.mount = "workspace" /\ new.shadowed = FALSE
      /\ new.restart = "Never" /\ new.workOrder = "secret"
      /\ new.args = IF a = <<>> THEN pt.args ELSE WithLockToAccount(pt.args, a)
  BY <1>1 DEF ApplyContract, Anchors, PodTemplates
<1>7. new.args \in Seq(Arguments) /\ (a # <<>> => Locked(new.args, a))
  <2>1. pt.args \in Seq(Arguments)
    BY <1>1 DEF PodTemplates
  <2> QED
    BY <1>2, <1>6, <2>1, LockAppended
<1>8. new \in PodTemplates
  <2>1. new = [[pt EXCEPT !.labels = ls] EXCEPT
                 !.mount = "workspace", !.args = new.args, !.workOrder = "secret",
                 !.shadowed = FALSE, !.restart = "Never"]
    <3> HIDE DEF ls
    <3>1. pt.workOrder # "none"
      BY DEF Anchors
    <3> QED
      BY <1>1, <3>1 DEF ApplyContract, PodTemplates, ls
  <2> HIDE DEF ls, new
  <2> QED
    BY <1>5, <1>7, <2>1 DEF PodTemplates
<1>9. Forced(new, labels)
  BY <1>4, <1>6, LabelsTyped DEF Forced
<1> QED
  BY <1>7, <1>8, <1>9

\* The refresh keeps what the contract forced.
LEMMA RefreshKeeps ==
  ASSUME NEW old \in PodTemplates, NEW new \in PodTemplates, NEW labels,
         Forced(new, labels)
  PROVE  /\ Refreshed(old, new) \in PodTemplates
         /\ Refreshed(old, new).args = new.args
         /\ Forced(Refreshed(old, new), labels)
<1> DEFINE ls  == Merged(old.labels, new.labels)
           out == Refreshed(old, new)
<1>1. /\ ls \in [DOMAIN old.labels \cup DOMAIN new.labels -> LabelWords]
      /\ \A k \in DOMAIN new.labels : ls[k] = new.labels[k]
  <2> DEFINE k1 == DOMAIN old.labels
             k2 == DOMAIN new.labels
  <2>1. k1 \in SUBSET Keys /\ old.labels \in [k1 -> LabelWords]
    BY LabelsIn
  <2>2. k2 \in SUBSET Keys /\ new.labels \in [k2 -> LabelWords]
    BY LabelsIn
  <2> HIDE DEF k1, k2
  <2>3. ls \in [k1 \cup k2 -> LabelWords] /\ \A k \in k2 : ls[k] = new.labels[k]
    BY <2>1, <2>2, MergedTyped
  <2> QED
    BY <2>3 DEF k1, k2
<1>2. [new EXCEPT !.labels = ls] \in PodTemplates
  <2>1. DOMAIN old.labels \cup DOMAIN new.labels \in SUBSET Keys
    BY LabelsIn
  <2> QED
    BY <1>1, <2>1, LabelsIn
<1>3. /\ out.labels = ls /\ out.mount = new.mount /\ out.shadowed = new.shadowed
      /\ out.restart = new.restart /\ out.workOrder = new.workOrder /\ out.args = new.args
  BY DEF Refreshed, PodTemplates
<1>4. out \in PodTemplates
  <2> HIDE DEF ls
  <2>1. out = [[new EXCEPT !.labels = ls] EXCEPT
                 !.order  = IF old.order # NoOrder THEN old.order ELSE new.order,
                 !.secret = IF old.workOrder = "secret" THEN old.secret ELSE new.secret]
    BY DEF Refreshed, PodTemplates, ls
  <2> QED
    BY <1>2, <2>1 DEF PodTemplates
<1>5. Forced(out, labels)
  BY <1>1, <1>3 DEF Forced
<1> QED
  BY <1>3, <1>4, <1>5

\* Later orders change nothing about earlier ones.
LEMMA OrdersGrow ==
  ASSUME NEW os \in Seq(Accounts), NEW a \in Accounts, NEW pt
  PROVE  /\ Append(os, a) \in Seq(Accounts)
         /\ Len(Append(os, a)) = Len(os) + 1
         /\ Append(os, a)[Len(os) + 1] = a
         /\ Holds(pt, os) => Holds(pt, Append(os, a))
         /\ \A o \in 1..Len(os) : LockedTo(pt, os, o) => LockedTo(pt, Append(os, a), o)
<1>1. /\ Append(os, a) \in Seq(Accounts)
      /\ Len(Append(os, a)) = Len(os) + 1
      /\ Append(os, a)[Len(os) + 1] = a
      /\ \A o \in 1..Len(os) : Append(os, a)[o] = os[o]
  OBVIOUS
<1>2. Len(os) \in Nat
  OBVIOUS
<1> QED
  BY <1>1, <1>2 DEF Holds, LockedTo

LEMMA BoxGrows ==
  ASSUME NEW os \in Seq(Accounts), NEW a \in Accounts, NEW box, BoxInv(box, os)
  PROVE  BoxInv(box, Append(os, a))
<1>1. Len(os) \in Nat
  OBVIOUS
<1>2. /\ Len(Append(os, a)) = Len(os) + 1
      /\ Holds(box.pt, os) => Holds(box.pt, Append(os, a))
      /\ Holds(box.runner, os) => Holds(box.runner, Append(os, a))
      /\ \A o \in 1..Len(os) : LockedTo(box.pt, os, o) => LockedTo(box.pt, Append(os, a), o)
  BY OrdersGrow
<1>3. box.pending \in 0..Len(Append(os, a))
  BY <1>1, <1>2 DEF BoxInv
<1>4. box.mode = "Suspended" /\ box.pending # NoOrder
        => LockedTo(box.pt, Append(os, a), box.pending)
  BY <1>1, <1>2 DEF BoxInv, NoOrder
<1> QED
  BY <1>2, <1>3, <1>4 DEF BoxInv

-----------------------------------------------------------------------------
LEMMA InitHolds == Init => CInv
<1> SUFFICES ASSUME Init PROVE CInv
  OBVIOUS
<1>1. DOMAIN boxes = {}
  BY DEF Init
<1>2. charts \in [Releases -> PodTemplates]
  BY OverlayAssumption DEF Init
<1>3. orders \in Seq(Accounts) /\ Len(orders) <= MaxOrders /\ upgrades \in 0..MaxUpgrades
  BY ContractAssumption DEF Init
<1> QED
  BY <1>1, <1>2, <1>3 DEF CInv, ContractTypeOK

\* A step of the controllers replaces one Sandbox.
LEMMA BoxChanged ==
  ASSUME CInv, NEW n \in DOMAIN boxes, NEW box, Updates(n, box), BoxInv(box, orders)
  PROVE  CInv'
<1>1. /\ DOMAIN boxes' = DOMAIN boxes
      /\ \A m \in DOMAIN boxes' : BoxInv(boxes'[m], orders)
  BY DEF CInv, Updates
<1>2. orders' = orders /\ charts' = charts /\ upgrades' = upgrades
  BY DEF Updates
<1>3. ContractTypeOK'
  BY <1>1, <1>2 DEF CInv, ContractTypeOK, BoxInv
<1> QED
  BY <1>1, <1>2, <1>3 DEF CInv

LEMMA UpgradeStep == ASSUME CInv, NEW r \in Releases, Upgrade(r) PROVE CInv'
<1>1. PICK pt \in Overlays : charts' = [charts EXCEPT ![r] = pt]
  BY DEF Upgrade
<1>2. charts' \in [Releases -> PodTemplates]
  BY <1>1, OverlayAssumption DEF CInv, ContractTypeOK
<1>3. upgrades' \in 0..MaxUpgrades /\ boxes' = boxes /\ orders' = orders
  BY ContractAssumption DEF Upgrade, CInv, ContractTypeOK
<1> QED
  BY <1>2, <1>3 DEF CInv, ContractTypeOK

LEMMA WakeStep == ASSUME CInv, NEW n \in DOMAIN boxes, Wake(n) PROVE CInv'
<1> DEFINE box == boxes[n]
           pt  == Installed(box.pt, box.pending)
           new == [box EXCEPT !.mode = "Running", !.pt = pt]
<1>1. BoxInv(box, orders) /\ Wakeable(box) /\ Updates(n, new)
  BY DEF Wake, CInv
<1>2. Len(orders) \in Nat
  BY DEF CInv, ContractTypeOK
<1>3. pt \in PodTemplates /\ pt.args = box.pt.args /\ pt.order = box.pending
        /\ pt.secret = box.pending
  <2>1. box.pending \in Nat
    BY <1>1, <1>2 DEF BoxInv
  <2>2. box.pt \in PodTemplates
    BY <1>1 DEF BoxInv, Boxes
  <2> HIDE DEF box
  <2> QED
    BY <2>1, <2>2 DEF PodTemplates, Installed
<1>4. Holds(pt, orders)
  <2>1. box.pending \in 1..Len(orders) /\ LockedTo(box.pt, orders, box.pending)
    BY <1>1, <1>2 DEF BoxInv, Wakeable, NoOrder
  <2> QED
    BY <1>3, <2>1 DEF Holds, LockedTo
<1>5. Forced(pt, box.labels)
  BY <1>1 DEF BoxInv, Boxes, PodTemplates, Forced, Installed
<1>6. /\ new \in Boxes /\ new.mode = "Running" /\ new.pt = pt /\ new.pending = box.pending
      /\ new.runner = box.runner /\ new.labels = box.labels /\ new.takers = box.takers
  <2> HIDE DEF pt
  <2> QED
    BY <1>1, <1>3 DEF BoxInv, Boxes
<1>7. BoxInv(new, orders)
  <2> HIDE DEF pt, new
  <2> QED
    BY <1>1, <1>4, <1>5, <1>6 DEF BoxInv, Owned
<1> QED
  BY <1>1, <1>7, BoxChanged

LEMMA PodStep ==
  ASSUME CInv, NEW n \in DOMAIN boxes, PodStarts(n) \/ PodGoes(n)
  PROVE  CInv'
<1> DEFINE box == boxes[n]
<1>1. BoxInv(box, orders)
  BY DEF CInv
<1>2. CASE PodStarts(n)
  <2> DEFINE new == [box EXCEPT !.runner = box.pt]
  <2>1. /\ new \in Boxes /\ new.runner = box.pt /\ new.mode = box.mode /\ new.pt = box.pt
        /\ new.pending = box.pending /\ new.labels = box.labels /\ new.takers = box.takers
    BY <1>1 DEF BoxInv, Boxes
  <2>2. box.mode = "Running" /\ Updates(n, new)
    BY <1>2 DEF PodStarts
  <2>3. BoxInv(new, orders)
    <3> HIDE DEF new
    <3> QED
      BY <1>1, <2>1, <2>2 DEF BoxInv, Owned
  <2> QED
    BY <2>2, <2>3, BoxChanged
<1>3. CASE PodGoes(n)
  <2> DEFINE new == [box EXCEPT !.runner = NoPod]
  <2>1. /\ new \in Boxes /\ new.runner = NoPod /\ new.mode = box.mode /\ new.pt = box.pt
        /\ new.pending = box.pending /\ new.labels = box.labels /\ new.takers = box.takers
    BY <1>1 DEF BoxInv, Boxes
  <2>2. Updates(n, new)
    BY <1>3 DEF PodGoes
  <2>3. BoxInv(new, orders)
    <3> HIDE DEF new
    <3> QED
      BY <1>1, <2>1 DEF BoxInv, Owned
  <2> QED
    BY <2>2, <2>3, BoxChanged
<1> QED
  BY <1>2, <1>3

LEMMA SettleStep ==
  ASSUME CInv, NEW n \in DOMAIN boxes, SpawnObserved(n) \/ Sleep(n)
  PROVE  CInv'
<1> DEFINE box == boxes[n]
<1>1. BoxInv(box, orders)
  BY DEF CInv
<1>2. CASE SpawnObserved(n)
  <2> DEFINE new == [box EXCEPT !.pending = NoOrder]
  <2>1. /\ new \in Boxes /\ new.runner = box.runner /\ new.mode = box.mode /\ new.pt = box.pt
        /\ new.pending = 0 /\ new.labels = box.labels /\ new.takers = box.takers
    BY <1>1, ContractAssumption DEF BoxInv, Boxes, NoOrder
  <2>2. Updates(n, new)
    BY <1>2 DEF SpawnObserved
  <2>3. BoxInv(new, orders)
    <3> HIDE DEF new
    <3>1. 0 \in 0..Len(orders)
      BY DEF CInv, ContractTypeOK
    <3> QED
      BY <1>1, <2>1, <3>1 DEF BoxInv, Owned, NoOrder
  <2> QED
    BY <2>2, <2>3, BoxChanged
<1>3. CASE Sleep(n)
  <2> DEFINE new == [box EXCEPT !.mode = "Suspended"]
  <2>1. /\ new \in Boxes /\ new.runner = box.runner /\ new.mode = "Suspended"
        /\ new.pt = box.pt /\ new.pending = box.pending
        /\ new.labels = box.labels /\ new.takers = box.takers
    BY <1>1 DEF BoxInv, Boxes
  <2>2. Updates(n, new) /\ box.pending = NoOrder
    BY <1>3 DEF Sleep
  <2>3. BoxInv(new, orders)
    <3> HIDE DEF new
    <3> QED
      BY <1>1, <2>1, <2>2 DEF BoxInv, Owned
  <2> QED
    BY <2>2, <2>3, BoxChanged
<1> QED
  BY <1>2, <1>3

LEMMA CollectStep == ASSUME CInv, NEW n \in DOMAIN boxes, Collect(n) PROVE CInv'
<1>1. /\ DOMAIN boxes' = DOMAIN boxes \ {n}
      /\ \A m \in DOMAIN boxes' : boxes'[m] = boxes[m]
      /\ charts' = charts /\ orders' = orders /\ upgrades' = upgrades
  BY DEF Collect
<1> QED
  BY <1>1 DEF CInv, ContractTypeOK

\* Any Sandbox with these fields, just after order Len(os) + 1 of account a.
LEMMA BoxAfterSpawn ==
  ASSUME NEW r \in Releases, NEW s \in Sessions, NEW a \in Accounts,
         NEW os \in Seq(Accounts), Len(os) + 1 <= MaxOrders,
         NEW box \in Boxes, box.pending = Len(os) + 1, box.mode = "Suspended",
         a # <<>> => Locked(box.pt.args, a),
         Forced(box.pt, box.labels),
         box.labels.instance = r, box.labels.session = LabelOf[s],
         box.takers = {<<r, s>>},
         box.runner # NoPod => Holds(box.runner, os) /\ Forced(box.runner, box.labels)
  PROVE  BoxInv(box, Append(os, a))
<1>1. /\ Len(Append(os, a)) = Len(os) + 1
      /\ Append(os, a)[Len(os) + 1] = a
      /\ Holds(box.runner, os) => Holds(box.runner, Append(os, a))
  BY OrdersGrow
<1>2. Len(os) \in Nat
  OBVIOUS
<1>3. box.pending \in 0..Len(Append(os, a))
  BY <1>1, <1>2
<1>4. LockedTo(box.pt, Append(os, a), box.pending)
  BY <1>1 DEF LockedTo
<1>5. Owned(box)
  BY DEF Owned
<1> QED
  BY <1>1, <1>3, <1>4, <1>5 DEF BoxInv

LEMMA SpawnStep ==
  ASSUME CInv, NEW r \in Releases, NEW s \in Sessions, NEW a \in Accounts, Spawn(r, s, a)
  PROVE  CInv'
<1> DEFINE n      == NameOf[r][s]
           labels == BoxLabels(r, s, a)
           pt     == ApplyContract(charts[r], labels, a)
           o      == Len(orders) + 1
           Taken(box) == [box EXCEPT !.takers = @ \cup {<<r, s>>}]
<1>1. /\ o <= MaxOrders /\ Anchors(charts[r])
      /\ orders' = Append(orders, a) /\ charts' = charts /\ upgrades' = upgrades
  BY DEF Spawn
<1>2. /\ orders \in Seq(Accounts) /\ Len(orders) \in Nat
      /\ orders' \in Seq(Accounts) /\ Len(orders') = o
  BY <1>1, OrdersGrow DEF CInv, ContractTypeOK
<1>3. pt \in PodTemplates /\ Forced(pt, labels) /\ (a # <<>> => Locked(pt.args, a))
  <2>1. charts[r] \in PodTemplates
    BY DEF CInv, ContractTypeOK
  <2> QED
    BY <1>1, <2>1, ContractForces
<1>4. n \in Names
  <2>1. <<r, s>> \in Releases \X Sessions /\ <<r, s>>[1] = r /\ <<r, s>>[2] = s
    OBVIOUS
  <2> QED
    BY <2>1 DEF Names
<1>5. \A m \in DOMAIN boxes : BoxInv(boxes[m], orders')
  BY <1>1, <1>2, BoxGrows DEF CInv
<1>6. /\ labels.instance = r /\ labels.session = LabelOf[s]
      /\ labels \in [ instance : Releases,
                      session  : {LabelOf[x] : x \in Sessions},
                      account  : {LabelOf[x] : x \in Accounts} ]
  BY LabelsTyped DEF BoxLabels
<1>7. CASE /\ n \notin DOMAIN boxes
           /\ boxes' = [m \in DOMAIN boxes \cup {n} |->
                          IF m = n THEN Taken(NewBox(labels, pt, o)) ELSE boxes[m]]
  <2> DEFINE box == Taken(NewBox(labels, pt, o))
  <2>1. /\ box.labels = labels /\ box.pt = pt /\ box.mode = "Suspended" /\ box.pending = o
        /\ box.runner = NoPod /\ box.takers = {<<r, s>>}
    BY DEF NewBox
  <2>2. box \in Boxes
    <3>1. o \in 0..MaxOrders
      BY <1>1, <1>2, ContractAssumption
    <3>2. box = [labels |-> labels, pt |-> pt, mode |-> "Suspended", pending |-> o,
                 runner |-> NoPod, takers |-> {<<r, s>>}]
      <4> HIDE DEF labels, pt, o
      <4> QED
        BY DEF NewBox
    <3> HIDE DEF labels, pt, o, box
    <3> QED
      BY <1>3, <1>6, <3>1, <3>2 DEF Boxes
  <2>3. BoxInv(box, orders')
    <3> HIDE DEF box, labels, pt
    <3> QED
      BY <1>1, <1>2, <1>3, <1>6, <2>1, <2>2, BoxAfterSpawn
  <2>4. \A m \in DOMAIN boxes' : boxes'[m] = box \/ (m \in DOMAIN boxes /\ boxes'[m] = boxes[m])
    BY <1>7
  <2>5. DOMAIN boxes' \subseteq Names
    BY <1>4, <1>7 DEF CInv, ContractTypeOK
  <2> HIDE DEF box
  <2>6. \A m \in DOMAIN boxes' : BoxInv(boxes'[m], orders')
    BY <1>5, <2>3, <2>4
  <2> QED
    BY <1>1, <1>2, <2>5, <2>6 DEF CInv, ContractTypeOK, BoxInv
<1>8. CASE /\ n \in DOMAIN boxes
           /\ Evaluated(boxes[n], r, s)
           /\ boxes' = [boxes EXCEPT ![n] = Taken(Published(@, pt, o))]
  <2> DEFINE old == boxes[n]
             rpt == Refreshed(old.pt, pt)
             box == Taken(Published(old, pt, o))
  <2>1. BoxInv(old, orders)
    BY <1>8 DEF CInv
  <2>2. old.labels.instance = r /\ old.labels.session = LabelOf[s]
    BY <1>8 DEF Evaluated
  <2>3. old.takers = {<<r, s>>}
    BY <2>1, <2>2, LabelsApart DEF BoxInv, Owned
  <2>4. rpt \in PodTemplates /\ rpt.args = pt.args /\ Forced(rpt, labels)
    <3>1. old.pt \in PodTemplates
      BY <2>1 DEF BoxInv, Boxes
    <3> HIDE DEF old, pt, labels
    <3> QED
      BY <1>3, <3>1, RefreshKeeps
  <2>5. /\ box.labels = old.labels /\ box.pt = rpt /\ box.mode = "Suspended"
        /\ box.pending = o /\ box.runner = old.runner /\ box.takers = {<<r, s>>}
    <3> HIDE DEF pt
    <3> QED
      BY <2>1, <2>3 DEF BoxInv, Boxes, Published
  <2>6. box \in Boxes
    <3>1. o \in 0..MaxOrders
      BY <1>1, <1>2, ContractAssumption
    <3>2. box = [old EXCEPT !.pt = rpt, !.mode = "Suspended", !.pending = o,
                            !.takers = {<<r, s>>}]
      <4> HIDE DEF pt
      <4> QED
        BY <2>1, <2>3 DEF BoxInv, Boxes, Published
    <3>3. old \in Boxes /\ {<<r, s>>} \in SUBSET (Releases \X Sessions)
      <4>1. old \in Boxes
        BY <2>1 DEF BoxInv
      <4> HIDE DEF old
      <4> QED
        BY <4>1
    <3>4. /\ old.labels \in [ instance : Releases,
                              session  : {LabelOf[x] : x \in Sessions},
                              account  : {LabelOf[x] : x \in Accounts} ]
          /\ old.runner \in PodTemplates \cup {NoPod}
          /\ old = [labels |-> old.labels, pt |-> old.pt, mode |-> old.mode,
                    pending |-> old.pending, runner |-> old.runner, takers |-> old.takers]
      <4> HIDE DEF old
      <4> QED
        BY <3>3 DEF Boxes
    <3>5. box = [labels |-> old.labels, pt |-> rpt, mode |-> "Suspended", pending |-> o,
                 runner |-> old.runner, takers |-> {<<r, s>>}]
      <4> HIDE DEF old, rpt, o, box
      <4> QED
        BY <3>2, <3>4
    <3> HIDE DEF old, rpt, o, box
    <3> QED
      BY <2>4, <3>1, <3>3, <3>4, <3>5 DEF Boxes
  <2>7. Forced(box.pt, box.labels)
    BY <1>6, <2>2, <2>4, <2>5 DEF Forced
  <2>8. BoxInv(box, orders')
    <3> HIDE DEF box, old, rpt, labels, pt
    <3> QED
      BY <1>1, <1>2, <1>3, <2>1, <2>2, <2>4, <2>5, <2>6, <2>7, BoxAfterSpawn DEF BoxInv
  <2>9. /\ DOMAIN boxes' = DOMAIN boxes
        /\ \A m \in DOMAIN boxes' : boxes'[m] = box \/ boxes'[m] = boxes[m]
    BY <1>8
  <2> HIDE DEF box
  <2>10. \A m \in DOMAIN boxes' : BoxInv(boxes'[m], orders')
    BY <1>5, <2>8, <2>9
  <2> QED
    BY <1>1, <1>2, <2>9, <2>10 DEF CInv, ContractTypeOK, BoxInv
<1> QED
  BY <1>7, <1>8 DEF Spawn

-----------------------------------------------------------------------------
LEMMA NextHolds == CInv /\ [Next]_vars => CInv'
<1> SUFFICES ASSUME CInv, [Next]_vars PROVE CInv'
  OBVIOUS
<1>1. CASE UNCHANGED vars
  BY <1>1 DEF CInv, ContractTypeOK, vars
<1>2. ASSUME NEW r \in Releases, Upgrade(r) PROVE CInv'
  BY <1>2, UpgradeStep
<1>3. ASSUME NEW r \in Releases, NEW s \in Sessions, NEW a \in Accounts, Spawn(r, s, a)
      PROVE  CInv'
  BY <1>3, SpawnStep
<1>4. ASSUME NEW n \in DOMAIN boxes, Wake(n) PROVE CInv'
  BY <1>4, WakeStep
<1>5. ASSUME NEW n \in DOMAIN boxes, PodStarts(n) \/ PodGoes(n) PROVE CInv'
  BY <1>5, PodStep
<1>6. ASSUME NEW n \in DOMAIN boxes, SpawnObserved(n) \/ Sleep(n) PROVE CInv'
  BY <1>6, SettleStep
<1>7. ASSUME NEW n \in DOMAIN boxes, Collect(n) PROVE CInv'
  BY <1>7, CollectStep
<1> QED
  BY <1>1, <1>2, <1>3, <1>4, <1>5, <1>6, <1>7 DEF Next

\* ContractInvariance: what the properties rest on holds in every reachable state.
THEOREM ContractInvariance == Spec => []CInv
<1> QED
  BY InitHolds, NextHolds, PTL DEF Spec

\* ContractTypeCorrect: names, labels, templates and Pods stay what their types say.
THEOREM ContractTypeCorrect == Spec => []ContractTypeOK
<1>1. CInv => ContractTypeOK
  BY DEF CInv
<1> QED
  BY <1>1, ContractInvariance, PTL

\* NeverShared: no Sandbox ever accepts orders of two sessions or of two releases,
\* whatever names SandboxName derives (hook.go evaluate, createSandbox).
THEOREM NeverShared == Spec => []NoSharing
<1>1. CInv => NoSharing
  <2> SUFFICES ASSUME CInv, NEW n \in DOMAIN boxes
               PROVE  \E t \in Releases \X Sessions : boxes[n].takers = {t}
    BY DEF NoSharing
  <2>1. PICK r \in Releases, s \in Sessions : boxes[n].takers = {<<r, s>>}
    BY DEF CInv, BoxInv, Owned
  <2>2. <<r, s>> \in Releases \X Sessions
    OBVIOUS
  <2> QED
    BY <2>1, <2>2
<1> QED
  BY <1>1, ContractInvariance, PTL

\* A Sandbox has the name of the session it serves.
BoxesNamed ==
  \A n \in DOMAIN boxes :
    \E r \in Releases, s \in Sessions : n = NameOf[r][s] /\ boxes[n].takers = {<<r, s>>}

LEMMA NextBoxesNamed == BoxesNamed /\ CInv /\ CInv' /\ [Next]_vars => BoxesNamed'
<1> SUFFICES ASSUME BoxesNamed, CInv, CInv', [Next]_vars PROVE BoxesNamed'
  OBVIOUS
<1>1. \A n \in DOMAIN boxes : boxes[n] \in Boxes
  BY DEF CInv, ContractTypeOK
<1>2. ASSUME \A n \in DOMAIN boxes' : n \in DOMAIN boxes /\ boxes'[n].takers = boxes[n].takers
      PROVE  BoxesNamed'
  BY <1>2 DEF BoxesNamed
<1>3. ASSUME NEW n \in DOMAIN boxes, NEW box, Updates(n, box), box.takers = boxes[n].takers
      PROVE  BoxesNamed'
  BY <1>2, <1>3 DEF Updates
<1>4. ASSUME NEW r \in Releases, NEW s \in Sessions, NEW a \in Accounts, Spawn(r, s, a)
      PROVE  BoxesNamed'
  <2> DEFINE n      == NameOf[r][s]
             labels == BoxLabels(r, s, a)
             pt     == ApplyContract(charts[r], labels, a)
             o      == Len(orders) + 1
             Taken(box) == [box EXCEPT !.takers = @ \cup {<<r, s>>}]
  <2>1. /\ n \in DOMAIN boxes'
        /\ <<r, s>> \in boxes'[n].takers
        /\ \A m \in DOMAIN boxes' : m = n \/ (m \in DOMAIN boxes /\ boxes'[m] = boxes[m])
    <3>1. \/ /\ n \notin DOMAIN boxes
             /\ boxes' = [m \in DOMAIN boxes \cup {n} |->
                            IF m = n THEN Taken(NewBox(labels, pt, o)) ELSE boxes[m]]
          \/ /\ n \in DOMAIN boxes
             /\ boxes' = [boxes EXCEPT ![n] = Taken(Published(@, pt, o))]
      BY <1>4 DEF Spawn
    <3> HIDE DEF n, labels, pt, o
    <3>2. Taken(NewBox(labels, pt, o)).takers = {<<r, s>>}
      BY DEF NewBox
    <3>3. ASSUME NEW box \in Boxes PROVE <<r, s>> \in Taken(Published(box, pt, o)).takers
      BY DEF Published, Boxes
    <3> HIDE DEF Taken
    <3> QED
      BY <1>1, <3>1, <3>2, <3>3
  <2>2. boxes'[n].takers = {<<r, s>>}
    BY <2>1 DEF CInv, BoxInv, Owned
  <2> HIDE DEF n
  <2>3. ASSUME NEW m \in DOMAIN boxes'
        PROVE  \E x \in Releases, y \in Sessions :
                 m = NameOf[x][y] /\ boxes'[m].takers = {<<x, y>>}
    BY <2>1, <2>2 DEF BoxesNamed, n
  <2> QED
    BY <2>3 DEF BoxesNamed
<1>5. CASE \E r \in Releases : Upgrade(r)
  BY <1>2, <1>5 DEF Upgrade
<1>6. ASSUME NEW n \in DOMAIN boxes, Wake(n) \/ PodStarts(n) \/ PodGoes(n) \/ SpawnObserved(n) \/ Sleep(n)
      PROVE  BoxesNamed'
  BY <1>1, <1>3, <1>6 DEF Wake, PodStarts, PodGoes, SpawnObserved, Sleep, Boxes
<1>7. ASSUME NEW n \in DOMAIN boxes, Collect(n) PROVE BoxesNamed'
  BY <1>2, <1>7 DEF Collect
<1>8. CASE UNCHANGED vars
  BY <1>2, <1>8 DEF vars
<1> QED
  BY <1>4, <1>5, <1>6, <1>7, <1>8 DEF Next

\* NoneInTheWay: within a release, what a session finds under its name is its own, for any
\* words and limits, if no hash occurs in a word or is that of two (naming.go scopedName,
\* hook.go evaluate).
THEOREM NoneInTheWay == Spec => []OwnSandbox
<1>1. Init => BoxesNamed
  BY DEF Init, BoxesNamed
<1>2. ASSUME CInv, BoxesNamed PROVE OwnSandbox
  <2> SUFFICES ASSUME NEW r \in Releases, NEW s \in Sessions, NameOf[r][s] \in DOMAIN boxes,
                      boxes[NameOf[r][s]].labels.instance = r
               PROVE  boxes[NameOf[r][s]].takers = {<<r, s>>}
    BY DEF OwnSandbox
  <2> DEFINE box == boxes[NameOf[r][s]]
  <2>1. PICK x \in Releases, y \in Sessions :
          NameOf[r][s] = NameOf[x][y] /\ box.takers = {<<x, y>>}
    BY <1>2 DEF BoxesNamed
  <2>2. PICK u \in Releases, v \in Sessions : box.takers = {<<u, v>>} /\ u = r
    BY <1>2 DEF CInv, BoxInv, Owned
  <2> HIDE DEF box
  <2>3. x = r
    <3>1. <<x, y>> = <<u, v>>
      BY <2>1, <2>2
    <3> QED
      BY <2>2, <3>1
  <2>4. SandboxName(r, s) = SandboxName(r, y)
    BY <2>1, <2>3 DEF NameOf
  <2>5. s = y
    BY <2>4, NamesDiffer, ContractAssumption
  <2> QED
    BY <2>1, <2>3, <2>5 DEF box
<1> QED
  BY <1>1, <1>2, NextBoxesNamed, ContractInvariance, PTL DEF Spec

\* NeverRefused: the API server admits the name and labels of every session, for any words
\* and limits, if ids have a letter or digit (naming.go scopedName, LabelValue).
THEOREM NeverRefused == Spec => []NamesAdmitted
<1>1. ASSUME NEW r \in Releases, NEW s \in Sessions, NEW a \in Accounts,
             ToSet(s) \cap Alnum # {}, a = <<>> \/ ToSet(a) \cap Alnum # {}
      PROVE  Admits[r][s][a]
  <2>1. ValidName(NameOf[r][s])
    BY NamesAreValid, ContractAssumption DEF NameOf
  <2>2. ValidLabel(LabelOf[s])
    BY <1>1, LabelsAreValid, ContractAssumption DEF LabelOf
  <2>3. LabelOf[a] = <<>> \/ ValidLabel(LabelOf[a])
    <3>1. CASE a = <<>>
      BY <3>1 DEF LabelOf, LabelValue
    <3>2. CASE a # <<>>
      BY <1>1, <3>2, LabelsAreValid, ContractAssumption DEF LabelOf
    <3> QED
      BY <3>1, <3>2
  <2> DEFINE labels == BoxLabels(r, s, a)
  <2>4. /\ DOMAIN labels = {"instance", "session", "account"}
        /\ labels["instance"] = r /\ labels["session"] = LabelOf[s] /\ labels["account"] = LabelOf[a]
    BY LabelsTyped
  <2> HIDE DEF labels
  <2>5. \A k \in DOMAIN labels : labels[k] = <<>> \/ ValidLabel(labels[k])
    BY <2>2, <2>3, <2>4, ContractAssumption
  <2> QED
    BY <2>1, <2>5 DEF Admits, labels
<1>2. NamesAdmitted
  BY <1>1 DEF NamesAdmitted
<1> QED
  BY <1>2, PTL

\* SelectorsFindRunners: every runner Pod has the labels, claim and restart policy that
\* ApplyContract forces, whatever the chart merged, however often it was upgraded and
\* the template refreshed (template.go ApplyContract, hook.go publishNewer).
THEOREM SelectorsFindRunners == Spec => []ContractHeld
<1>1. CInv => ContractHeld
  BY DEF CInv, BoxInv, Forced, ContractHeld
<1> QED
  BY <1>1, ContractInvariance, PTL

\* RunnersHoldTheirOrders: every runner Pod has the Secret of the one order it was created
\* for, and its arguments end in --lock-to-account and the account of that order, which
\* comes nowhere else as an argument of its own, for any arguments an overlay has, also
\* while a newer order is already accepted (hook.go publishNewer, reconciler.go wake,
\* template.go withLockToAccount).
THEOREM RunnersHoldTheirOrders == Spec => []RunnerHoldsItsOrder
<1>1. CInv => RunnerHoldsItsOrder
  <2> SUFFICES ASSUME CInv, NEW n \in DOMAIN boxes, boxes[n].runner # NoPod
               PROVE  LET pod == boxes[n].runner
                      IN  /\ pod.order \in DOMAIN orders
                          /\ pod.secret = pod.order
                          /\ orders[pod.order] # <<>> => Locked(pod.args, orders[pod.order])
    BY DEF RunnerHoldsItsOrder
  <2>1. Holds(boxes[n].runner, orders)
    BY DEF CInv, BoxInv
  <2>2. DOMAIN orders = 1..Len(orders)
    BY DEF CInv, ContractTypeOK
  <2> QED
    BY <2>1, <2>2 DEF Holds, LockedTo
<1> QED
  BY <1>1, ContractInvariance, PTL

\* WakeNeverBlocked: Wake always finds the work-order volume in the podTemplate of an
\* order it comes to (reconciler.go wake, template.go ValidateAnchors).
THEOREM WakeNeverBlocked == Spec => []WakeInstalls
<1>1. CInv => WakeInstalls
  BY DEF CInv, BoxInv, Forced, WakeInstalls
<1> QED
  BY <1>1, ContractInvariance, PTL
=============================================================================
