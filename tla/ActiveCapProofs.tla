--------------------------- MODULE ActiveCapProofs ---------------------------
(***************************************************************************)
(* Overshoot for any number of sessions and hooks.  CapInv is inductive:   *)
(* a hook let in by its count found at most MaxActive - 1 other sessions   *)
(* holding a slot, and besides its own at most one session per other hook  *)
(* can have been let in at that moment; every other step only shrinks      *)
(* Active \cup Claimed.                                                    *)
(***************************************************************************)
EXTENDS ActiveCap, FiniteSetTheorems, TLAPS

Held == Active \cup Claimed

\* The sets that are counted are finite, and smaller sets count less.
LEMMA HeldFinite ==
  /\ Active \subseteq Sessions
  /\ Claimed \subseteq Sessions
  /\ \A S, T : T \subseteq Sessions /\ S \subseteq T =>
       /\ IsFiniteSet(S) /\ IsFiniteSet(T)
       /\ Cardinality(S) \in Nat /\ Cardinality(T) \in Nat
       /\ Cardinality(S) <= Cardinality(T)
<1>1. Active \subseteq Sessions /\ Claimed \subseteq Sessions
  BY DEF Active, Claimed
<1>2. ASSUME NEW S, NEW T, T \subseteq Sessions, S \subseteq T
      PROVE  /\ IsFiniteSet(S) /\ IsFiniteSet(T)
             /\ Cardinality(S) \in Nat /\ Cardinality(T) \in Nat
             /\ Cardinality(S) <= Cardinality(T)
  <2>1. IsFiniteSet(T)
    BY <1>2, CapAssumption, FS_Subset
  <2>2. IsFiniteSet(S) /\ Cardinality(S) <= Cardinality(T)
    BY <1>2, <2>1, FS_Subset
  <2> QED
    BY <2>1, <2>2, FS_CardinalityType
<1> QED
  BY <1>1, <1>2

LEMMA HooksCounted == Cardinality(Hooks) \in Nat /\ Cardinality(Hooks) > 0
BY CapAssumption, FS_CardinalityType, FS_EmptySet

\* Where nothing new is held, the bound stays.
LEMMA BoundKept ==
  ASSUME CapInv, Held' \subseteq Held
  PROVE  Cardinality(Held') < MaxActive + Cardinality(Hooks)
<1>1. Held \subseteq Sessions
  BY HeldFinite DEF Held
<1>2. Cardinality(Held') <= Cardinality(Held) /\ Cardinality(Held') \in Nat
      /\ Cardinality(Held) \in Nat
  BY <1>1, HeldFinite
<1> QED
  BY <1>2, HooksCounted, CapAssumption DEF CapInv, Held

\* Sessions that hooks other than h are working on.
LEMMA OthersBounded ==
  ASSUME NEW h \in Hooks, NEW f \in [Hooks -> Sessions \cup {Nil}]
  PROVE  LET T == {f[g] : g \in Hooks \ {h}}
         IN  IsFiniteSet(T) /\ Cardinality(T) \in Nat /\ Cardinality(T) < Cardinality(Hooks)
<1> DEFINE R == Hooks \ {h}
           T == {f[g] : g \in R}
           F == [g \in R |-> f[g]]
<1>1. IsFiniteSet(R) /\ Cardinality(R) = Cardinality(Hooks) - 1
  BY CapAssumption, FS_RemoveElement
<1>2. F \in Surjection(R, T)
  BY DEF Surjection
<1>3. IsFiniteSet(T) /\ Cardinality(T) <= Cardinality(R)
  BY <1>1, <1>2, FS_Surjection
<1>4. Cardinality(T) \in Nat
  BY <1>3, FS_CardinalityType
<1> QED
  BY <1>1, <1>3, <1>4, HooksCounted

\* A hook is let in: MaxActive - 1 others, itself, and one session per other hook.
LEMMA ListBound ==
  ASSUME CapInv, NEW h \in Hooks, List(h)
  PROVE  Cardinality(Held') < MaxActive + Cardinality(Hooks)
<1> DEFINE s == calls[h].session
           f == [g \in Hooks |-> calls[g].session]
           T == {f[g] : g \in Hooks \ {h}}
           A == Active \ {s}
<1>1. calls \in [Hooks -> Calls] /\ boxes' = boxes
      /\ calls' = [calls EXCEPT ![h].pc = "write"]
  BY DEF CapInv, CapTypeOK, List
<1>2. f \in [Hooks -> Sessions \cup {Nil}]
  BY <1>1 DEF Calls
<1>3. IsFiniteSet(T) /\ Cardinality(T) \in Nat /\ Cardinality(T) < Cardinality(Hooks)
  BY <1>2, OthersBounded
<1>4. IsFiniteSet(A) /\ Cardinality(A) \in Nat /\ Cardinality(A) < MaxActive
  BY HeldFinite DEF List, HasRoom
<1>5. \A g \in Hooks : calls'[g].session = calls[g].session
  BY <1>1 DEF Calls
<1>6. Active' = Active
  BY <1>1 DEF Active
<1>7. Claimed' \subseteq T \cup {s}
  BY <1>5 DEF Claimed
<1>8. Held' \subseteq (A \cup T) \cup {s}
  BY <1>6, <1>7 DEF Held
<1>9. IsFiniteSet(A \cup T) /\ Cardinality(A \cup T) <= Cardinality(A) + Cardinality(T)
  <2>1. /\ IsFiniteSet(A \cup T)
        /\ Cardinality(A \cup T) = Cardinality(A) + Cardinality(T) - Cardinality(A \cap T)
    BY <1>3, <1>4, FS_Union
  <2>2. Cardinality(A \cap T) \in Nat
    BY <1>4, FS_Intersection, FS_CardinalityType
  <2> QED
    BY <1>3, <1>4, <2>1, <2>2
<1>10. Cardinality(A \cup T) \in Nat
  BY <1>9, FS_CardinalityType
<1> DEFINE W == A \cup T
           U == W \cup {s}
<1>11. IsFiniteSet(U) /\ Cardinality(U) <= Cardinality(W) + 1
  <2>1. IsFiniteSet(W) /\ Cardinality(W) \in Nat
    BY <1>9, <1>10
  <2> HIDE DEF W
  <2>2. /\ IsFiniteSet(U)
        /\ Cardinality(U) = IF s \in W THEN Cardinality(W) ELSE Cardinality(W) + 1
    BY <2>1, FS_AddElement
  <2> QED
    BY <2>1, <2>2
<1>12. Cardinality(Held') <= Cardinality(U)
  BY <1>8, <1>11, FS_Subset
<1>13. Cardinality(Held') \in Nat /\ Cardinality(U) \in Nat
  BY <1>8, <1>11, FS_Subset, FS_CardinalityType
<1> HIDE DEF U, A, T
<1> QED
  BY <1>3, <1>4, <1>9, <1>10, <1>11, <1>12, <1>13, HooksCounted, CapAssumption

-----------------------------------------------------------------------------
\* The parts of CapInv that are about one invocation.
CallsSound ==
  /\ \A h \in Hooks : calls[h].pc # "idle" => calls[h].session # Nil
  /\ \A h \in Hooks : calls[h].pc = "list" => calls[h].claims
  /\ \A h \in Hooks : calls[h].pc = "write" /\ ~calls[h].claims =>
       ~calls[h].absent /\ (calls[h].current => calls[h].session \in Active)

\* An invocation starts, reads, is refused or ends: nothing more is held.
LEMMA QuietStep ==
  ASSUME CapInv, NEW h \in Hooks, UNCHANGED boxes, NEW i \in Calls,
         calls' = [calls EXCEPT ![h] = i],
         i.pc # "idle" => i.session # Nil,
         i.pc = "list" => i.claims,
         i.pc = "write" => /\ ~i.claims
                           /\ ~i.absent
                           /\ i.session \in Active
  PROVE  CapInv'
<1>1. CapTypeOK' /\ Active' = Active
  BY DEF CapInv, CapTypeOK, Active
<1>2. CallsSound'
  BY <1>1 DEF CapInv, CapTypeOK, CallsSound
<1>3. Claimed' \subseteq Claimed
  BY DEF CapInv, CapTypeOK, Claimed
<1>4. Cardinality(Held') < MaxActive + Cardinality(Hooks)
  BY <1>1, <1>3, BoundKept DEF Held
<1> QED
  BY <1>1, <1>2, <1>4 DEF CapInv, CallsSound, Held

LEMMA DeliverInv ==
  ASSUME CapInv, NEW h \in Hooks, NEW s \in Sessions, Deliver(h, s)
  PROVE  CapInv'
<1> DEFINE i == [IdleCall EXCEPT !.pc = "get", !.session = s]
<1>1. i \in Calls /\ i.pc = "get" /\ i.session = s /\ s # Nil
  BY CapAssumption DEF IdleCall, Calls
<1>2. calls' = [calls EXCEPT ![h] = i] /\ UNCHANGED boxes
  BY DEF Deliver
<1> QED
  BY <1>1, <1>2, QuietStep

LEMMA EndsInv ==
  ASSUME CapInv, NEW h \in Hooks, Ends(h)
  PROVE  CapInv'
<1>1. IdleCall \in Calls /\ IdleCall.pc = "idle"
  BY DEF IdleCall, Calls
<1>2. calls' = [calls EXCEPT ![h] = IdleCall] /\ UNCHANGED boxes
  BY DEF Ends
<1> QED
  BY <1>1, <1>2, QuietStep

LEMMA GetInv ==
  ASSUME CapInv, NEW h \in Hooks, Get(h)
  PROVE  CapInv'
<1> DEFINE s == calls[h].session
<1>1. calls \in [Hooks -> Calls] /\ s # Nil /\ s \in Sessions /\ UNCHANGED boxes
  BY DEF CapInv, CapTypeOK, Get, Calls
<1>2. PICK pc \in {"list", "write"}, claims \in BOOLEAN :
        /\ Reads(h, pc, claims)
        /\ pc = "write" => ~claims /\ HoldsSlot(boxes[s])
        /\ pc = "list" => claims
  BY DEF Get
<1> DEFINE i == [calls[h] EXCEPT !.pc = pc, !.current = TRUE, !.claims = claims,
                                 !.absent = (boxes[s] = "none")]
<1>3. i \in Calls /\ i.session = s /\ i.pc = pc /\ i.claims = claims
      /\ i.absent = (boxes[s] = "none")
  BY <1>1 DEF Calls
<1>4. calls' = [calls EXCEPT ![h] = i]
  BY <1>1, <1>2 DEF Reads, Calls
<1>5. pc = "write" => ~i.claims /\ ~i.absent /\ i.session \in Active
  BY <1>1, <1>2, <1>3 DEF HoldsSlot, HoldingStates, Active
<1>6. /\ i.pc # "idle" => i.session # Nil
      /\ i.pc = "list" => i.claims
      /\ i.pc = "write" => ~i.claims /\ ~i.absent /\ i.session \in Active
  BY <1>1, <1>2, <1>3, <1>5
<1>7. i \in Calls /\ UNCHANGED boxes
  BY <1>1, <1>3
<1> HIDE DEF i
<1> QED
  BY <1>4, <1>6, <1>7, QuietStep

LEMMA RetryInv ==
  ASSUME CapInv, NEW h \in Hooks, Retry(h)
  PROVE  CapInv'
<1> DEFINE i == [calls[h] EXCEPT !.pc = "get", !.current = FALSE, !.claims = FALSE]
<1>1. calls \in [Hooks -> Calls] /\ calls[h].session # Nil /\ UNCHANGED boxes
  BY DEF CapInv, CapTypeOK, Retry
<1>2. i \in Calls /\ i.pc = "get" /\ i.session = calls[h].session
  BY <1>1 DEF Calls
<1>3. calls' = [calls EXCEPT ![h] = i]
  BY <1>1 DEF Retry, Refused, Calls
<1> QED
  BY <1>1, <1>2, <1>3, QuietStep

LEMMA ListInv ==
  ASSUME CapInv, NEW h \in Hooks, List(h)
  PROVE  CapInv'
<1>1. calls \in [Hooks -> Calls] /\ CallsSound /\ boxes' = boxes
      /\ calls' = [calls EXCEPT ![h].pc = "write"]
  BY DEF CapInv, CapTypeOK, CallsSound, List
<1> DEFINE i == [calls[h] EXCEPT !.pc = "write"]
<1>2. /\ i \in Calls /\ i.pc = "write" /\ i.session = calls[h].session
      /\ i.claims /\ i.session # Nil
  BY <1>1 DEF Calls, CallsSound, List
<1>3. calls' = [calls EXCEPT ![h] = i]
  BY <1>1 DEF Calls
<1>4. CapTypeOK' /\ Active' = Active
  BY <1>1, <1>2, <1>3 DEF CapInv, CapTypeOK, Active
<1>5. CallsSound'
  BY <1>1, <1>2, <1>3, <1>4 DEF CallsSound
<1> QED
  BY <1>4, <1>5, ListBound DEF CapInv, CallsSound, Held

\* Losing a pin takes nothing from what an invocation knows otherwise.
LEMMA UnpinnedFacts ==
  ASSUME CapTypeOK, NEW s \in Sessions
  PROVE  /\ Unpinned(s) \in [Hooks -> Calls]
         /\ \A g \in Hooks :
              LET u == Unpinned(s)[g] IN
              /\ u.pc = calls[g].pc /\ u.session = calls[g].session
              /\ u.absent = calls[g].absent /\ u.claims = calls[g].claims
              /\ u.current => calls[g].current /\ calls[g].session # s
BY DEF CapTypeOK, Unpinned, Calls

LEMMA AcceptInv ==
  ASSUME CapInv, NEW h \in Hooks, Accept(h)
  PROVE  CapInv'
<1> DEFINE s == calls[h].session
<1>1. CapTypeOK /\ CallsSound /\ calls[h].pc = "write" /\ s \in Sessions
  BY DEF CapInv, CapTypeOK, CallsSound, Accept, Calls
<1>2. boxes' = [boxes EXCEPT ![s] = "pending"]
      /\ calls' = [Unpinned(s) EXCEPT ![h] = IdleCall]
  BY DEF Accept
<1>3. IdleCall \in Calls /\ IdleCall.pc = "idle"
  BY DEF IdleCall, Calls
<1>4. CapTypeOK'
  BY <1>1, <1>2, <1>3, UnpinnedFacts DEF CapTypeOK, BoxStates, HoldingStates
<1>5. Active' = Active \cup {s}
  BY <1>1, <1>2 DEF Active, HoldsSlot, HoldingStates, CapTypeOK
<1>6. CallsSound'
  <2>1. calls'[h] = IdleCall /\ \A g \in Hooks \ {h} : calls'[g] = Unpinned(s)[g]
    BY <1>1, <1>2, UnpinnedFacts
  <2>2. ASSUME NEW g \in Hooks \ {h}
        PROVE  /\ calls'[g].pc = calls[g].pc /\ calls'[g].session = calls[g].session
               /\ calls'[g].absent = calls[g].absent /\ calls'[g].claims = calls[g].claims
               /\ calls'[g].current => calls[g].current
    BY <1>1, <2>1, UnpinnedFacts
  <2> QED
    BY <1>1, <1>3, <1>5, <2>1, <2>2 DEF CallsSound
<1>7. Claimed' \subseteq Claimed
  BY <1>1, <1>2, <1>3, UnpinnedFacts DEF Claimed, CapTypeOK
<1>8. s \in Held
  <2>1. CASE calls[h].claims
    BY <1>1, <2>1 DEF Held, Claimed
  <2>2. CASE ~calls[h].claims
    BY <1>1, <2>2 DEF Accept, Lands, CallsSound, Held
  <2> QED
    BY <2>1, <2>2
<1>9. Cardinality(Held') < MaxActive + Cardinality(Hooks)
  BY <1>5, <1>7, <1>8, BoundKept DEF Held
<1> QED
  BY <1>4, <1>6, <1>9 DEF CapInv, CallsSound, Held

\* No other writer gives a session a slot.
LEMMA OthersInv ==
  ASSUME CapInv, NEW s \in Sessions, Others(s)
  PROVE  CapInv'
<1>1. CapTypeOK /\ CallsSound /\ calls' = Unpinned(s)
  BY DEF CapInv, CallsSound, Others
<1>2. /\ boxes' \in [Sessions -> BoxStates]
      /\ \A t \in Sessions : t # s => boxes'[t] = boxes[t]
      /\ HoldsSlot(boxes'[s]) => HoldsSlot(boxes[s])
  <2>1. CASE UNCHANGED boxes
    BY <1>1, <2>1 DEF CapTypeOK
  <2>2. CASE \E next \in BoxStates :
               <<boxes[s], next>> \in Moves /\ boxes' = [boxes EXCEPT ![s] = next]
    <3>1. PICK next \in BoxStates :
            <<boxes[s], next>> \in Moves /\ boxes' = [boxes EXCEPT ![s] = next]
      BY <2>2
    <3>2. HoldsSlot(next) => HoldsSlot(boxes[s])
      BY <3>1 DEF Moves, HoldsSlot, HoldingStates
    <3> QED
      BY <1>1, <3>1, <3>2 DEF CapTypeOK
  <2> QED
    BY <2>1, <2>2 DEF Others
<1>3. CapTypeOK' /\ Active' \subseteq Active /\ Active \subseteq Active' \cup {s}
  BY <1>1, <1>2, UnpinnedFacts DEF CapTypeOK, Active
<1>4. CallsSound'
  BY <1>1, <1>3, UnpinnedFacts DEF CallsSound
<1>5. Claimed' \subseteq Claimed
  BY <1>1, UnpinnedFacts DEF Claimed
<1>6. Cardinality(Held') < MaxActive + Cardinality(Hooks)
  BY <1>3, <1>5, BoundKept DEF Held
<1> QED
  BY <1>3, <1>4, <1>6 DEF CapInv, CallsSound, Held

-----------------------------------------------------------------------------
LEMMA CapInit == Init => CapInv
<1> SUFFICES ASSUME Init PROVE CapInv
  OBVIOUS
<1>1. CapTypeOK
  BY DEF Init, CapTypeOK, BoxStates, IdleCall, Calls
<1>2. CallsSound
  BY DEF Init, CallsSound, IdleCall
<1>3. Active \cup Claimed = {}
  BY DEF Init, Active, Claimed, HoldsSlot, HoldingStates, IdleCall
<1>4. Cardinality(Active \cup Claimed) < MaxActive + Cardinality(Hooks)
  <2>1. Cardinality(Active \cup Claimed) = 0
    BY <1>3, FS_EmptySet
  <2> QED
    BY <2>1, HooksCounted, CapAssumption
<1> QED
  BY <1>1, <1>2, <1>4 DEF CapInv, CallsSound

LEMMA CapNext == CapInv /\ [Next]_vars => CapInv'
<1> SUFFICES ASSUME CapInv, [Next]_vars PROVE CapInv'
  OBVIOUS
<1>1. CASE Next
  BY <1>1, DeliverInv, GetInv, ListInv, AcceptInv, RetryInv, EndsInv, OthersInv DEF Next
<1>2. CASE UNCHANGED vars
  BY <1>2 DEF vars, CapInv, CapTypeOK, Active, Claimed
<1> QED
  BY <1>1, <1>2

\* CapInv is inductive, so it holds in every reachable state.
THEOREM CapInvariance == Spec => []CapInv
BY CapInit, CapNext, PTL DEF Spec

\* The cap is overshot by at most one session per further hook in flight, for any number
\* of sessions and hooks (hook.go checkCapacity).
THEOREM OvershootBounded == Spec => []Overshoot
<1>1. CapInv => Overshoot
  <2> SUFFICES ASSUME CapInv PROVE Overshoot
    OBVIOUS
  <2>1. Active \subseteq Active \cup Claimed /\ Active \cup Claimed \subseteq Sessions
    BY HeldFinite
  <2>2. /\ Cardinality(Active) \in Nat /\ Cardinality(Active \cup Claimed) \in Nat
        /\ Cardinality(Active) <= Cardinality(Active \cup Claimed)
    BY <2>1, HeldFinite
  <2> QED
    BY <2>2, HooksCounted, CapAssumption DEF CapInv, Overshoot
<1> QED
  BY <1>1, CapInvariance, PTL
=============================================================================
