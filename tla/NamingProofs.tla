----------------------------- MODULE NamingProofs -----------------------------
(***************************************************************************)
(* What the operators of Naming give, for any words, alphabets and limits: *)
(* two sessions of a release never get one name, nor two sessions one      *)
(* label, and the API server admits what is derived from an id with a      *)
(* letter or digit.                                                        *)
(*                                                                         *)
(* sanitizeRFC1123 reads a word character by character, so this needs      *)
(* induction.  It is done on sets of numbers: finite sets are well-ordered *)
(* by inclusion, so every set of numbers has a least one (LeastNumber).    *)
(***************************************************************************)
EXTENDS Naming, FiniteSetTheorems, SequenceTheorems, TLAPS

-----------------------------------------------------------------------------
(***************************************************************************)
(* Numbers.                                                                *)
(***************************************************************************)

\* A set of numbers that is not empty has a least one.
LEMMA LeastNumber ==
  ASSUME NEW T, T \subseteq Nat, T # {}
  PROVE  \E x \in T : \A y \in T : x <= y
<1> DEFINE W == {0..n : n \in T}
           R == StrictSubsetOrdering(Nat)
<1>1. W \subseteq FiniteSubsetsOf(Nat)
  <2>1. ASSUME NEW n \in T PROVE 0..n \in SUBSET Nat /\ IsFiniteSet(0..n)
    BY FS_Interval
  <2> QED
    BY <2>1 DEF FiniteSubsetsOf
<1>2. W # {}
  OBVIOUS
<1>3. IsWellFoundedOn(R, FiniteSubsetsOf(Nat))
  BY FS_StrictSubsetOrderingWellFounded
<1> HIDE DEF W, R
<1>4. PICK X \in W : \A Y \in W : ~ (<<Y, X>> \in R)
  BY <1>1, <1>2, <1>3, WFMin
<1>5. PICK x \in T : X = 0..x
  BY <1>4 DEF W
<1>6. ASSUME NEW y \in T, y < x PROVE FALSE
  <2>1. 0..y \in W
    BY DEF W
  <2>2. /\ 0..y \subseteq Nat /\ 0..x \subseteq Nat /\ 0..y \subseteq 0..x
        /\ x \in 0..x /\ x \notin 0..y
    BY <1>6
  <2>3. <<0..y, 0..x>> \in R
    BY <2>2 DEF R, StrictSubsetOrdering
  <2> QED
    BY <1>4, <1>5, <2>1, <2>3
<1> QED
  BY <1>6

\* Induction up to n.
LEMMA Induction ==
  ASSUME NEW P, NEW n \in Nat, 0 \in P, \A i \in 0..n : i \in P /\ i < n => i + 1 \in P
  PROVE  \A i \in 0..n : i \in P
<1> DEFINE T == {i \in 0..n : i \notin P}
<1>1. SUFFICES ASSUME T # {} PROVE FALSE
  OBVIOUS
<1>2. PICK x \in T : \A y \in T : x <= y
  <2>1. T \subseteq Nat
    OBVIOUS
  <2> HIDE DEF T
  <2> QED
    BY <1>1, <2>1, LeastNumber
<1>3. x # 0 /\ x - 1 \in 0..n /\ x - 1 < n
  BY <1>2
<1>4. x - 1 \in P
  BY <1>2, <1>3
<1> QED
  BY <1>2, <1>3, <1>4

\* A bounded set of numbers that is not empty has a greatest one.
LEMMA GreatestNumber ==
  ASSUME NEW n \in Nat, NEW T, T \subseteq 0..n, T # {}
  PROVE  Max(T) \in T /\ \A y \in T : y <= Max(T)
<1> DEFINE U == {k \in 0..n : \A y \in T : y <= k}
<1>1. n \in U
  OBVIOUS
<1>2. PICK x \in U : \A y \in U : x <= y
  <2>1. U \subseteq Nat /\ U # {}
    BY <1>1
  <2> HIDE DEF U
  <2> QED
    BY <2>1, LeastNumber
<1>3. x \in T
  <2>1. SUFFICES ASSUME x \notin T PROVE FALSE
    OBVIOUS
  <2>2. PICK t : t \in T
    OBVIOUS
  <2>3. x > 0 /\ x - 1 \in U
    BY <1>2, <2>1, <2>2
  <2> QED
    BY <1>2, <2>3
<1> QED
  BY <1>2, <1>3 DEF Max

-----------------------------------------------------------------------------
(***************************************************************************)
(* Reading a word.                                                         *)
(***************************************************************************)

Codes == {Hash[v] : v \in Words}

\* What a name is made of, but for its hash.
Body == (Lower \cup {Dash}) \ Codes

\* Text that may go on.
Begun(s) == s \in Seq(Body) /\ (s # <<>> => s[1] # Dash)

\* Text that may also end.
Clean(s) == Begun(s) /\ (s # <<>> => s[Len(s)] # Dash)

LEMMA WordsTyped ==
  ASSUME NEW w \in Words
  PROVE  /\ Len(w) \in Nat
         /\ DOMAIN w = 1..Len(w)
         /\ \A i \in 1..Len(w) : w[i] \in ToSet(w) /\ w[i] \notin Codes
<1>1. w \in Seq(ToSet(w))
  BY NamingAssumption
<1>2. Len(w) \in Nat /\ DOMAIN w = 1..Len(w)
  BY <1>1, LenProperties
<1>3. ASSUME NEW i \in 1..Len(w) PROVE w[i] \in ToSet(w) /\ w[i] \notin Codes
  <2>1. w[i] \in ToSet(w)
    BY <1>1, <1>2, ElementOfSeq
  <2> QED
    BY <2>1, HashAssumption DEF Codes
<1> QED
  BY <1>2, <1>3

LEMMA Bodies ==
  /\ \A c \in Lower : c \notin Codes => c \in Body
  /\ \A c \in Upper : ToLower[c] \in Body /\ ToLower[c] # Dash
  /\ \A c \in Lower : c # Dash
  /\ Dash \in Body
  /\ "c" \in Body
  /\ Body \subseteq Lower \cup {Dash}
  /\ \A v \in Words : Hash[v] \in Codes /\ Hash[v] \in Lower
BY NamingAssumption, HashAssumption DEF Body, Codes, Alnum

LEMMA PutGoesOn ==
  ASSUME NEW s, Begun(s), NEW c, c \notin Codes
  PROVE  /\ Begun(Put(s, c))
         /\ s # <<>> \/ c \in Alnum => Put(s, c) # <<>>
<1>1. s \in Seq(Body)
  BY DEF Begun
<1>2. ASSUME NEW e \in Body, e # Dash \/ s # <<>>
      PROVE  Begun(Append(s, e)) /\ Append(s, e) # <<>>
  <2>1. Append(s, e) \in Seq(Body) /\ Append(s, e) # <<>> /\ Len(Append(s, e)) = Len(s) + 1
    BY <1>1, AppendProperties
  <2>2. Append(s, e)[1] # Dash
    <3>1. CASE s = <<>>
      BY <1>1, <1>2, <3>1
    <3>2. CASE s # <<>>
      <4>1. Len(s) \in Nat \ {0}
        BY <1>1, <3>2, EmptySeq
      <4>2. Append(s, e)[1] = s[1]
        BY <1>1, <4>1, AppendProperties
      <4> QED
        BY <3>2, <4>2 DEF Begun
    <3> QED
      BY <3>1, <3>2
  <2> QED
    BY <2>1, <2>2 DEF Begun
<1>3. CASE c \in Lower
  <2>1. Put(s, c) = Append(s, c)
    BY <1>3, NamingAssumption DEF Put, Alnum
  <2> QED
    BY <1>2, <1>3, <2>1, Bodies
<1>4. CASE c \in Upper
  <2>1. Put(s, c) = Append(s, ToLower[c])
    BY <1>4, NamingAssumption DEF Put, Alnum
  <2> QED
    BY <1>2, <1>4, <2>1, Bodies
<1>5. CASE c \notin Alnum
  <2>1. Put(s, c) = IF s # <<>> /\ Last(s) # Dash THEN Append(s, Dash) ELSE s
    BY <1>5 DEF Put, Alnum
  <2> QED
    BY <1>2, <1>5, <2>1, Bodies
<1> QED
  BY <1>3, <1>4, <1>5 DEF Alnum

\* What sanitizeRFC1123 has written after n characters of w.
Reads(w, g) == g = [n \in 0..Len(w) |-> IF n = 0 THEN <<>> ELSE Put(g[n - 1], w[n])]
Read(w) == CHOOSE g : Reads(w, g)

\* The recursion has a solution: one for n characters goes on to the next.
LEMMA ReadingIsDefined == ASSUME NEW w, Len(w) \in Nat PROVE Reads(w, Read(w))
<1> DEFINE Some(n, g) == g = [i \in 0..n |-> IF i = 0 THEN <<>> ELSE Put(g[i - 1], w[i])]
           P == {n \in Nat : \E g : Some(n, g)}
<1>1. 0 \in P
  <2>1. Some(0, [i \in 0..0 |-> <<>>])
    OBVIOUS
  <2> QED
    BY <2>1
<1>2. ASSUME NEW n \in 0..Len(w), n \in P, n < Len(w) PROVE n + 1 \in P
  <2>1. PICK g : Some(n, g)
    BY <1>2
  <2> DEFINE h == [i \in 0..(n + 1) |-> IF i = n + 1 THEN Put(g[n], w[i]) ELSE g[i]]
  <2>2. ASSUME NEW i \in 0..(n + 1)
        PROVE  h[i] = IF i = 0 THEN <<>> ELSE Put(h[i - 1], w[i])
    <3>1. CASE i = 0
      BY <2>1, <3>1
    <3>2. CASE i # 0
      <4>1. i - 1 \in 0..n /\ h[i - 1] = g[i - 1]
        BY <3>2
      <4>2. i # n + 1 => g[i] = Put(g[i - 1], w[i])
        BY <2>1, <3>2
      <4> QED
        BY <3>2, <4>1, <4>2
    <3> QED
      BY <3>1, <3>2
  <2>3. h = [i \in 0..(n + 1) |-> h[i]]
    OBVIOUS
  <2> HIDE DEF h
  <2>4. Some(n + 1, h)
    BY <2>2, <2>3
  <2> HIDE DEF Some
  <2> QED
    BY <2>4
<1> HIDE DEF P
<1>3. Len(w) \in P
  <2>1. \A i \in 0..Len(w) : i \in P /\ i < Len(w) => i + 1 \in P
    BY <1>2
  <2>2. \A i \in 0..Len(w) : i \in P
    BY <1>1, <2>1, Induction
  <2> QED
    BY <2>2
<1>4. \E g : Reads(w, g)
  BY <1>3 DEF P, Reads
<1> QED
  BY <1>4 DEF Read

LEMMA ReadBegins ==
  ASSUME NEW w \in Words
  PROVE  /\ Begun(Read(w)[Len(w)])
         /\ ToSet(w) \cap Alnum # {} => Read(w)[Len(w)] # <<>>
<1> DEFINE read == Read(w)
           P == {n \in 0..Len(w) : /\ Begun(read[n])
                                   /\ (\E i \in 1..n : w[i] \in Alnum) => read[n] # <<>>}
<1>1. Len(w) \in Nat /\ DOMAIN w = 1..Len(w) /\ \A i \in 1..Len(w) : w[i] \notin Codes
  BY WordsTyped
<1>2. read = [n \in 0..Len(w) |-> IF n = 0 THEN <<>> ELSE Put(read[n - 1], w[n])]
  BY <1>1, ReadingIsDefined DEF Reads
<1> HIDE DEF read
<1>3. 0 \in P
  <2>1. read[0] = <<>>
    BY <1>1, <1>2
  <2> QED
    <3>1. Begun(<<>>) /\ ~ \E i \in 1..0 : w[i] \in Alnum
      BY EmptySeq DEF Begun
    <3> QED
      BY <1>1, <2>1, <3>1
<1>4. ASSUME NEW n \in 0..Len(w), n \in P, n < Len(w) PROVE n + 1 \in P
  <2>1. read[n + 1] = Put(read[n], w[n + 1])
    BY <1>1, <1>2, <1>4
  <2>2. /\ Begun(read[n + 1])
        /\ read[n] # <<>> \/ w[n + 1] \in Alnum => read[n + 1] # <<>>
    BY <1>1, <1>4, <2>1, PutGoesOn
  <2>3. \A i \in 1..(n + 1) : i \in 1..n \/ i = n + 1
    BY <1>1
  <2> QED
    BY <1>1, <1>4, <2>2, <2>3
<1> HIDE DEF P
<1>5. Len(w) \in P
  <2>1. \A i \in 0..Len(w) : i \in P /\ i < Len(w) => i + 1 \in P
    BY <1>4
  <2>2. \A i \in 0..Len(w) : i \in P
    BY <1>1, <1>3, <2>1, Induction
  <2> QED
    BY <1>1, <2>2
<1>6. Begun(read[Len(w)]) /\ ((\E i \in 1..Len(w) : w[i] \in Alnum) => read[Len(w)] # <<>>)
  BY <1>5 DEF P
<1>7. ToSet(w) \cap Alnum # {} => \E i \in 1..Len(w) : w[i] \in Alnum
  BY <1>1 DEF ToSet
<1> QED
  BY <1>6, <1>7 DEF read

\* Trimming leaves text that may end, and not nothing.
LEMMA TrimRightCleans ==
  ASSUME NEW s, Begun(s)
  PROVE  /\ Clean(TrimRight(s))
         /\ Len(TrimRight(s)) <= Len(s)
         /\ s # <<>> => TrimRight(s) # <<>>
<1> DEFINE kept == {i \in DOMAIN s : s[i] # Dash}
<1>1. s \in Seq(Body) /\ Len(s) \in Nat /\ DOMAIN s = 1..Len(s)
  BY LenProperties DEF Begun
<1>2. CASE kept = {}
  <2>1. TrimRight(s) = <<>>
    BY <1>2 DEF TrimRight
  <2>2. s = <<>>
    <3>1. s # <<>> => 1 \in kept
      BY <1>1, EmptySeq DEF Begun
    <3> QED
      BY <1>2, <3>1
  <2> QED
    BY <2>1, <2>2, EmptySeq DEF Clean, Begun
<1>3. CASE kept # {}
  <2>1. kept \subseteq 0..Len(s)
    BY <1>1
  <2>2. Max(kept) \in kept
    <3> HIDE DEF kept
    <3> QED
      BY <1>1, <1>3, <2>1, GreatestNumber
  <2> DEFINE n == Max(kept)
  <2>3. n \in 1..Len(s) /\ s[n] # Dash /\ TrimRight(s) = SubSeq(s, 1, n)
    BY <1>1, <1>3, <2>2 DEF TrimRight
  <2> HIDE DEF n
  <2>4. \A i \in 1..n : s[i] \in Body
    BY <1>1, <2>3, ElementOfSeq
  <2>5. /\ TrimRight(s) \in Seq(Body)
        /\ Len(TrimRight(s)) = n
        /\ \A i \in 1..n : TrimRight(s)[i] = s[i]
    BY <1>1, <2>3, <2>4
  <2>6. s # <<>> /\ TrimRight(s) # <<>>
    BY <1>1, <2>3, <2>5, EmptySeq
  <2> QED
    BY <1>1, <2>3, <2>5, <2>6 DEF Clean, Begun
<1> QED
  BY <1>2, <1>3

\* Sanitising an id gives text a name may have, and something of a letter or digit.
LEMMA SanitizedIsClean ==
  ASSUME NEW w \in Words
  PROVE  Clean(Sanitized(w)) /\ (ToSet(w) \cap Alnum # {} => Sanitized(w) # <<>>)
<1>1. Sanitized(w) = TrimRight(Read(w)[Len(w)])
  BY DEF Sanitized, Read, Reads
<1> QED
  BY <1>1, ReadBegins, TrimRightCleans

LEMMA CutIsClean ==
  ASSUME NEW s, Clean(s), NEW max \in Nat \ {0}
  PROVE  /\ Clean(Cut(s, max))
         /\ Len(Cut(s, max)) \in 0..max
         /\ s # <<>> => Cut(s, max) # <<>>
<1>1. s \in Seq(Body) /\ Len(s) \in Nat
  BY LenProperties DEF Clean, Begun
<1>2. CASE Len(s) <= max
  BY <1>1, <1>2 DEF Cut
<1>3. CASE Len(s) > max
  <2> DEFINE t == SubSeq(s, 1, max)
  <2>1. t \in Seq(Body) /\ Len(t) = max /\ t[1] = s[1]
    <3>1. \A i \in 1..max : s[i] \in Body
      BY <1>1, <1>3, ElementOfSeq
    <3> QED
      BY <1>1, <1>3, <3>1
  <2>2. Begun(t) /\ t # <<>>
    BY <1>1, <1>3, <2>1, EmptySeq DEF Clean, Begun
  <2>3. Cut(s, max) = TrimRight(t)
    BY <1>3 DEF Cut
  <2> HIDE DEF t
  <2>4. Clean(TrimRight(t)) /\ TrimRight(t) # <<>> /\ Len(TrimRight(t)) <= max
    BY <2>1, <2>2, TrimRightCleans
  <2>5. Len(TrimRight(t)) \in Nat
    BY <2>4, LenProperties DEF Clean, Begun
  <2> QED
    BY <2>3, <2>4, <2>5
<1> QED
  BY <1>1, <1>2, <1>3

-----------------------------------------------------------------------------
(***************************************************************************)
(* Lengths: only a hash is longer than its place.                          *)
(***************************************************************************)

LEMMA LengthOfText == ASSUME NEW s \in Seq(Body) PROVE Length(s) = Len(s)
<1>1. Len(s) \in Nat /\ \A i \in DOMAIN s : s[i] \in Body
  BY LenProperties
<1>2. {i \in DOMAIN s : \E v \in Words : s[i] = Hash[v]} = {}
  BY <1>1 DEF Body, Codes
<1>3. Length(s) = Len(s) + (HashLen - 1) * Cardinality({})
  BY <1>2 DEF Length
<1>4. Length(s) = Len(s) + (HashLen - 1) * 0
  BY <1>3, FS_EmptySet
<1>5. HashLen \in Nat
  BY NamingAssumption
<1> QED
  BY <1>1, <1>4, <1>5

Signed(s, v) == s \o <<Dash, Hash[v]>>

LEMMA SignedTyped ==
  ASSUME NEW s \in Seq(Body), NEW v \in Words
  PROVE  /\ Signed(s, v) \in Seq(Lower \cup {Dash})
         /\ Len(Signed(s, v)) = Len(s) + 2
         /\ Len(s) \in Nat
         /\ \A i \in 1..Len(s) : Signed(s, v)[i] = s[i] /\ s[i] \in Body
         /\ Signed(s, v)[Len(s) + 1] = Dash
         /\ Signed(s, v)[Len(s) + 2] = Hash[v]
         /\ DOMAIN Signed(s, v) = 1..(Len(s) + 2)
<1> DEFINE S == Lower \cup {Dash}
<1>1. s \in Seq(S) /\ <<Dash, Hash[v]>> \in Seq(S)
  BY SeqMonotonic, Bodies
<1>2. Len(s) \in Nat /\ \A i \in 1..Len(s) : s[i] \in Body
  BY LenProperties, ElementOfSeq
<1>3. /\ Signed(s, v) \in Seq(S)
      /\ Len(Signed(s, v)) = Len(s) + 2
      /\ \A i \in 1..(Len(s) + 2) :
           Signed(s, v)[i] = IF i <= Len(s) THEN s[i] ELSE <<Dash, Hash[v]>>[i - Len(s)]
  BY <1>1, ConcatProperties DEF Signed
<1>4. Signed(s, v)[Len(s) + 1] = <<Dash, Hash[v]>>[1] /\ Signed(s, v)[Len(s) + 2] = <<Dash, Hash[v]>>[2]
  BY <1>2, <1>3
<1>5. DOMAIN Signed(s, v) = 1..(Len(s) + 2)
  BY <1>3, LenProperties
<1>6. \A i \in 1..Len(s) : Signed(s, v)[i] = s[i]
  BY <1>2, <1>3
<1> QED
  BY <1>2, <1>3, <1>4, <1>5, <1>6

LEMMA LengthOfSigned ==
  ASSUME NEW s \in Seq(Body), NEW v \in Words
  PROVE  Length(Signed(s, v)) = Len(s) + 1 + HashLen
<1> DEFINE t == Signed(s, v)
           hashes == {i \in DOMAIN t : \E x \in Words : t[i] = Hash[x]}
<1>1. hashes = {Len(s) + 2}
  <2>1. \A x \in Words : Hash[x] \notin Body
    BY DEF Body, Codes
  <2>2. \A i \in 1..(Len(s) + 2) : i \in 1..Len(s) \/ i = Len(s) + 1 \/ i = Len(s) + 2
    BY SignedTyped
  <2>3. \A x \in Words : t[Len(s) + 1] # Hash[x]
    BY <2>1, SignedTyped, Bodies
  <2>4. \A i \in 1..Len(s) : \A x \in Words : t[i] # Hash[x]
    BY <2>1, SignedTyped
  <2>5. Len(s) + 2 \in DOMAIN t /\ DOMAIN t = 1..(Len(s) + 2) /\ t[Len(s) + 2] = Hash[v]
    BY SignedTyped
  <2> HIDE DEF t
  <2> QED
    BY <2>2, <2>3, <2>4, <2>5
<1>2. Cardinality(hashes) = 1
  BY <1>1, FS_Singleton
<1>3. Len(t) = Len(s) + 2 /\ Len(s) \in Nat /\ HashLen \in Nat
  BY SignedTyped, NamingAssumption
<1>4. Length(t) = Len(t) + (HashLen - 1) * Cardinality(hashes)
  BY DEF Length
<1> HIDE DEF t, hashes
<1>5. Length(t) = Len(t) + (HashLen - 1) * 1
  BY <1>2, <1>4
<1> QED
  BY <1>3, <1>5 DEF t

-----------------------------------------------------------------------------
(***************************************************************************)
(* Sandbox names.                                                          *)
(***************************************************************************)

Prefix(release) == ReleasePrefix(release) \o Kind

LEMMA PrefixTyped ==
  ASSUME NEW r \in Words
  PROVE  /\ Prefix(r) \in Seq(Body)
         /\ Len(Prefix(r)) \in 2..(ReleaseMax + 3)
         /\ Prefix(r)[1] # Dash
<1> DEFINE rel == Cut(Sanitized(r), ReleaseMax)
<1>1. Clean(rel) /\ Len(rel) \in 0..ReleaseMax /\ ReleaseMax \in Nat
  BY SanitizedIsClean, CutIsClean, NamingAssumption
<1>2. rel \in Seq(Body) /\ Kind \in Seq(Body) /\ Len(Kind) = 2 /\ Kind[1] = "c" /\ "c" # Dash
  BY <1>1, Bodies, NamingAssumption DEF Clean, Begun, Kind
<1>3. CASE rel = <<>>
  <2>1. Prefix(r) = Kind
    BY <1>2, <1>3, ConcatEmptySeq DEF Prefix, ReleasePrefix
  <2>2. 2 \in 2..(ReleaseMax + 3)
    BY <1>1
  <2> HIDE DEF rel
  <2> QED
    BY <1>2, <2>1, <2>2
<1>4. CASE rel # <<>>
  <2>1. Prefix(r) = Append(rel, Dash) \o Kind
    BY <1>4 DEF Prefix, ReleasePrefix
  <2>2. rel[1] # Dash /\ Len(rel) \in 1..ReleaseMax
    BY <1>1, <1>2, <1>4, EmptySeq DEF Clean, Begun
  <2> HIDE DEF rel
  <2>3. /\ Append(rel, Dash) \in Seq(Body)
        /\ Len(Append(rel, Dash)) = Len(rel) + 1
        /\ Append(rel, Dash)[1] = rel[1]
    BY <1>2, <2>2, Bodies, AppendProperties
  <2> DEFINE a == Append(rel, Dash)
  <2>4. /\ a \o Kind \in Seq(Body)
        /\ Len(a \o Kind) = Len(a) + Len(Kind)
        /\ \A i \in 1..(Len(a) + Len(Kind)) :
             (a \o Kind)[i] = IF i <= Len(a) THEN a[i] ELSE Kind[i - Len(a)]
    BY <1>2, <2>3, ConcatProperties
  <2> HIDE DEF a
  <2>5. 1 \in 1..(Len(a) + Len(Kind)) /\ 1 <= Len(a) /\ Len(a) = Len(rel) + 1
    BY <1>1, <1>2, <2>2, <2>3 DEF a
  <2>6. (a \o Kind)[1] = rel[1]
    BY <2>3, <2>4, <2>5 DEF a
  <2>7. Len(rel) + 1 + 2 \in 2..(ReleaseMax + 3)
    BY <1>1, <2>2
  <2> QED
    BY <1>2, <2>1, <2>2, <2>4, <2>5, <2>6, <2>7 DEF a
<1> QED
  BY <1>3, <1>4

\* A name is its prefix and the id as it is, or a signed form of it.
LEMMA NameShape ==
  ASSUME NEW r \in Words, NEW w \in Words
  PROVE  \E id :
           /\ Clean(id)
           /\ Prefix(r) \o id \in Seq(Body)
           /\ Len(Prefix(r) \o id) = Len(Prefix(r)) + Len(id)
           /\ Len(Prefix(r) \o id) + 1 + HashLen <= NameMax
           /\ \/ SandboxName(r, w) = Signed(Prefix(r) \o id, w)
              \/ id = w /\ w # <<>> /\ SandboxName(r, w) = Prefix(r) \o w
<1> DEFINE prefix == Prefix(r)
           maxID  == NameMax - Len(prefix) - 1 - HashLen
           id     == Cut(Sanitized(w), maxID)
<1>1. prefix \in Seq(Body) /\ Len(prefix) \in 2..(ReleaseMax + 3)
  BY PrefixTyped
<1>2. maxID \in Nat \ {0} /\ NameMax \in Nat /\ HashLen \in Nat
  <2>1. /\ NameMax \in Nat /\ HashLen \in Nat /\ ReleaseMax \in Nat
        /\ NameMax > ReleaseMax + HashLen + 4
    BY NamingAssumption
  <2> HIDE DEF prefix
  <2> QED
    BY <1>1, <2>1
<1>3. SandboxName(r, w) = IF Altered(w, maxID) \/ id = <<>>
                          THEN prefix \o id \o <<Dash, Hash[w]>> ELSE prefix \o id
  BY DEF SandboxName, Prefix
<1>4. ~Altered(w, maxID) => id = w
  BY DEF Altered
<1> HIDE DEF prefix
<1>5. Clean(id) /\ Len(id) \in 0..maxID
  BY <1>2, SanitizedIsClean, CutIsClean
<1> HIDE DEF id
<1>6. id \in Seq(Body)
  BY <1>5 DEF Clean, Begun
<1>7. prefix \o id \in Seq(Body) /\ Len(prefix \o id) = Len(prefix) + Len(id)
  BY <1>1, <1>6, ConcatProperties
<1>8. Len(prefix \o id) + 1 + HashLen <= NameMax
  BY <1>1, <1>2, <1>5, <1>7
<1>9. \/ SandboxName(r, w) = Signed(prefix \o id, w)
      \/ id = w /\ w # <<>> /\ SandboxName(r, w) = prefix \o w
  BY <1>3, <1>4 DEF Signed
<1> QED
  BY <1>5, <1>7, <1>8, <1>9 DEF prefix

\* Within a release, two ids never get one name: an id that was changed is told by its hash,
\* which ends no name of an id that was not (naming.go scopedName).
THEOREM NamesDiffer ==
  ASSUME NEW r \in Words, NEW v \in Words, NEW w \in Words,
         SandboxName(r, v) = SandboxName(r, w)
  PROVE  v = w
<1> DEFINE p == Prefix(r)
           Name == SandboxName(r, v)
<1>0. Name = SandboxName(r, w)
  OBVIOUS
<1>1. PICK i : /\ Clean(i) /\ p \o i \in Seq(Body) /\ Len(p \o i) = Len(p) + Len(i)
               /\ \/ Name = Signed(p \o i, v)
                  \/ i = v /\ v # <<>> /\ Name = p \o v
  BY NameShape
<1>2. PICK j : /\ Clean(j) /\ p \o j \in Seq(Body) /\ Len(p \o j) = Len(p) + Len(j)
               /\ \/ SandboxName(r, w) = Signed(p \o j, w)
                  \/ j = w /\ w # <<>> /\ SandboxName(r, w) = p \o w
  BY NameShape
<1>3. \A s \in Seq(Body), x \in Words :
        Signed(s, x)[Len(Signed(s, x))] = Hash[x] /\ Hash[x] \notin Body
  BY SignedTyped DEF Body, Codes
<1>4. \A s \in Seq(Body) : s # <<>> => s[Len(s)] \in Body
  BY LenProperties, EmptySeq, ElementOfSeq
<1>5. p \in Seq(Body) /\ p # <<>>
  BY PrefixTyped, EmptySeq
<1>6. i \in Seq(Body) /\ j \in Seq(Body) /\ p \o i # <<>> /\ p \o j # <<>>
  BY <1>1, <1>2, <1>5, ConcatEqualIffEmpty DEF Clean, Begun
<1> HIDE DEF p, Name
<1>7. CASE Name = Signed(p \o i, v) /\ Name = Signed(p \o j, w)
  <2>1. Name[Len(Name)] = Hash[v] /\ Name[Len(Name)] = Hash[w]
    BY <1>1, <1>2, <1>3, <1>7
  <2> QED
    BY <2>1, HashAssumption
<1>8. CASE Name = Signed(p \o i, v) /\ Name = p \o j
  <2>1. Name[Len(Name)] \notin Body
    BY <1>1, <1>3, <1>8
  <2>2. Name[Len(Name)] \in Body
    BY <1>2, <1>4, <1>6, <1>8
  <2> QED
    BY <2>1, <2>2
<1>9. CASE Name = p \o i /\ Name = Signed(p \o j, w)
  <2>1. Name[Len(Name)] \notin Body
    BY <1>2, <1>3, <1>9
  <2>2. Name[Len(Name)] \in Body
    BY <1>1, <1>4, <1>6, <1>9
  <2> QED
    BY <2>1, <2>2
<1>10. CASE i = v /\ j = w /\ Name = p \o v /\ Name = p \o w
  BY <1>5, <1>6, <1>10, ConcatSimplifications
<1> QED
  BY <1>0, <1>1, <1>2, <1>7, <1>8, <1>9, <1>10

\* Every name is a DNS label, however the release and the id are cut.
THEOREM NamesAreValid ==
  ASSUME NEW r \in Words, NEW w \in Words
  PROVE  ValidName(SandboxName(r, w))
<1>1. PICK id :
        /\ Clean(id)
        /\ Prefix(r) \o id \in Seq(Body)
        /\ Len(Prefix(r) \o id) = Len(Prefix(r)) + Len(id)
        /\ Len(Prefix(r) \o id) + 1 + HashLen <= NameMax
        /\ \/ SandboxName(r, w) = Signed(Prefix(r) \o id, w)
           \/ id = w /\ w # <<>> /\ SandboxName(r, w) = Prefix(r) \o w
  BY NameShape
<1> DEFINE p == Prefix(r)
           t == p \o id
<1>2. p \in Seq(Body) /\ Len(p) \in Nat /\ Len(p) >= 2 /\ p[1] # Dash
  BY PrefixTyped, NamingAssumption
<1>3. id \in Seq(Body) /\ Len(id) \in Nat
  BY <1>1, LenProperties DEF Clean, Begun
<1>4. \A i \in 1..(Len(p) + Len(id)) : t[i] = IF i <= Len(p) THEN p[i] ELSE id[i - Len(p)]
  BY <1>2, <1>3, ConcatProperties
<1> HIDE DEF p
<1>5. t \in Seq(Body) /\ Len(t) = Len(p) + Len(id) /\ DOMAIN t = 1..Len(t)
  BY <1>1, LenProperties DEF p
<1>6. Len(t) \in Nat /\ Len(t) >= 2 /\ t[1] # Dash
  BY <1>2, <1>3, <1>4, <1>5
<1>7. id # <<>> => t[Len(t)] # Dash
  <2>1. SUFFICES ASSUME id # <<>> PROVE t[Len(t)] # Dash
    OBVIOUS
  <2>2. Len(id) > 0 /\ id[Len(id)] # Dash
    BY <1>1, <1>3, <2>1, EmptySeq DEF Clean
  <2>3. Len(t) \in 1..(Len(p) + Len(id)) /\ ~(Len(t) <= Len(p)) /\ Len(t) - Len(p) = Len(id)
    BY <1>2, <1>3, <1>5, <2>2
  <2>4. t[Len(t)] = id[Len(id)]
    BY <1>4, <2>3
  <2> QED
    BY <2>2, <2>4
<1>8. \A i \in DOMAIN t : t[i] \in Lower \cup {Dash}
  BY <1>5, ElementOfSeq, Bodies
<1>9. Len(t) + 1 + HashLen <= NameMax /\ HashLen \in Nat /\ NameMax \in Nat
  BY <1>1, NamingAssumption DEF p
<1> HIDE DEF t
<1>10. CASE SandboxName(r, w) = Signed(t, w)
  <2> DEFINE n == Signed(t, w)
  <2>1. /\ Len(n) = Len(t) + 2 /\ DOMAIN n = 1..(Len(t) + 2)
        /\ \A i \in 1..Len(t) : n[i] = t[i]
        /\ n[Len(t) + 1] = Dash /\ n[Len(t) + 2] \in Lower
    BY <1>5, SignedTyped, Bodies
  <2>2. Length(n) <= NameMax
    BY <1>5, <1>9, LengthOfSigned
  <2> HIDE DEF n
  <2>3. n # <<>>
    BY <1>6, <2>1
  <2>4. ASSUME NEW i \in DOMAIN n
        PROVE  n[i] \in Lower \cup IF i \in {1, Len(n)} THEN {} ELSE {Dash}
    <3>1. i \in 1..Len(t) \/ i = Len(t) + 1 \/ i = Len(t) + 2
      BY <1>6, <2>1, <2>4
    <3>2. CASE i \in 1..Len(t)
      BY <1>5, <1>6, <1>8, <2>1, <3>2
    <3>3. CASE i = Len(t) + 1
      BY <1>6, <2>1, <3>3
    <3>4. CASE i = Len(t) + 2
      BY <2>1, <3>4
    <3> QED
      BY <3>1, <3>2, <3>3, <3>4
  <2> QED
    BY <1>10, <2>2, <2>3, <2>4 DEF ValidName, n
<1>11. CASE id = w /\ w # <<>> /\ SandboxName(r, w) = t
  <2>1. t # <<>> /\ Length(t) <= NameMax
    BY <1>5, <1>6, <1>9, LengthOfText
  <2>2. t[Len(t)] # Dash
    BY <1>7, <1>11
  <2> QED
    BY <1>5, <1>6, <1>8, <1>11, <2>1, <2>2 DEF ValidName
<1> QED
  BY <1>1, <1>10, <1>11 DEF t, p

-----------------------------------------------------------------------------
(***************************************************************************)
(* Label values.                                                           *)
(***************************************************************************)

\* What LabelValue signs.
Stem(w) == Cut(Sanitized(w), LabelMax - HashLen - 1)

LEMMA StemTyped ==
  ASSUME NEW w \in Words
  PROVE  /\ Clean(Stem(w)) /\ Stem(w) \in Seq(Body)
         /\ Len(Stem(w)) \in Nat /\ Len(Stem(w)) + 1 + HashLen <= LabelMax
         /\ ToSet(w) \cap Alnum # {} => Stem(w) # <<>>
<1>1. LabelMax - HashLen - 1 \in Nat \ {0} /\ LabelMax \in Nat /\ HashLen \in Nat
  BY NamingAssumption
<1>2. /\ Clean(Stem(w)) /\ Len(Stem(w)) \in 0..(LabelMax - HashLen - 1)
      /\ ToSet(w) \cap Alnum # {} => Stem(w) # <<>>
  BY <1>1, SanitizedIsClean, CutIsClean DEF Stem
<1> QED
  BY <1>1, <1>2 DEF Clean, Begun

LEMMA LabelShape ==
  ASSUME NEW w
  PROVE  IF w = <<>> \/ ValidLabel(w) THEN LabelValue(w) = w
         ELSE LabelValue(w) = Signed(Stem(w), w)
BY DEF LabelValue, Signed, Stem

\* Two words never get one label value: what had to be altered is told by its hash, which
\* ends no word (naming.go LabelValue).
THEOREM LabelsDiffer ==
  ASSUME NEW v \in Words, NEW w \in Words, LabelValue(v) = LabelValue(w)
  PROVE  v = w
<1>1. ASSUME NEW x \in Words, LabelValue(x) # x
      PROVE  /\ LabelValue(x)[Len(LabelValue(x))] = Hash[x]
             /\ LabelValue(x) # <<>>
  <2>1. LabelValue(x) = Signed(Stem(x), x) /\ Stem(x) \in Seq(Body)
    BY <1>1, LabelShape, StemTyped
  <2>2. /\ Len(Signed(Stem(x), x)) = Len(Stem(x)) + 2 /\ Len(Stem(x)) \in Nat
        /\ Signed(Stem(x), x)[Len(Stem(x)) + 2] = Hash[x]
    BY <2>1, SignedTyped
  <2> QED
    BY <2>1, <2>2
<1>2. ASSUME NEW x \in Words, x # <<>>
      PROVE  x[Len(x)] \notin Codes
  <2>1. x \in Seq(ToSet(x)) /\ Len(x) \in 1..Len(x)
    BY <1>2, NamingAssumption, EmptySeq
  <2> QED
    BY <2>1, WordsTyped
<1>3. CASE LabelValue(v) # v /\ LabelValue(w) # w
  BY <1>1, <1>3, HashAssumption
<1>4. CASE LabelValue(v) # v /\ LabelValue(w) = w
  BY <1>1, <1>2, <1>4, Bodies
<1>5. CASE LabelValue(v) = v /\ LabelValue(w) # w
  BY <1>1, <1>2, <1>5, Bodies
<1> QED
  BY <1>3, <1>4, <1>5

\* A label value is admitted, if there is a letter or digit in the word.
THEOREM LabelsAreValid ==
  ASSUME NEW w \in Words, ToSet(w) \cap Alnum # {}
  PROVE  ValidLabel(LabelValue(w))
<1>1. CASE w = <<>> \/ ValidLabel(w)
  <2>1. w # <<>>
    BY DEF ToSet
  <2> QED
    BY <1>1, <2>1, LabelShape
<1>2. CASE ~(w = <<>> \/ ValidLabel(w))
  <2> DEFINE s == Stem(w)
             n == Signed(s, w)
  <2>1. /\ s \in Seq(Body) /\ s # <<>> /\ Len(s) \in Nat /\ Len(s) + 1 + HashLen <= LabelMax
        /\ s[1] # Dash
    BY StemTyped DEF Clean, Begun
  <2>2. Len(s) >= 1
    BY <2>1, EmptySeq
  <2> HIDE DEF s
  <2>3. /\ Len(n) = Len(s) + 2 /\ DOMAIN n = 1..(Len(s) + 2)
        /\ \A i \in 1..Len(s) : n[i] = s[i] /\ s[i] \in Body
        /\ n[Len(s) + 1] = Dash /\ n[Len(s) + 2] \in Lower
    BY <2>1, SignedTyped, Bodies
  <2>4. Length(n) <= LabelMax
    BY <2>1, LengthOfSigned
  <2> HIDE DEF n
  <2>5. ASSUME NEW i \in DOMAIN n
        PROVE  n[i] \in Alnum \cup IF i \in {1, Len(n)} THEN {} ELSE Interior \cup {Dash}
    <3>1. i \in 1..Len(s) \/ i = Len(s) + 1 \/ i = Len(s) + 2
      BY <2>1, <2>3, <2>5
    <3>2. CASE i \in 1..Len(s)
      <4>1. n[i] \in Lower \cup {Dash} /\ i # Len(n)
        BY <2>1, <2>3, <3>2, Bodies
      <4>2. i = 1 => n[i] \in Lower
        BY <2>1, <2>2, <2>3, <4>1
      <4> QED
        BY <4>1, <4>2 DEF Alnum
    <3>3. CASE i = Len(s) + 1
      BY <2>2, <2>3, <3>3
    <3>4. CASE i = Len(s) + 2
      BY <2>3, <3>4 DEF Alnum
    <3> QED
      BY <3>1, <3>2, <3>3, <3>4
  <2>6. ValidLabel(n)
    BY <2>4, <2>5 DEF ValidLabel
  <2> QED
    BY <1>2, <2>6, LabelShape DEF n, s
<1> QED
  BY <1>1, <1>2
=============================================================================
