------------------------------- MODULE Naming -------------------------------
(***************************************************************************)
(* The names and label values a session's objects get                      *)
(* (internal/naming/naming.go), as operators on words: sequences of        *)
(* characters.  The hash of a word is one character, whose length          *)
(* HashLen is the code's 8; the limits are constants so that small words   *)
(* reach them.                                                             *)
(***************************************************************************)
EXTENDS SequencesExt

CONSTANTS
  Lower,      \* lower-case letters and digits, and what Hash gives
  ToLower,    \* [upper-case letters -> Lower]
  Interior,   \* "_" and ".": neither of these, but valid inside a label value
  Words,      \* raw words: session ids, accounts, releases
  Hash,       \* [Words -> Lower]: fnvHash
  HashLen,    \* its length
  NameMax,    \* maxNameLen
  ReleaseMax, \* maxReleaseLen
  LabelMax    \* the 63 of label values

Dash == "-"
Upper == DOMAIN ToLower
Alnum == Lower \cup Upper

\* Letters are of one case, "cs" is of lower-case letters, and the part of a name that is
\* left for the id is never empty.
ASSUME NamingAssumption ==
  /\ Lower \cap Upper = {}
  /\ Dash \notin Alnum \cup Interior
  /\ "c" \in Lower
  /\ \A c \in Upper : ToLower[c] \in Lower
  /\ \A w \in Words : w \in Seq(ToSet(w)) /\ Hash[w] \in Lower
  /\ {HashLen, ReleaseMax} \subseteq Nat \ {0}
  /\ {NameMax, LabelMax} \subseteq Nat
  /\ NameMax > ReleaseMax + HashLen + 4
  /\ LabelMax > HashLen + 1

\* The hash of one word is not the hash of another, and it is none of the characters a
\* name has otherwise.
ASSUME HashAssumption ==
  /\ \A v, w \in Words : Hash[v] = Hash[w] => v = w
  /\ \A v, w \in Words : Hash[v] \notin ToSet(w)
  /\ \A v \in Words : Hash[v] \notin {"c"} \cup {ToLower[c] : c \in Upper}

-----------------------------------------------------------------------------
\* A hash counts for HashLen characters.
Length(w) ==
  LET hashes == {i \in DOMAIN w : \E v \in Words : w[i] = Hash[v]}
  IN  Len(w) + (HashLen - 1) * Cardinality(hashes)

TrimRight(w) ==
  LET kept == {i \in DOMAIN w : w[i] # Dash}
  IN  IF kept = {} THEN <<>> ELSE SubSeq(w, 1, Max(kept))

\* One character more: lower-cased, or a dash for a run of anything else, none in front.
Put(out, c) ==
  CASE c \in Lower -> Append(out, c)
    [] c \in Upper -> Append(out, ToLower[c])
    [] c \notin Alnum /\ out # <<>> /\ Last(out) # Dash -> Append(out, Dash)
    [] OTHER -> out

\* Lower-cased, runs of anything else as one dash, none at the ends.
Sanitized(w) ==
  LET read[n \in 0..Len(w)] == IF n = 0 THEN <<>> ELSE Put(read[n - 1], w[n])
  IN  TrimRight(read[Len(w)])

\* Cut to max characters, without a dash at the cut.
Cut(w, max) == IF Len(w) > max THEN TrimRight(SubSeq(w, 1, max)) ELSE w

ReleasePrefix(release) ==
  LET rel == Cut(Sanitized(release), ReleaseMax)
  IN  IF rel = <<>> THEN <<>> ELSE Append(rel, Dash)

\* "cs-" is two characters here.
Kind == <<"c", Dash>>

\* (mutant) the hash is added only when the id was cut
AlteredByCutting(raw, max) == Len(Sanitized(raw)) > max

\* Whether sanitising or cutting changed the id.
Altered(raw, max) == Cut(Sanitized(raw), max) # raw

SandboxName(release, raw) ==
  LET prefix == ReleasePrefix(release) \o Kind
      maxID  == NameMax - Len(prefix) - 1 - HashLen
      id     == Cut(Sanitized(raw), maxID)
  IN  IF Altered(raw, maxID) \/ id = <<>>
      THEN prefix \o id \o <<Dash, Hash[raw]>>
      ELSE prefix \o id

ValidLabel(w) ==
  /\ Length(w) <= LabelMax
  /\ \A i \in DOMAIN w :
       w[i] \in Alnum \cup IF i \in {1, Len(w)} THEN {} ELSE Interior \cup {Dash}

\* (mutant) the cut leaves no room for the hash
LabelValueUncut(w) ==
  IF w = <<>> \/ ValidLabel(w) THEN w
  ELSE Cut(Sanitized(w), LabelMax) \o <<Dash, Hash[w]>>

LabelValue(w) ==
  IF w = <<>> \/ ValidLabel(w) THEN w
  ELSE Cut(Sanitized(w), LabelMax - HashLen - 1) \o <<Dash, Hash[w]>>

\* A DNS label, which a Sandbox name has to be.
ValidName(w) ==
  /\ w # <<>>
  /\ Length(w) <= NameMax
  /\ \A i \in DOMAIN w :
       w[i] \in Lower \cup IF i \in {1, Len(w)} THEN {} ELSE {Dash}
=============================================================================
