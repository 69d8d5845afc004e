--------------------------- MODULE ReadingProofs ---------------------------
(***************************************************************************)
(* Proofs about the functions of a configuration that Reading has: where   *)
(* reads and creates look, what a rename changes, what is related.  They   *)
(* hold for every case, so for every behaviour.                            *)
(***************************************************************************)
EXTENDS Reading, FiniteSets, FiniteSetTheorems, WellFoundedInduction, TLAPS

\* A case is one of its module's for ever.
LEMMA CasesStay ==
  ReadingSpec => [](of # "refscan" => of \in DOMAIN Cases /\ case \in Cases[of])
<1> DEFINE Inv == of # "refscan" => of \in DOMAIN Cases /\ case \in Cases[of]
<1>1. ReadingInit => Inv
  BY DEF ReadingInit
<1>2. Inv /\ [ReadingNext]_<<vars, of, case>> => Inv'
  BY DEF ReadingNext
<1> QED
  BY <1>1, <1>2, PTL DEF ReadingSpec

-----------------------------------------------------------------------------
(***************************************************************************)
(* Leaves: what a rename changes.                                          *)
(***************************************************************************)

LEMMA SameCardinality ==
  \A S : /\ Lv!Cardinality(S) = Cardinality(S) /\ Wi!Cardinality(S) = Cardinality(S)
         /\ Rg!Cardinality(S) = Cardinality(S)
  BY DEF Lv!Cardinality, Wi!Cardinality, Rg!Cardinality, Cardinality

LEMMA TextIsTokens ==
  ASSUME NEW t \in Lv!Text
  PROVE  /\ DOMAIN t = 1 .. Len(t) /\ Len(t) \in Nat
         /\ \A i \in DOMAIN t : t[i] \in Lv!Token
         /\ \A i \in DOMAIN t : t[i] = "header" => i = 1
  BY DEF Lv!Text

\* The body of a text is all of it but a block scalar's header.
LEMMA BodyIsAllButHeader ==
  ASSUME NEW t \in Lv!Text
  PROVE  DOMAIN Lv!Body(t) = {i \in DOMAIN t : t[i] # "header"}
<1>1. DOMAIN t = 1 .. Len(t) /\ Len(t) \in Nat /\ t \in Seq(Lv!Token)
  BY TextIsTokens DEF Lv!Text
<1>2. \A i \in DOMAIN t : t[i] = "header" => i = 1
  BY TextIsTokens
<1>3. DOMAIN Lv!Body(t) = {i \in DOMAIN t : i >= Lv!BodyStart(t)}
  BY DEF Lv!Body, Lv!Restrict
<1>4. CASE t # <<>> /\ Head(t) = "header"
  <2>1. Lv!BodyStart(t) = 2 /\ 1 \in DOMAIN t /\ t[1] = "header"
    BY <1>1, <1>4 DEF Lv!BodyStart
  <2> QED
    BY <1>1, <1>2, <1>3, <2>1
<1>5. CASE ~(t # <<>> /\ Head(t) = "header")
  <2>1. Lv!BodyStart(t) = 1
    BY <1>5 DEF Lv!BodyStart
  <2>2. \A i \in DOMAIN t : t[i] # "header"
    BY <1>1, <1>2, <1>5
  <2> QED
    BY <1>1, <1>3, <2>1, <2>2
<1> QED
  BY <1>4, <1>5

Spoken(token) == CASE token = "old" -> "new" [] token = "anchor" -> "fresh" [] OTHER -> token

\* What splicing makes of each token.
LEMMA SplicedTokens ==
  ASSUME NEW t \in Lv!Text
  PROVE  /\ DOMAIN Lv!SpliceText(t) = DOMAIN t
         /\ \A i \in DOMAIN t : Lv!SpliceText(t)[i] = Spoken(t[i])
<1>1. \A i \in DOMAIN Lv!Body(t) : Lv!Body(t)[i] = t[i] /\ t[i] # "header"
  BY BodyIsAllButHeader DEF Lv!Body, Lv!Restrict
<1>2. ASSUME NEW i \in DOMAIN t PROVE Lv!SpliceText(t)[i] = Spoken(t[i])
  <2>1. CASE t[i] = "header"
    <3>1. i \notin DOMAIN Lv!Body(t)
      BY <2>1, BodyIsAllButHeader
    <3>2. Lv!SpliceText(t)[i] = t[i]
      BY <3>1 DEF Lv!SpliceText
    <3> QED
      BY <2>1, <3>2 DEF Spoken
  <2>2. CASE t[i] # "header"
    <3>1. i \in DOMAIN Lv!Body(t) /\ Lv!SpliceText(t)[i] = Lv!Rewritten(Lv!Body(t))[i]
      BY <2>2, BodyIsAllButHeader DEF Lv!SpliceText
    <3> QED
      BY <1>1, <2>2, <3>1 DEF Lv!Rewritten, Spoken
  <2> QED
    BY <2>1, <2>2
<1> QED
  BY <1>2 DEF Lv!SpliceText

LEMMA SeqElements ==
  ASSUME NEW S, NEW s \in Seq(S)
  PROVE  \A i \in DOMAIN s : s[i] \in S
  OBVIOUS

LEMMA FileTexts ==
  ASSUME NEW file \in Lv!File
  PROVE  /\ \A s \in DOMAIN file.texts : file.texts[s] \in Lv!Text
         /\ \A l \in DOMAIN file.leaves :
              file.leaves[l].reads \in DOMAIN file.texts /\ file.leaves[l].merged \in BOOLEAN
         /\ Lv!Spliced(file).leaves = file.leaves
         /\ DOMAIN Lv!Spliced(file).texts = DOMAIN file.texts
         /\ \A s \in DOMAIN file.texts :
              Lv!Spliced(file).texts[s] =
                IF s \in Lv!Spans(file) THEN Lv!SpliceText(file.texts[s]) ELSE file.texts[s]
<1>1. /\ file \in [texts : Seq(Lv!Text), leaves : Seq([reads : Nat, merged : BOOLEAN])]
      /\ \A l \in DOMAIN file.leaves : file.leaves[l].reads \in DOMAIN file.texts
  BY DEF Lv!File
<1>2. file.texts \in Seq(Lv!Text) /\ file.leaves \in Seq([reads : Nat, merged : BOOLEAN])
  BY <1>1
<1>3. \A s \in DOMAIN file.texts : file.texts[s] \in Lv!Text
  BY <1>2
<1>4. \A l \in DOMAIN file.leaves : file.leaves[l] \in [reads : Nat, merged : BOOLEAN]
  BY <1>2, SeqElements
<1>5. \A l \in DOMAIN file.leaves : file.leaves[l].merged \in BOOLEAN
  BY <1>4
<1> DEFINE spliced == [s \in DOMAIN file.texts |->
                         IF s \in Lv!Spans(file) THEN Lv!SpliceText(file.texts[s]) ELSE file.texts[s]]
<1>6. Lv!Spliced(file) = [file EXCEPT !.texts = spliced]
  BY DEF Lv!Spliced
<1> HIDE DEF spliced
<1>7. Lv!Spliced(file).leaves = file.leaves /\ Lv!Spliced(file).texts = spliced
  BY <1>1, <1>6
<1> QED
  BY <1>1, <1>3, <1>5, <1>7 DEF spliced

\* A text is counted alike before and after only if it has no anchor.
LEMMA AgreedHaveNoAnchor ==
  ASSUME NEW t \in Lv!Text, Lv!CountsAgree(t), \A i \in DOMAIN t : t[i] # "split"
  PROVE  \A i \in DOMAIN t : t[i] # "anchor"
<1> DEFINE A == {i \in DOMAIN Lv!Body(t) : Lv!Body(t)[i] \in {"old", "anchor", "header"}}
           B == {i \in DOMAIN Lv!ValueOf(t) : Lv!ValueOf(t)[i] \in {"old", "anchor", "header"}}
<1>1. Cardinality(A) = Cardinality(B)
  BY SameCardinality DEF Lv!CountsAgree, Lv!Occurrences
<1>2. A = {i \in DOMAIN t : t[i] \in {"old", "anchor"}}
  <2>1. \A i \in DOMAIN Lv!Body(t) : Lv!Body(t)[i] = t[i]
    BY DEF Lv!Body, Lv!Restrict
  <2> QED
    BY <2>1, BodyIsAllButHeader
<1>3. B = {i \in DOMAIN t : t[i] = "old"}
  BY DEF Lv!ValueOf
<1>4. IsFiniteSet(A)
  <2>1. A \in SUBSET (1 .. Len(t))
    BY <1>2, TextIsTokens
  <2>2. IsFiniteSet(1 .. Len(t))
    BY TextIsTokens, FS_Interval
  <2> HIDE DEF A
  <2> QED
    BY <2>1, <2>2, FS_Subset
<1>5. B \in SUBSET A
  BY <1>2, <1>3
<1> HIDE DEF A, B
<1>6. A = B
  BY <1>1, <1>4, <1>5, FS_Subset
<1> QED
  BY <1>2, <1>3, <1>6

LEMMA OnlyValuesDoChange ==
  ASSUME NEW file \in Lv!File
  PROVE  Lv!OnlyValuesChange(file)
<1> DEFINE f == Lv!Spliced(file)
<1> SUFFICES ASSUME \A s \in Lv!Spans(file) : Lv!CountsAgree(file.texts[s]),
                    Lv!Values(f) = Lv!Replaced(file),
                    NEW s \in DOMAIN file.texts, NEW i \in DOMAIN file.texts[s],
                    f.texts[s][i] # file.texts[s][i]
             PROVE  file.texts[s][i] = "old" /\ f.texts[s][i] = "new"
  BY DEF Lv!OnlyValuesChange, Lv!SpliceLeaves
<1> DEFINE t == file.texts[s]
           u == Lv!SpliceText(t)
<1>1. s \in Lv!Spans(file) /\ f.texts[s] = u /\ t \in Lv!Text
  BY FileTexts
<1>2. PICK l \in DOMAIN file.leaves : file.leaves[l].reads = s
  BY <1>1 DEF Lv!Spans, Lv!Changed
<1>3. Lv!ValueOf(u) = Lv!Rewritten(Lv!ValueOf(t))
  <2>1. Lv!Values(f)[l] = Lv!ValueOf(u)
    BY <1>1, <1>2, FileTexts DEF Lv!Values
  <2>2. Lv!Replaced(file)[l] = Lv!Rewritten(Lv!ValueOf(t))
    BY <1>2 DEF Lv!Replaced, Lv!Values
  <2> QED
    BY <2>1, <2>2
<1> HIDE DEF f, t, u
<1>4. ASSUME NEW j \in DOMAIN t, t[j] = "split" PROVE FALSE
  <2>1. u[j] = "split" /\ j \in DOMAIN u
    BY <1>1, <1>4, SplicedTokens DEF u, Spoken
  <2>2. Lv!ValueOf(u)[j] = "old"
    BY <2>1 DEF Lv!ValueOf
  <2>3. j \in DOMAIN Lv!ValueOf(t) /\ Lv!ValueOf(t)[j] = "old"
    BY <1>4 DEF Lv!ValueOf
  <2>4. Lv!Rewritten(Lv!ValueOf(t))[j] = "new"
    BY <2>3 DEF Lv!Rewritten
  <2> QED
    BY <1>3, <2>2, <2>4
<1>5. t[i] # "anchor"
  BY <1>1, <1>4, AgreedHaveNoAnchor DEF t
<1>6. u[i] = Spoken(t[i]) /\ u[i] # t[i]
  BY <1>1, SplicedTokens DEF t, u
<1> QED
  BY <1>1, <1>5, <1>6 DEF t, u, Spoken

\* Without anchors and escapes the value of a spliced text is the rewritten value.
LEMMA PlainValues ==
  ASSUME NEW t \in Lv!Text, \A i \in DOMAIN t : t[i] \notin {"split", "anchor", "narrow"}
  PROVE  Lv!ValueOf(Lv!SpliceText(t)) = Lv!Rewritten(Lv!ValueOf(t))
<1> DEFINE u == Lv!SpliceText(t)
<1>1. DOMAIN u = DOMAIN t /\ \A i \in DOMAIN t : u[i] = Spoken(t[i])
  BY SplicedTokens
<1>2. \A i \in DOMAIN t : t[i] \in Lv!Token
  BY TextIsTokens
<1>20. "narrow" \notin Lv!Range(t) /\ "narrow" \notin Lv!Range(u)
  BY <1>1, <1>2 DEF Lv!Range, Spoken
<1> HIDE DEF u
<1>3. DOMAIN Lv!ValueOf(u) = DOMAIN Lv!ValueOf(t)
  BY <1>1, <1>2 DEF Lv!ValueOf, Lv!Token, Spoken
<1>4. ASSUME NEW i \in DOMAIN Lv!ValueOf(t)
      PROVE  Lv!ValueOf(u)[i] = Lv!Rewritten(Lv!ValueOf(t))[i]
  <2>1. i \in DOMAIN t /\ t[i] \in {"old", "new", "word"} /\ Lv!ValueOf(t)[i] = t[i]
    BY <1>2, <1>20 DEF Lv!ValueOf, Lv!Token
  <2>2. Lv!ValueOf(u)[i] = Spoken(t[i])
    BY <1>1, <1>20, <1>3, <2>1 DEF Lv!ValueOf, Spoken
  <2>3. Lv!Rewritten(Lv!ValueOf(t))[i] = Spoken(t[i])
    BY <2>1 DEF Lv!Rewritten, Spoken
  <2> QED
    BY <2>2, <2>3
<1>5. DOMAIN Lv!Rewritten(Lv!ValueOf(t)) = DOMAIN Lv!ValueOf(t)
  BY DEF Lv!Rewritten
<1> DEFINE v == Lv!ValueOf(u)
           w == Lv!Rewritten(Lv!ValueOf(t))
<1>6. v = [i \in DOMAIN v |-> v[i]] /\ w = [i \in DOMAIN w |-> w[i]]
  BY DEF Lv!ValueOf, Lv!Rewritten
<1> HIDE DEF v, w
<1>7. v = w
  BY <1>3, <1>4, <1>5, <1>6 DEF v, w
<1> QED
  BY <1>7 DEF u, v, w

LEMMA PlainOnesAreSpliced ==
  ASSUME NEW file \in Lv!File
  PROVE  Lv!PlainIsSpliced(file)
<1> SUFFICES ASSUME Lv!Changed(file) # {},
                    \A s \in DOMAIN file.texts : Lv!Range(file.texts[s]) \cap {"split", "anchor", "narrow"} = {},
                    \A l \in DOMAIN file.leaves : file.leaves[l].merged =>
                      \E k \in DOMAIN file.leaves :
                        file.leaves[k] = [reads |-> file.leaves[l].reads, merged |-> FALSE]
             PROVE  Lv!SpliceLeaves(file) # {}
  BY DEF Lv!PlainIsSpliced
<1> DEFINE f == Lv!Spliced(file)
<1>1. \A s \in DOMAIN file.texts : \A i \in DOMAIN file.texts[s] :
        file.texts[s][i] \notin {"split", "anchor", "narrow"}
  BY DEF Lv!Range
<1>2. ASSUME NEW l \in Lv!Changed(file) PROVE file.leaves[l].reads \in Lv!Spans(file)
  <2>1. PICK k \in DOMAIN file.leaves : file.leaves[k].reads = file.leaves[l].reads /\ ~file.leaves[k].merged
    <3>1. l \in DOMAIN file.leaves /\ file.leaves[l].merged \in BOOLEAN
      BY <1>2, FileTexts DEF Lv!Changed
    <3>2. CASE file.leaves[l].merged
      <4>1. PICK k \in DOMAIN file.leaves :
              file.leaves[k] = [reads |-> file.leaves[l].reads, merged |-> FALSE]
        BY <3>1, <3>2
      <4>2. file.leaves[k].reads = file.leaves[l].reads /\ file.leaves[k].merged = FALSE
        BY <4>1
      <4> QED
        BY <4>2, Zenon
    <3>3. CASE ~file.leaves[l].merged
      BY <3>1, <3>3
    <3> QED
      BY <3>2, <3>3
  <2>2. k \in Lv!Changed(file)
    BY <2>1 DEF Lv!Changed, Lv!Values
  <2> QED
    BY <2>1, <2>2 DEF Lv!Spans
<1>3. Lv!Spans(file) # {}
  BY <1>2
<1>4. ASSUME NEW s \in Lv!Spans(file)
      PROVE  s \in DOMAIN file.texts /\ \E i \in DOMAIN file.texts[s] : file.texts[s][i] = "old"
  <2>1. PICK l \in Lv!Changed(file) : file.leaves[l].reads = s
    BY DEF Lv!Spans
  <2>2. s \in DOMAIN file.texts /\ "old" \in Lv!Range(Lv!ValueOf(file.texts[s]))
    BY <2>1, FileTexts DEF Lv!Changed, Lv!Values
  <2>3. PICK i \in DOMAIN Lv!ValueOf(file.texts[s]) : Lv!ValueOf(file.texts[s])[i] = "old"
    BY <2>2 DEF Lv!Range
  <2> QED
    BY <1>1, <2>2, <2>3 DEF Lv!ValueOf
<1>5. ASSUME NEW s \in Lv!Spans(file) PROVE Lv!CountsAgree(file.texts[s])
  <2> DEFINE t == file.texts[s]
             A == {i \in DOMAIN Lv!Body(t) : Lv!Body(t)[i] \in {"old", "anchor", "header"}}
             B == {i \in DOMAIN Lv!ValueOf(t) : Lv!ValueOf(t)[i] \in {"old", "anchor", "header"}}
  <2>1. t \in Lv!Text
    BY <1>4, FileTexts
  <2>2. A = {i \in DOMAIN t : t[i] = "old"}
    <3>1. \A i \in DOMAIN Lv!Body(t) : Lv!Body(t)[i] = t[i]
      BY DEF Lv!Body, Lv!Restrict
    <3> QED
      BY <1>1, <1>4, <2>1, <3>1, BodyIsAllButHeader
  <2>3. B = {i \in DOMAIN t : t[i] = "old"}
    BY <1>1, <1>4 DEF Lv!ValueOf
  <2>4. A # {}
    BY <1>4, <2>2
  <2>5. IsFiniteSet(A)
    <3>1. A \in SUBSET (1 .. Len(t))
      BY <2>1, <2>2, TextIsTokens
    <3>2. IsFiniteSet(1 .. Len(t))
      BY <2>1, TextIsTokens, FS_Interval
    <3> HIDE DEF A
    <3> QED
      BY <3>1, <3>2, FS_Subset
  <2>6. Lv!Occurrences(Lv!Body(t)) = Cardinality(A) /\ Lv!Occurrences(Lv!ValueOf(t)) = Cardinality(B)
    BY SameCardinality DEF Lv!Occurrences
  <2> HIDE DEF A, B
  <2>7. Cardinality(A) \in Nat /\ Cardinality(A) # 0
    BY <2>4, <2>5, FS_CardinalityType, FS_EmptySet
  <2> QED
    BY <2>2, <2>3, <2>6, <2>7 DEF Lv!CountsAgree
<1>6. ASSUME NEW l \in DOMAIN file.leaves PROVE Lv!Values(f)[l] = Lv!Replaced(file)[l]
  <2> DEFINE s == file.leaves[l].reads
             t == file.texts[s]
  <2>1. s \in DOMAIN file.texts /\ t \in Lv!Text
    BY FileTexts
  <2>2. Lv!Replaced(file)[l] = Lv!Rewritten(Lv!ValueOf(t))
    BY DEF Lv!Replaced, Lv!Values
  <2>3. CASE s \in Lv!Spans(file)
    <3>1. Lv!Values(f)[l] = Lv!ValueOf(Lv!SpliceText(t))
      BY <2>1, <2>3, FileTexts DEF Lv!Values
    <3> QED
      BY <1>1, <2>1, <2>2, <3>1, PlainValues
  <2>4. CASE s \notin Lv!Spans(file)
    <3>1. Lv!Values(f)[l] = Lv!ValueOf(t)
      BY <2>1, <2>4, FileTexts DEF Lv!Values
    <3>2. "old" \notin Lv!Range(Lv!ValueOf(t))
      <4>1. l \notin Lv!Changed(file)
        BY <1>2, <2>4
      <4> QED
        BY <4>1 DEF Lv!Changed, Lv!Values
    <3>3. Lv!Rewritten(Lv!ValueOf(t)) = Lv!ValueOf(t)
      <4>1. \A i \in DOMAIN Lv!ValueOf(t) : Lv!ValueOf(t)[i] \notin {"old", "anchor", "header"}
        BY <3>2 DEF Lv!Range, Lv!ValueOf
      <4> DEFINE v == Lv!ValueOf(t)
      <4>2. v = [i \in DOMAIN v |-> v[i]]
        BY DEF Lv!ValueOf
      <4> HIDE DEF v
      <4>3. Lv!Rewritten(v) = v
        BY <4>1, <4>2 DEF Lv!Rewritten, v
      <4> QED
        BY <4>3 DEF v
    <3> QED
      BY <2>2, <3>1, <3>3
  <2> QED
    BY <2>3, <2>4
<1>7. Lv!Values(f) = Lv!Replaced(file)
  <2>1. f.leaves = file.leaves
    BY FileTexts
  <2> QED
    BY <1>6, <2>1 DEF Lv!Values, Lv!Replaced
<1> QED
  BY <1>3, <1>5, <1>7 DEF Lv!SpliceLeaves

(* C-14, for renames: whatever a splice makes of a file reads as what was      *)
(* meant, and nothing in the text changed but the target where a value reads   *)
(* it; and a file without anchors and escapes that can hold the replacement    *)
(* is not dumped whole.                                                        *)
THEOREM RenamesTouchValues == ReadingSpec => []RenameTouchesValues
<1>1. (of # "refscan" => of \in DOMAIN Cases /\ case \in Cases[of]) => RenameTouchesValues
  BY CasesAssumption, OnlyValuesDoChange, PlainOnesAreSpliced DEF RenameTouchesValues
<1> QED
  BY <1>1, CasesStay, PTL

-----------------------------------------------------------------------------
(***************************************************************************)
(* Wiring: where reads look and creates go.                                *)
(***************************************************************************)

Spot == Nat \X (Nat \X Nat)

LEMMA LeastIn ==
  ASSUME NEW S \in SUBSET Nat, S # {}
  PROVE  \E i \in S : \A j \in S : i <= j
<1>1. PICK i \in S : \A j \in S : ~ (<<j, i>> \in OpToRel(<, Nat))
  BY NatLessThanWellFounded, WFMin
<1>2. ASSUME NEW j \in S PROVE i <= j
  <2>1. <<j, i>> \in Nat \X Nat
    OBVIOUS
  <2>2. ~ (j < i)
    BY <1>1, <2>1 DEF OpToRel
  <2> QED
    BY <2>2
<1> QED
  BY <1>2

\* Among places found, one was found first.
LEMMA FirstSpot ==
  ASSUME NEW S \in SUBSET Spot, S # {}
  PROVE  \E m \in S : \A n \in S : ~Wi!Before(n, m)
<1>1. \A n \in S : n[1] \in Nat /\ n[2][1] \in Nat /\ n[2][2] \in Nat
  BY DEF Spot
<1> DEFINE A == {n[1] : n \in S}
<1>2. PICK a \in A : \A k \in A : a <= k
  BY <1>1, LeastIn
<1> DEFINE B == {n[2][1] : n \in {m \in S : m[1] = a}}
<1>3. PICK b \in B : \A k \in B : b <= k
  <2>1. B \in SUBSET Nat /\ B # {}
    BY <1>1
  <2> HIDE DEF A, B
  <2> QED
    BY <2>1, LeastIn
<1> DEFINE C == {n[2][2] : n \in {m \in S : m[1] = a /\ m[2][1] = b}}
<1>4. PICK c \in C : \A k \in C : c <= k
  <2>1. C \in SUBSET Nat /\ C # {}
    BY <1>1
  <2> HIDE DEF A, B, C
  <2> QED
    BY <2>1, LeastIn
<1>5. PICK m \in S : m[1] = a /\ m[2][1] = b /\ m[2][2] = c
  OBVIOUS
<1>6. ASSUME NEW n \in S PROVE ~Wi!Before(n, m)
  <2>1. a <= n[1]
    BY <1>2
  <2>2. n[1] = a => b <= n[2][1]
    BY <1>3
  <2>3. n[1] = a /\ n[2][1] = b => c <= n[2][2]
    BY <1>4
  <2> HIDE DEF A, B, C
  <2> QED
    BY <1>1, <1>5, <2>1, <2>2, <2>3 DEF Wi!Before
<1> QED
  BY <1>6

\* Keeping the first of every place forgets none and repeats none.
LEMMA OnceIsASet ==
  ASSUME NEW found, DOMAIN found \in SUBSET Spot
  PROVE  /\ Wi!Range(Wi!Once(found)) = Wi!Range(found)
         /\ Wi!IsInjective(Wi!Once(found))
<1> DEFINE Kept == {n \in DOMAIN found : \A m \in DOMAIN found : found[m] = found[n] => ~Wi!Before(m, n)}
<1>1. DOMAIN Wi!Once(found) = Kept /\ \A n \in Kept : Wi!Once(found)[n] = found[n]
  BY DEF Wi!Once, Wi!Restrict
<1>2. ASSUME NEW n \in DOMAIN found PROVE \E k \in Kept : found[k] = found[n]
  <2> DEFINE S == {m \in DOMAIN found : found[m] = found[n]}
  <2>1. S \in SUBSET Spot /\ S # {}
    OBVIOUS
  <2>2. PICK k \in S : \A m \in S : ~Wi!Before(m, k)
    <3> HIDE DEF S
    <3> QED
      BY <2>1, FirstSpot
  <2> QED
    BY <2>2
<1>3. ASSUME NEW k \in Kept, NEW n \in Kept, found[k] = found[n] PROVE k = n
  <2>1. k \in Spot /\ n \in Spot /\ ~Wi!Before(k, n) /\ ~Wi!Before(n, k)
    BY <1>3
  <2>2. k[1] = n[1] /\ k[2][1] = n[2][1] /\ k[2][2] = n[2][2]
    BY <2>1 DEF Spot, Wi!Before
  <2> QED
    BY <2>1, <2>2 DEF Spot
<1> HIDE DEF Kept
<1>4. Wi!Range(Wi!Once(found)) = {found[n] : n \in Kept}
  BY <1>1 DEF Wi!Range
<1>5. Wi!IsInjective(Wi!Once(found))
  BY <1>1, <1>3 DEF Wi!IsInjective
<1>6. Wi!Range(found) = {found[n] : n \in Kept}
  BY <1>2 DEF Wi!Range, Kept
<1> QED
  BY <1>4, <1>5, <1>6

\* What the guard lets through.
Visible(places) == {p \in places : p.file \notin Outside}

\* An include that leads outside.
Strays(v) == v.tag = "include" /\ v.path \in Outside

LEMMA DirTypes ==
  ASSUME NEW d \in Path
  PROVE  /\ DOMAIN Members[d] \in SUBSET Nat /\ \A i \in DOMAIN Members[d] : Members[d][i] \in Path
         /\ DOMAIN Configures[d] \in SUBSET Nat
         /\ Wi!DirMembers(d) = {i \in DOMAIN Members[d] : Members[d][i] \notin Outside}
<1>1. Members[d] \in Seq(Path) /\ Configures[d] \in Seq(Key)
  BY WiringAssumption
<1>2. d \in Outside => \A i \in DOMAIN Members[d] : Members[d][i] \in Outside
  BY WiringAssumption
<1> QED
  BY <1>1, <1>2 DEF Wi!DirMembers

\* Unless it raises, a key is read as Home Assistant reads it, but for unknown tags.
LEMMA KeyIsRead ==
  ASSUME NEW v \in Wi!Value, NEW key
  PROVE  /\ DOMAIN Wi!KeyPlaces(v, key) \in SUBSET (Nat \X Nat)
         /\ ~Strays(v) => Wi!Range(Wi!KeyPlaces(v, key)) =
              IF v.tag \in Wi!UnknownDirs THEN {} ELSE Visible(Wi!HaKey(v, key))
<1>1. v.tag \in Wi!Tags /\ v.path \in Path
  BY DEF Wi!Value
<1>2. CASE v.tag = "include"
  <2>1. Wi!KeyPlaces(v, key) = [n \in {<<1, 1>>} |-> Wi!Root(v.path)]
    BY <1>2 DEF Wi!KeyPlaces, Wi!MergeDirs
  <2>2. Wi!Range(Wi!KeyPlaces(v, key)) = {Wi!Root(v.path)}
    BY <2>1 DEF Wi!Range
  <2>3. Wi!HaKey(v, key) = {Wi!Root(v.path)} /\ (~Strays(v) => Wi!Root(v.path).file \notin Outside)
    BY <1>2 DEF Wi!HaKey, Wi!Root, Wi!Place, Wi!MergeDirs, Wi!UnknownDirs, Strays
  <2> QED
    BY <1>2, <2>1, <2>2, <2>3 DEF Visible, Wi!UnknownDirs
<1>3. CASE v.tag = "inline"
  <2>1. Wi!KeyPlaces(v, key) = [n \in {<<1, 1>>} |-> Wi!Place(Wi!Main, <<key>>)]
    BY <1>3 DEF Wi!KeyPlaces, Wi!MergeDirs
  <2>2. Wi!Range(Wi!KeyPlaces(v, key)) = {Wi!Place(Wi!Main, <<key>>)}
    BY <2>1 DEF Wi!Range
  <2>3. /\ Wi!HaKey(v, key) = {Wi!Place(Wi!Main, <<key>>)}
        /\ Wi!Place(Wi!Main, <<key>>).file \notin Outside
    BY <1>3, WiringAssumption DEF Wi!HaKey, Wi!Place, Wi!MergeDirs, Wi!UnknownDirs
  <2> QED
    BY <1>3, <2>1, <2>2, <2>3 DEF Visible, Wi!UnknownDirs
<1>4. CASE v.tag \in Wi!MergeDirs
  <2> DEFINE M == Members[v.path]
             D == Wi!DirMembers(v.path)
  <2>1. Wi!KeyPlaces(v, key) = [n \in D \X {1} |-> Wi!Root(M[n[1]])]
    BY <1>4 DEF Wi!KeyPlaces, Wi!MergeDirs
  <2>2. D = {i \in DOMAIN M : M[i] \notin Outside} /\ D \in SUBSET Nat
    BY <1>1, DirTypes
  <2>3. Wi!HaKey(v, key) = {Wi!Root(f) : f \in {M[i] : i \in DOMAIN M}}
    BY <1>4 DEF Wi!HaKey, Wi!MergeDirs, Wi!Range
  <2> HIDE DEF M, D
  <2>4. Wi!Range(Wi!KeyPlaces(v, key)) = {Wi!Root(M[i]) : i \in D}
    <3>1. Wi!Range(Wi!KeyPlaces(v, key)) = {Wi!Root(M[n[1]]) : n \in D \X {1}}
      BY <2>1 DEF Wi!Range
    <3>2. \A i \in D : <<i, 1>> \in D \X {1} /\ <<i, 1>>[1] = i
      OBVIOUS
    <3>3. \A n \in D \X {1} : n[1] \in D
      OBVIOUS
    <3> QED
      BY <3>1, <3>2, <3>3
  <2>5. \A f : Wi!Root(f).file = f
    BY DEF Wi!Root, Wi!Place
  <2>6. Visible(Wi!HaKey(v, key)) = {Wi!Root(M[i]) : i \in D}
    BY <2>2, <2>3, <2>5 DEF Visible
  <2>7. DOMAIN Wi!KeyPlaces(v, key) \in SUBSET (Nat \X Nat)
    BY <2>1, <2>2
  <2>8. v.tag \notin Wi!UnknownDirs
    BY <1>4 DEF Wi!UnknownDirs, Wi!MergeDirs
  <2> QED
    BY <2>4, <2>6, <2>7, <2>8
<1>5. CASE v.tag \in Wi!UnknownDirs \cup {"other"}
  <2>1. Wi!KeyPlaces(v, key) = [n \in {} |-> Wi!Root(Wi!Main)]
    BY <1>5 DEF Wi!KeyPlaces, Wi!MergeDirs, Wi!UnknownDirs
  <2>2. Wi!Range(Wi!KeyPlaces(v, key)) = {} /\ DOMAIN Wi!KeyPlaces(v, key) = {}
    BY <2>1 DEF Wi!Range
  <2>3. v.tag \notin Wi!UnknownDirs => Wi!HaKey(v, key) = {}
    BY <1>5 DEF Wi!HaKey, Wi!MergeDirs, Wi!UnknownDirs
  <2> QED
    BY <2>2, <2>3 DEF Visible
<1> QED
  BY <1>1, <1>2, <1>3, <1>4, <1>5 DEF Wi!Tags

\* The files of an !include_dir_named are read as Home Assistant reads them.
LEMMA PackageIsRead ==
  ASSUME NEW p \in Wi!Value
  PROVE  /\ DOMAIN Wi!PackagePlaces(p) \in SUBSET (Nat \X Nat)
         /\ p.tag = "named" => Wi!Range(Wi!PackagePlaces(p)) = Visible(Wi!HaPackage(p))
<1> DEFINE files == Wi!PackageFiles(p)
           read  == Wi!Range(Members[p.path])
<1>1. p.tag \in Wi!Tags /\ p.path \in Path
  BY DEF Wi!Value
<1>2. /\ DOMAIN files \in SUBSET Nat /\ \A i \in DOMAIN files : files[i] \in Path
      /\ p.tag = "named" => {files[i] : i \in DOMAIN files} = {f \in read : f \notin Outside}
  <2>1. CASE p.tag \in {"inline", "other"}
    <3>1. files = [i \in {} |-> Wi!Main] /\ p.tag # "named"
      BY <2>1 DEF Wi!PackageFiles
    <3> HIDE DEF files, read
    <3> QED
      BY <3>1
  <2>2. CASE p.tag = "include"
    <3>1. files = [i \in {1} |-> p.path] /\ p.tag # "named"
      BY <2>2 DEF Wi!PackageFiles
    <3> HIDE DEF files, read
    <3> QED
      BY <1>1, <3>1
  <2>3. CASE p.tag \notin {"inline", "other", "include"}
    <3> DEFINE M == Members[p.path]
               D == Wi!DirMembers(p.path)
    <3>1. files = [i \in D |-> M[i]] /\ read = {M[i] : i \in DOMAIN M}
      BY <2>3 DEF Wi!PackageFiles, Wi!Range
    <3>2. /\ D = {i \in DOMAIN M : M[i] \notin Outside} /\ DOMAIN M \in SUBSET Nat
          /\ \A i \in DOMAIN M : M[i] \in Path
      BY <1>1, DirTypes
    <3> HIDE DEF files, read, M, D
    <3> QED
      BY <3>1, <3>2
  <2> QED
    BY <2>1, <2>2, <2>3
<1>3. p.tag = "named" =>
        Wi!HaPackage(p) = UNION {{Wi!Place(f, <<k>>) : k \in Wi!Range(Configures[f])} : f \in read}
  BY DEF Wi!HaPackage
<1> DEFINE spots == UNION {{i} \X DOMAIN Configures[files[i]] : i \in DOMAIN files}
<1>4. Wi!PackagePlaces(p) =
        [n \in spots |-> Wi!Place(files[n[1]], <<Configures[files[n[1]]][n[2]]>>)]
  BY DEF Wi!PackagePlaces
<1> HIDE DEF files, read
<1>5. ASSUME NEW i \in DOMAIN files, NEW j \in DOMAIN Configures[files[i]]
      PROVE  <<i, j>> \in spots /\ i \in Nat /\ j \in Nat
  <2>1. files[i] \in Path /\ i \in Nat
    BY <1>2
  <2> QED
    BY <2>1, DirTypes
<1>6. ASSUME NEW n \in spots
      PROVE  n[1] \in DOMAIN files /\ n[2] \in DOMAIN Configures[files[n[1]]] /\ n = <<n[1], n[2]>>
  OBVIOUS
<1> HIDE DEF spots
<1>7. DOMAIN Wi!PackagePlaces(p) \in SUBSET (Nat \X Nat)
  BY <1>4, <1>5, <1>6
<1>8. ASSUME p.tag = "named", NEW x \in Wi!Range(Wi!PackagePlaces(p)) PROVE x \in Visible(Wi!HaPackage(p))
  <2>0. PICK n \in DOMAIN Wi!PackagePlaces(p) : x = Wi!PackagePlaces(p)[n]
    BY DEF Wi!Range
  <2>1. n \in spots /\ x = Wi!Place(files[n[1]], <<Configures[files[n[1]]][n[2]]>>)
    BY <1>4, <2>0
  <2> DEFINE f == files[n[1]]
             k == Configures[f][n[2]]
  <2>2. f \in read /\ f \notin Outside
    BY <1>2, <1>6, <1>8, <2>1
  <2>3. k \in Wi!Range(Configures[f])
    BY <1>6, <2>1 DEF Wi!Range
  <2>4. x = Wi!Place(f, <<k>>)
    BY <2>1
  <2> HIDE DEF f, k
  <2>5. x.file = f
    BY <2>4 DEF Wi!Place
  <2> QED
    BY <1>3, <1>8, <2>2, <2>3, <2>4, <2>5 DEF Visible
<1>9. ASSUME p.tag = "named", NEW x \in Visible(Wi!HaPackage(p)) PROVE x \in Wi!Range(Wi!PackagePlaces(p))
  <2>0. x \in UNION {{Wi!Place(f, <<k>>) : k \in Wi!Range(Configures[f])} : f \in read}
    BY <1>3, <1>9 DEF Visible
  <2>1. PICK f \in read : x \in {Wi!Place(f, <<k>>) : k \in Wi!Range(Configures[f])}
    BY <2>0
  <2>2. PICK j \in DOMAIN Configures[f] : x = Wi!Place(f, <<Configures[f][j]>>)
    BY <2>1 DEF Wi!Range
  <2>3. f \notin Outside
    BY <2>2 DEF Visible, Wi!Place
  <2>4. PICK i \in DOMAIN files : files[i] = f
    BY <1>2, <1>9, <2>3
  <2>5. <<i, j>> \in spots
    BY <1>5, <2>4
  <2>6. Wi!PackagePlaces(p)[<<i, j>>] = x
    BY <1>4, <2>2, <2>4, <2>5
  <2> QED
    BY <1>4, <2>5, <2>6 DEF Wi!Range
<1> QED
  BY <1>7, <1>8, <1>9

LEMMA ConfigurationTypes ==
  ASSUME NEW c \in Wi!Configuration
  PROVE  /\ c.keys \in Seq(Wi!Value) /\ c.packages \in Wi!Value
         /\ DOMAIN c.keys = 1 .. Len(c.keys) /\ Len(c.keys) \in Nat
         /\ \A i \in DOMAIN c.keys : c.keys[i] \in Wi!Value
<1>1. c.keys \in Seq(Wi!Value) /\ c.packages \in Wi!Value
  BY DEF Wi!Configuration
<1> QED
  BY <1>1, SeqElements

\* What a read that does not raise finds at each of its stops.
LEMMA StopsAreRead ==
  ASSUME NEW c \in Wi!Configuration
  PROVE  /\ Wi!Spots(c) \in SUBSET Spot
         /\ c.sound /\ ~Wi!Raises(c) =>
              /\ \A i \in DOMAIN c.keys :
                   Wi!Range(Wi!FoundAt(c, i)) =
                     IF c.keys[i].tag \in Wi!UnknownDirs THEN {}
                     ELSE Visible(Wi!HaKey(c.keys[i], Keys[i]))
              /\ Wi!Range(Wi!FoundAt(c, Len(c.keys) + 1)) =
                   IF c.packages.tag = "named" THEN Visible(Wi!HaPackage(c.packages))
                   ELSE Wi!Misread(c)
<1>1. /\ c.packages \in Wi!Value /\ Len(c.keys) \in Nat /\ DOMAIN c.keys = 1 .. Len(c.keys)
      /\ \A i \in DOMAIN c.keys : c.keys[i] \in Wi!Value
  BY ConfigurationTypes
<1>2. c.sound /\ ~Wi!Raises(c) => \A i \in DOMAIN c.keys : ~Strays(c.keys[i])
  BY DEF Wi!Raises, Wi!Targets, Wi!Includes, Strays
<1>3. Wi!FoundAt(c, Len(c.keys) + 1) = Wi!PackagePlaces(c.packages)
  BY <1>1 DEF Wi!FoundAt
<1>4. \A i \in DOMAIN c.keys : Wi!FoundAt(c, i) = Wi!KeyPlaces(c.keys[i], Keys[i])
  BY DEF Wi!FoundAt
<1>5. \A i \in DOMAIN c.keys :
        /\ DOMAIN Wi!FoundAt(c, i) \in SUBSET (Nat \X Nat)
        /\ ~Strays(c.keys[i]) => Wi!Range(Wi!FoundAt(c, i)) =
             IF c.keys[i].tag \in Wi!UnknownDirs THEN {} ELSE Visible(Wi!HaKey(c.keys[i], Keys[i]))
  BY <1>1, <1>4, KeyIsRead
<1>6. /\ DOMAIN Wi!FoundAt(c, Len(c.keys) + 1) \in SUBSET (Nat \X Nat)
      /\ Wi!Range(Wi!FoundAt(c, Len(c.keys) + 1)) =
           IF c.packages.tag = "named" THEN Visible(Wi!HaPackage(c.packages)) ELSE Wi!Misread(c)
  BY <1>1, <1>3, PackageIsRead DEF Wi!Misread
<1>7. Wi!Spots(c) \in SUBSET Spot
  <2> DEFINE stops == 1 .. Len(c.keys) + 1
  <2>1. \A i \in stops : i \in Nat /\ (i \in DOMAIN c.keys \/ i = Len(c.keys) + 1)
    BY <1>1
  <2>2. Wi!Spots(c) = UNION {{i} \X DOMAIN Wi!FoundAt(c, i) : i \in stops}
    BY DEF Wi!Spots
  <2> HIDE DEF stops
  <2>3. \A i \in stops : i \in Nat /\ DOMAIN Wi!FoundAt(c, i) \in SUBSET (Nat \X Nat)
    BY <1>5, <1>6, <2>1
  <2> QED
    BY <2>2, <2>3 DEF Spot
<1> QED
  BY <1>2, <1>5, <1>6, <1>7

\* All that is found, at any stop.
LEMMA FoundIsEveryStop ==
  ASSUME NEW c
  PROVE  /\ DOMAIN Wi!Found(c) = Wi!Spots(c)
         /\ Wi!Range(Wi!Found(c)) = UNION {Wi!Range(Wi!FoundAt(c, i)) : i \in 1 .. Len(c.keys) + 1}
<1> DEFINE stops == 1 .. Len(c.keys) + 1
           at(i) == Wi!FoundAt(c, i)
<1>1. Wi!Spots(c) = UNION {{i} \X DOMAIN at(i) : i \in stops}
  BY DEF Wi!Spots
<1>2. Wi!Found(c) = [n \in Wi!Spots(c) |-> at(n[1])[n[2]]]
  BY DEF Wi!Found
<1> HIDE DEF stops, at
<1>3. ASSUME NEW i \in stops, NEW j \in DOMAIN at(i)
      PROVE  <<i, j>> \in Wi!Spots(c) /\ Wi!Found(c)[<<i, j>>] = at(i)[j]
  BY <1>1, <1>2
<1>4. ASSUME NEW n \in Wi!Spots(c)
      PROVE  n[1] \in stops /\ n[2] \in DOMAIN at(n[1]) /\ Wi!Found(c)[n] = at(n[1])[n[2]]
  BY <1>1, <1>2
<1>5. DOMAIN Wi!Found(c) = Wi!Spots(c)
  BY <1>2
<1>6. Wi!Range(Wi!Found(c)) = UNION {Wi!Range(at(i)) : i \in stops}
  <2>1. ASSUME NEW x \in Wi!Range(Wi!Found(c)) PROVE \E i \in stops : x \in Wi!Range(at(i))
    BY <1>4, <1>5 DEF Wi!Range
  <2>2. ASSUME NEW i \in stops, NEW x \in Wi!Range(at(i)) PROVE x \in Wi!Range(Wi!Found(c))
    <3>1. PICK j \in DOMAIN at(i) : x = at(i)[j]
      BY <2>2 DEF Wi!Range
    <3> QED
      BY <1>3, <1>5, <3>1 DEF Wi!Range
  <2> QED
    BY <2>1, <2>2
<1> QED
  BY <1>5, <1>6 DEF at, stops

\* What a read that does not raise asks: all that is visible and not left unread,
\* with what it misreads, and the conventional file if there is nothing.
LEMMA ReadableIs ==
  ASSUME NEW c \in Wi!Configuration, ~Wi!Raises(c)
  PROVE  LET asked   == Wi!Range(Wi!Readable(c))
             visible == Visible(Wi!HaReads(c))
             debt    == IF c.sound THEN Wi!Unread(c) ELSE {}
             misread == IF c.sound THEN Wi!Misread(c) ELSE {}
         IN  /\ visible \ debt \subseteq asked
             /\ IF Wi!FoundNothing(c) THEN asked = {Wi!Root(Conventional)} ELSE asked \subseteq visible \cup misread
             /\ Wi!IsInjective(Wi!Readable(c))
             /\ \A i \in DOMAIN c.keys : c.sound /\ c.keys[i].tag = "include" =>
                  Wi!Root(c.keys[i].path) \in asked
<1> DEFINE asked   == Wi!Range(Wi!Readable(c))
           visible == Visible(Wi!HaReads(c))
           debt    == IF c.sound THEN Wi!Unread(c) ELSE {}
           misread == IF c.sound THEN Wi!Misread(c) ELSE {}
           found   == Wi!Range(Wi!Found(c))
<1>1. CASE ~c.sound
  <2>1. Wi!FoundNothing(c) /\ visible = {} /\ debt = {}
    BY <1>1 DEF Wi!FoundNothing, Visible, Wi!HaReads
  <2>2. Wi!Readable(c) = [n \in {<<1, <<1, 1>>>>} |-> Wi!Root(Conventional)]
    BY <2>1 DEF Wi!Readable
  <2>3. asked = {Wi!Root(Conventional)} /\ Wi!IsInjective(Wi!Readable(c))
    BY <2>2 DEF Wi!Range, Wi!IsInjective
  <2> QED
    BY <1>1, <2>1, <2>3
<1>2. CASE c.sound
  <2> DEFINE stops == 1 .. Len(c.keys) + 1
             at(i) == Wi!Range(Wi!FoundAt(c, i))
             ha(i) == Wi!HaKey(c.keys[i], Keys[i])
             unknown(i) == c.keys[i].tag \in Wi!UnknownDirs
             pack == Wi!HaPackage(c.packages)
             known == c.packages.tag = "named"
  <2>1. /\ \A i \in DOMAIN c.keys : at(i) = IF unknown(i) THEN {} ELSE Visible(ha(i))
        /\ at(Len(c.keys) + 1) = IF known THEN Visible(pack) ELSE misread
    BY <1>2, StopsAreRead
  <2>2. DOMAIN c.keys = 1 .. Len(c.keys) /\ Len(c.keys) \in Nat
    BY ConfigurationTypes
  <2>3. stops = DOMAIN c.keys \cup {Len(c.keys) + 1}
    BY <2>2
  <2>4. found = UNION {at(i) : i \in stops} /\ DOMAIN Wi!Found(c) = Wi!Spots(c)
    BY FoundIsEveryStop
  <2>5. \A x : x \in Wi!HaReads(c) <=>
              (\E i \in DOMAIN c.keys : x \in ha(i)) \/ x \in pack
    <3> DEFINE all == UNION {ha(i) : i \in DOMAIN c.keys}
    <3>1. Wi!HaReads(c) = pack \cup all
      BY <1>2 DEF Wi!HaReads
    <3>2. \A x : x \in all <=> \E i \in DOMAIN c.keys : x \in ha(i)
      OBVIOUS
    <3> HIDE DEF ha, all, pack
    <3> QED
      BY <3>1, <3>2
  <2>6. \A x : x \in debt <=> \/ \E i \in DOMAIN c.keys : unknown(i) /\ x \in ha(i)
                              \/ ~known /\ x \in pack
    <3> DEFINE keys == UNION {ha(i) : i \in {i \in DOMAIN c.keys : unknown(i)}}
    <3>1. debt = (IF known THEN {} ELSE pack) \cup keys
      BY <1>2 DEF Wi!Unread
    <3>2. \A x : x \in keys <=> \E i \in DOMAIN c.keys : unknown(i) /\ x \in ha(i)
      OBVIOUS
    <3> HIDE DEF debt, keys, known, pack, ha, unknown
    <3> QED
      BY <3>1, <3>2
  <2>7. Wi!Spots(c) \in SUBSET Spot
    BY StopsAreRead
  <2>8. \A i \in DOMAIN c.keys : c.keys[i].tag = "include" => Wi!Root(c.keys[i].path) \in found
    <3> SUFFICES ASSUME NEW i \in DOMAIN c.keys, c.keys[i].tag = "include"
                 PROVE  Wi!Root(c.keys[i].path) \in found
      OBVIOUS
    <3>1. ~unknown(i) /\ i \in stops
      BY <2>3 DEF Wi!UnknownDirs
    <3>2. ha(i) = {Wi!Root(c.keys[i].path)}
      BY DEF Wi!HaKey, Wi!MergeDirs, Wi!UnknownDirs
    <3>3. c.keys[i].path \notin Outside
      BY <1>2 DEF Wi!Raises, Wi!Targets, Wi!Includes
    <3>4. Wi!Root(c.keys[i].path) \in Visible(ha(i))
      BY <3>2, <3>3 DEF Visible, Wi!Root, Wi!Place
    <3> HIDE DEF at, ha, unknown, found, stops
    <3> QED
      BY <2>1, <2>4, <3>1, <3>4
  <2> HIDE DEF stops, at, ha, unknown, found, debt, misread, pack, known
  <2>9. found \subseteq visible \cup misread /\ visible \ debt \subseteq found
    <3>1. ASSUME NEW x \in found PROVE x \in visible \cup misread
      <4>1. PICK i \in stops : x \in at(i)
        BY <2>4
      <4>2. CASE i \in DOMAIN c.keys
        BY <2>1, <2>5, <4>1, <4>2 DEF Visible
      <4>3. CASE i = Len(c.keys) + 1
        <5>1. x \in Visible(pack) \/ x \in misread
          BY <2>1, <4>1, <4>3
        <5> QED
          BY <2>5, <5>1 DEF Visible
      <4> QED
        BY <2>3, <4>2, <4>3
    <3>2. ASSUME NEW x \in visible, x \notin debt PROVE x \in found
      <4>1. x \in Wi!HaReads(c) /\ x.file \notin Outside
        BY DEF Visible
      <4>2. CASE x \in pack
        <5>1. known
          BY <2>6, <3>2, <4>2
        <5>2. x \in at(Len(c.keys) + 1)
          BY <2>1, <4>1, <4>2, <5>1 DEF Visible
        <5> QED
          BY <2>3, <2>4, <5>2
      <4>3. ASSUME NEW i \in DOMAIN c.keys, x \in ha(i) PROVE x \in found
        <5>1. ~unknown(i)
          BY <2>6, <3>2, <4>3
        <5>2. x \in at(i)
          BY <2>1, <4>1, <4>3, <5>1 DEF Visible
        <5> QED
          BY <2>3, <2>4, <5>2
      <4>4. (\E i \in DOMAIN c.keys : x \in ha(i)) \/ x \in pack
        BY <2>5, <4>1
      <4> QED
        BY <4>2, <4>3, <4>4
    <3> QED
      BY <3>1, <3>2
  <2>10. CASE Wi!FoundNothing(c)
    <3>1. found = {}
      BY <1>2, <2>4, <2>10 DEF Wi!FoundNothing, Wi!Range, found
    <3>2. Wi!Readable(c) = [n \in {<<1, <<1, 1>>>>} |-> Wi!Root(Conventional)]
      BY <2>10 DEF Wi!Readable
    <3>3. asked = {Wi!Root(Conventional)} /\ Wi!IsInjective(Wi!Readable(c))
      BY <3>2 DEF Wi!Range, Wi!IsInjective
    <3>4. visible \subseteq debt
      BY <2>9, <3>1
    <3> QED
      BY <2>8, <2>10, <3>1, <3>3, <3>4 DEF debt
  <2>11. CASE ~Wi!FoundNothing(c)
    <3>1. Wi!Readable(c) = Wi!Once(Wi!Found(c))
      BY <2>11 DEF Wi!Readable
    <3>2. asked = found /\ Wi!IsInjective(Wi!Readable(c))
      BY <2>4, <2>7, <3>1, OnceIsASet DEF found
    <3>3. Wi!Range(Wi!Readable(c)) = found
      BY <3>2
    <3>4. visible \ debt \subseteq asked /\ asked \subseteq visible \cup misread
      BY <2>9, <3>2
    <3>5. \A i \in DOMAIN c.keys : c.keys[i].tag = "include" => Wi!Root(c.keys[i].path) \in asked
      BY <2>8, <3>2
    <3>6. Wi!IsInjective(Wi!Readable(c))
      BY <3>2
    <3> HIDE DEF asked, visible
    <3> QED
      BY <2>11, <3>4, <3>5, <3>6 DEF asked, visible, debt, misread
  <2> QED
    BY <2>10, <2>11
<1> QED
  BY <1>1, <1>2 DEF Wi!Configuration

\* A create's target is an include.
LEMMA TargetIsIncluded ==
  ASSUME NEW c, Wi!WiredTarget(c) # Wi!Refused
  PROVE  /\ c.sound /\ Wi!WiredTarget(c) \notin Outside
         /\ \E i \in DOMAIN c.keys : c.keys[i].tag = "include" /\ c.keys[i].path = Wi!WiredTarget(c)
<1>1. c.sound /\ (Wi!Targets(c) \cup {Conventional}) \cap Outside = {}
  BY DEF Wi!WiredTarget
<1>2. Wi!WiredTarget(c) \in Wi!Targets(c)
  <2>1. CASE Conventional \in Wi!Targets(c)
    BY <1>1, <2>1 DEF Wi!WiredTarget
  <2>2. CASE Conventional \notin Wi!Targets(c)
    <3>1. /\ Cardinality(Wi!Includes(c)) = 1
          /\ Wi!WiredTarget(c) = CHOOSE f \in Wi!Targets(c) : TRUE
      BY <1>1, <2>2, SameCardinality DEF Wi!WiredTarget
    <3>2. Wi!Includes(c) # {}
      BY <3>1, FS_EmptySet
    <3>3. Wi!Targets(c) # {}
      BY <3>2 DEF Wi!Targets
    <3> QED
      BY <3>1, <3>3
  <2> QED
    BY <2>1, <2>2
<1> QED
  BY <1>1, <1>2 DEF Wi!Targets, Wi!Includes

LEMMA CreatesAndReadsFollowHa ==
  ASSUME NEW c \in Wi!Configuration
  PROVE  Wi!TargetIsRead(c) /\ Wi!ReadsWhatHaReads(c) /\ Wi!NoPlaceTwice(c)
<1>1. Wi!TargetIsRead(c)
  <2> SUFFICES ASSUME Wi!WiredTarget(c) # Wi!Refused
               PROVE  /\ Wi!Root(Wi!WiredTarget(c)) \in Wi!HaReads(c)
                      /\ Wi!WiredTarget(c) \notin Outside
                      /\ ~Wi!Raises(c) => Wi!Root(Wi!WiredTarget(c)) \in Wi!Range(Wi!Readable(c))
    BY DEF Wi!TargetIsRead
  <2>1. PICK i \in DOMAIN c.keys : c.keys[i].tag = "include" /\ c.keys[i].path = Wi!WiredTarget(c)
    BY TargetIsIncluded
  <2>2. c.sound /\ Wi!WiredTarget(c) \notin Outside
    BY TargetIsIncluded
  <2>3. Wi!Root(Wi!WiredTarget(c)) \in Wi!HaKey(c.keys[i], Keys[i])
    BY <2>1 DEF Wi!HaKey, Wi!MergeDirs, Wi!UnknownDirs
  <2>4. Wi!Root(Wi!WiredTarget(c)) \in Wi!HaReads(c)
    BY <2>2, <2>3 DEF Wi!HaReads
  <2>5. ~Wi!Raises(c) => Wi!Root(Wi!WiredTarget(c)) \in Wi!Range(Wi!Readable(c))
    BY <2>1, <2>2, ReadableIs
  <2> QED
    BY <2>2, <2>4, <2>5
<1>2. Wi!ReadsWhatHaReads(c)
  BY ReadableIs DEF Wi!ReadsWhatHaReads, Visible
<1>3. Wi!NoPlaceTwice(c)
  <2>1. CASE Wi!FoundNothing(c)
    BY <2>1 DEF Wi!NoPlaceTwice, Wi!IsInjective, Wi!Readable
  <2>2. CASE ~Wi!FoundNothing(c)
    BY <2>2, StopsAreRead, FoundIsEveryStop, OnceIsASet DEF Wi!NoPlaceTwice, Wi!Readable
  <2> QED
    BY <2>1, <2>2
<1> QED
  BY <1>1, <1>2, <1>3

(* C-10, C-15: in every configuration a create's target is a file Home         *)
(* Assistant reads as the domain's own and a read looks at; a read that does   *)
(* not raise looks where Home Assistant looks, for every key of the domain and *)
(* for packages in an !include_dir_named, but for what it is known to leave    *)
(* unread or to misread and the conventional default, and at no place twice.   *)
THEOREM WiringIsHas == ReadingSpec => []WiringFollowsHa
<1>1. (of # "refscan" => of \in DOMAIN Cases /\ case \in Cases[of]) => WiringFollowsHa
  BY CasesAssumption, CreatesAndReadsFollowHa DEF WiringFollowsHa
<1> QED
  BY <1>1, CasesStay, PTL

-----------------------------------------------------------------------------
(***************************************************************************)
(* Splice: what replacing, deleting or appending one entry changes.        *)
(***************************************************************************)

\* s lists S in order.
Lists(s, m, S) ==
  /\ m \in Nat /\ s \in [1 .. m -> S]
  /\ \A i, j \in 1 .. m : i < j => s[i] < s[j]
  /\ \A x \in S : \E i \in 1 .. m : s[i] = x

\* Every set of numbers up to n is listed by something.
LEMMA ListExists ==
  ASSUME NEW n \in Nat, NEW S \in SUBSET (1 .. n)
  PROVE  \E m \in Nat : \E s : Lists(s, m, S)
<1> DEFINE P(k) == \A T \in SUBSET (1 .. k) : \E m \in Nat : \E s : Lists(s, m, T)
           Bad == {k \in Nat : ~P(k)}
<1>1. Bad = {}
  <2> SUFFICES ASSUME Bad # {} PROVE FALSE
    OBVIOUS
  <2>1. PICK k \in Bad : \A j \in Bad : k <= j
    <3>1. Bad \in SUBSET Nat
      OBVIOUS
    <3> HIDE DEF Bad
    <3> QED
      BY <3>1, LeastIn
  <2>2. PICK T \in SUBSET (1 .. k) : ~ \E m \in Nat : \E s : Lists(s, m, T)
    OBVIOUS
  <2>3. k \in Nat /\ k # 0
    <3> SUFFICES ASSUME k = 0 PROVE FALSE
      BY <2>1
    <3>1. T = {}
      OBVIOUS
    <3>2. Lists([i \in 1 .. 0 |-> 0], 0, T)
      BY <3>1 DEF Lists
    <3> QED
      BY <2>2, <3>2
  <2>4. k - 1 \in Nat /\ P(k - 1)
    <3>1. k - 1 \in Nat /\ ~ (k <= k - 1)
      BY <2>3
    <3> QED
      BY <2>1, <3>1
  <2>5. CASE k \notin T
    <3>1. T \in SUBSET (1 .. k - 1)
      BY <2>5
    <3> QED
      BY <2>2, <2>4, <3>1
  <2>6. CASE k \in T
    <3>1. T \ {k} \in SUBSET (1 .. k - 1)
      OBVIOUS
    <3>20. PICK m \in Nat : \E s : Lists(s, m, T \ {k})
      BY <2>4, <3>1
    <3>2. PICK s : Lists(s, m, T \ {k})
      BY <3>20
    <3> DEFINE t == [i \in 1 .. m + 1 |-> IF i = m + 1 THEN k ELSE s[i]]
    <3>3. ASSUME NEW i \in 1 .. m PROVE s[i] \in T /\ s[i] \in Nat /\ s[i] < k
      <4>1. s[i] \in T \ {k}
        BY <3>2 DEF Lists
      <4> HIDE DEF P, Bad
      <4>2. s[i] \in 1 .. k - 1
        BY <3>1, <4>1
      <4> QED
        BY <2>3, <4>1, <4>2
    <3>4. t \in [1 .. m + 1 -> T]
      BY <2>6, <3>3
    <3>5. \A i, j \in 1 .. m + 1 : i < j => t[i] < t[j]
      BY <3>2, <3>3 DEF Lists
    <3>6. \A x \in T : \E i \in 1 .. m + 1 : t[i] = x
      <4>1. t[m + 1] = k
        OBVIOUS
      <4>2. ASSUME NEW x \in T \ {k} PROVE \E i \in 1 .. m + 1 : t[i] = x
        <5>1. PICK i \in 1 .. m : s[i] = x
          BY <3>2 DEF Lists
        <5> QED
          BY <5>1
      <4> QED
        BY <4>1, <4>2
    <3>7. Lists(t, m + 1, T)
      BY <3>4, <3>5, <3>6 DEF Lists
    <3> QED
      BY <2>2, <3>7
  <2> QED
    BY <2>5, <2>6
<1> QED
  BY <1>1

\* A list in order has no other list of the same set beside it.
LEMMA ListUnique ==
  ASSUME NEW S \in SUBSET Nat, NEW m, NEW s, NEW t, Lists(s, m, S), Lists(t, m, S)
  PROVE  s = t
<1> DEFINE D == {i \in 1 .. m : s[i] # t[i]}
<1> SUFFICES ASSUME D # {} PROVE FALSE
  BY DEF Lists
<1>1. PICK i \in D : \A j \in D : i <= j
  <2>1. D \in SUBSET Nat
    BY DEF Lists
  <2> HIDE DEF D
  <2> QED
    BY <2>1, LeastIn
<1>2. \A j \in 1 .. m : j < i => s[j] = t[j]
  BY <1>1 DEF Lists
<1>3. PICK j \in 1 .. m : t[j] = s[i]
  BY DEF Lists
<1>4. PICK k \in 1 .. m : s[k] = t[i]
  BY DEF Lists
<1>5. \A x \in 1 .. m : s[x] \in Nat /\ t[x] \in Nat
  BY DEF Lists
<1>6. i \in 1 .. m /\ s[i] # t[i]
  BY <1>1
<1> HIDE DEF D
<1>7. \A x, y \in 1 .. m : x < y => s[x] < s[y] /\ t[x] < t[y]
  BY DEF Lists
<1>8. j > i
  <2>1. j # i
    BY <1>3, <1>6
  <2>2. ~ j < i
    <3> SUFFICES ASSUME j < i PROVE FALSE
      OBVIOUS
    <3>1. s[j] = s[i]
      BY <1>2, <1>3
    <3> QED
      BY <1>5, <1>6, <1>7, <3>1
  <2> QED
    BY <1>6, <2>1, <2>2
<1>9. k > i
  <2>1. k # i
    BY <1>4, <1>6
  <2>2. ~ k < i
    <3> SUFFICES ASSUME k < i PROVE FALSE
      OBVIOUS
    <3>1. t[k] = t[i]
      BY <1>2, <1>4
    <3> QED
      BY <1>5, <1>6, <1>7, <3>1
  <2> QED
    BY <1>6, <2>1, <2>2
<1> QED
  BY <1>3, <1>4, <1>5, <1>6, <1>7, <1>8, <1>9

\* What lists a set is how Sorted lists it.
LEMMA SortedIs ==
  ASSUME NEW S \in SUBSET Nat, NEW m, NEW s, Lists(s, m, S)
  PROVE  Sp!Cardinality(S) = m /\ Sp!Sorted(S) = s
<1>1. m \in Nat /\ s \in Bijection(1 .. m, S)
  <2>1. m \in Nat /\ s \in [1 .. m -> S]
    BY DEF Lists
  <2>2. \A x \in S : \E i \in 1 .. m : s[i] = x
    BY DEF Lists
  <2>3. ASSUME NEW i \in 1 .. m, NEW j \in 1 .. m, s[i] = s[j] PROVE i = j
    <3>1. s[i] \in Nat /\ s[j] \in Nat
      BY <2>1
    <3>2. (i < j => s[i] < s[j]) /\ (j < i => s[j] < s[i])
      BY DEF Lists
    <3>3. ~ (i < j) /\ ~ (j < i)
      BY <2>3, <3>1, <3>2
    <3>4. i \in Nat /\ j \in Nat
      BY <2>1
    <3> QED
      BY <3>3, <3>4
  <2> QED
    BY <2>1, <2>2, <2>3, Zenon DEF Bijection, Injection, Surjection, IsInjective
<1>2. Cardinality(S) = m /\ IsFiniteSet(S)
  <2>1. IsFiniteSet(1 .. m) /\ Cardinality(1 .. m) = m
    BY <1>1, FS_Interval
  <2>2. ExistsBijection(1 .. m, S)
    BY <1>1 DEF ExistsBijection
  <2> QED
    BY <2>1, <2>2, FS_Bijection
<1>3. Sp!Cardinality(S) = Cardinality(S)
  BY DEF Sp!Cardinality, Cardinality
<1> DEFINE Ordered(t) == \A i, j \in DOMAIN t : i < j => t[i] < t[j]
<1>4. s \in Sp!Bijection(1 .. m, S) /\ Ordered(s)
  BY <1>1 DEF Lists, Sp!Bijection, Sp!Injection, Sp!Surjection, Sp!IsInjective, Bijection, Injection, Surjection, IsInjective
<1>5. ASSUME NEW t \in Sp!Bijection(1 .. m, S), Ordered(t) PROVE t = s
  <2>1. Lists(t, m, S)
    BY <1>1, <1>5 DEF Lists, Sp!Bijection, Sp!Injection, Sp!Surjection, Sp!IsInjective
  <2> QED
    BY <2>1, ListUnique
<1>6. Sp!Sorted(S) = CHOOSE t \in Sp!Bijection(1 .. m, S) : Ordered(t)
  BY <1>2, <1>3 DEF Sp!Sorted
<1> HIDE DEF Ordered
<1> QED
  BY <1>2, <1>3, <1>4, <1>5, <1>6

-----------------------------------------------------------------------------
(* What is parsed *)

LEMMA SplLineTypes ==
  ASSUME NEW lines \in Seq(Sp!LineType)
  PROVE  /\ Len(lines) \in Nat /\ DOMAIN lines = 1 .. Len(lines)
         /\ \A i \in DOMAIN lines :
              /\ lines[i].kind \in {"head", "body", "bar", "hash", "blank"}
              /\ lines[i].key \in Nat /\ lines[i].ref \in {"", "def", "use"}
              /\ lines[i].deep \in BOOLEAN /\ lines[i].at \in Nat
<1>1. ASSUME NEW i \in DOMAIN lines
      PROVE  /\ lines[i].kind \in {"head", "body", "bar", "hash", "blank"}
             /\ lines[i].key \in Nat /\ lines[i].ref \in {"", "def", "use"}
             /\ lines[i].deep \in BOOLEAN /\ lines[i].at \in Nat
  <2>1. lines[i] \in Sp!LineType
    OBVIOUS
  <2> QED
    BY <2>1 DEF Sp!LineType
<1>2. Len(lines) \in Nat /\ DOMAIN lines = 1 .. Len(lines)
  OBVIOUS
<1> QED
  BY <1>1, <1>2

LEMMA SplDomain ==
  ASSUME NEW lines \in Seq(Sp!LineType)
  PROVE  /\ Len(lines) \in Nat /\ DOMAIN lines = 1 .. Len(lines)
         /\ \A i \in DOMAIN lines : i \in Nat /\ i > 0 /\ \A j \in 1 .. i : j \in DOMAIN lines
OBVIOUS

LEMMA ContentIs ==
  ASSUME NEW lines, NEW h, Sp!Under(lines, h) \in SUBSET Nat,
         NEW m, NEW s, Lists(s, m, Sp!Under(lines, h))
  PROVE  Sp!ContentOf(lines, h) = [n \in 1 .. m |-> lines[s[n]].kind]
<1>1. Sp!Sorted(Sp!Under(lines, h)) = s
  BY SortedIs
<1>2. DOMAIN s = 1 .. m
  BY DEF Lists
<1> QED
  BY <1>1, <1>2 DEF Sp!ContentOf

LEMMA UnderHead ==
  ASSUME NEW lines \in Seq(Sp!LineType), NEW h \in Nat, NEW i
  PROVE  i \in Sp!Under(lines, h) <=>
           /\ i \in DOMAIN lines /\ i > h /\ Sp!IsContent(lines, i)
           /\ \A j \in h + 1 .. i : lines[j].kind # "head"
<1>1. Len(lines) \in Nat /\ DOMAIN lines = 1 .. Len(lines)
  BY SplLineTypes
<1>2. i \in h + 1 .. Len(lines) <=> i \in DOMAIN lines /\ i > h
  BY <1>1
<1> QED
  BY <1>2 DEF Sp!Under

\* What a line of an entry is content by lies in the entry.
LEMMA ContentTyped ==
  ASSUME NEW lines \in Seq(Sp!LineType), NEW h \in Sp!Heads(lines)
  PROVE  Sp!ContentOf(lines, h) \in Sp!Content
<1> DEFINE U == Sp!Under(lines, h)
<1>1. h \in Nat /\ h \in DOMAIN lines /\ lines[h].kind = "head"
  <2>1. DOMAIN lines = 1 .. Len(lines)
    BY SplLineTypes
  <2> QED
    BY <2>1 DEF Sp!Heads
<1>2. U \in SUBSET (1 .. Len(lines)) /\ Len(lines) \in Nat
  BY <1>1, SplLineTypes, UnderHead
<1>30. PICK m \in Nat : \E s : Lists(s, m, U)
  BY <1>2, ListExists
<1>3. PICK s : Lists(s, m, U)
  BY <1>30
<1> DEFINE c == [n \in 1 .. m |-> lines[s[n]].kind]
<1>4. Sp!ContentOf(lines, h) = c
  BY <1>2, <1>3, ContentIs
<1>5. \A n \in 1 .. m : s[n] \in U
  BY <1>3 DEF Lists
<1>6. ASSUME NEW n \in 1 .. m PROVE c[n] \in {"body", "bar", "hash"}
  <2>1. Sp!IsContent(lines, s[n])
    BY <1>1, <1>5, UnderHead
  <2> QED
    BY <2>1 DEF Sp!IsContent
<1>7. ASSUME NEW n \in 1 .. m, c[n] = "hash"
      PROVE  \E k \in 1 .. n - 1 : c[k] = "bar" /\ \A j \in k + 1 .. n - 1 : c[j] = "hash"
  <2> DEFINE i == s[n]
  <2>1. /\ i \in DOMAIN lines /\ i > h /\ Sp!IsContent(lines, i) /\ i \in Nat
        /\ \A j \in h + 1 .. i : lines[j].kind # "head"
    BY <1>1, <1>2, <1>5, UnderHead
  <2>2. Sp!InBlock(lines, i)
    BY <1>7, <2>1 DEF Sp!IsContent
  <2> HIDE DEF i
  <2>3. PICK b \in 1 .. i - 1 :
          /\ lines[b].kind = "bar"
          /\ \A j \in b + 1 .. i - 1 :
               lines[j].kind = "blank" \/ (lines[j].kind = "hash" /\ lines[j].deep)
    BY <2>2 DEF Sp!InBlock
  <2>4. b > h
    <3>1. b # h
      BY <1>1, <2>3
    <3>2. ~ b < h
      <4> SUFFICES ASSUME b < h PROVE FALSE
        OBVIOUS
      <4>1. h \in b + 1 .. i - 1
        BY <1>1, <2>1
      <4> QED
        BY <1>1, <2>3, <4>1
    <3> QED
      BY <1>1, <3>1, <3>2
  <2>5. b \in U
    <3>1. b \in DOMAIN lines /\ Sp!IsContent(lines, b)
      <4>1. DOMAIN lines = 1 .. Len(lines)
        BY SplLineTypes
      <4>2. b \in DOMAIN lines
        BY <1>2, <2>1, <4>1
      <4> QED
        BY <2>3, <4>2 DEF Sp!IsContent
    <3>2. \A j \in h + 1 .. b : j \in h + 1 .. i
      BY <1>1, <2>1
    <3> QED
      BY <1>1, <2>1, <2>4, <3>1, <3>2, UnderHead
  <2>6. PICK k \in 1 .. m : s[k] = b
    BY <1>3, <2>5 DEF Lists
  <2>7. \A x, y \in 1 .. m : s[x] \in Nat /\ (x < y => s[x] < s[y])
    BY <1>2, <1>3 DEF Lists
  <2>8. k < n
    <3>1. ~ n <= k
      BY <2>6, <2>7, <2>1 DEF i
    <3> QED
      BY <3>1
  <2>9. ASSUME NEW j \in k + 1 .. n - 1 PROVE c[j] = "hash"
    <3>1. j \in 1 .. m
      OBVIOUS
    <3>2. s[j] \in b + 1 .. i - 1
      BY <2>6, <2>7, <3>1 DEF i
    <3>3. c[j] # "blank"
      BY <1>6, <3>1
    <3> QED
      BY <2>3, <3>1, <3>2, <3>3
  <2>10. k \in 1 .. n - 1 /\ c[k] = "bar"
    BY <2>3, <2>6, <2>8
  <2> QED
    BY <2>9, <2>10
<1> HIDE DEF c
<1>8. c \in Seq({"body", "bar", "hash"}) /\ DOMAIN c = 1 .. m
  BY <1>6 DEF c
<1> QED
  BY <1>4, <1>7, <1>8 DEF Sp!Content

LEMMA ParseIs ==
  ASSUME NEW lines, Sp!Heads(lines) \in SUBSET Nat,
         NEW m, NEW s, Lists(s, m, Sp!Heads(lines))
  PROVE  Sp!Parse(lines) =
           [n \in 1 .. m |->
              [key |-> lines[s[n]].key,
               content |-> Sp!ContentOf(lines, IF lines[s[n]].ref = "use"
                                               THEN Sp!Max(Sp!Anchors(lines, s[n])) ELSE s[n])]]
<1>1. Sp!Sorted(Sp!Heads(lines)) = s
  BY SortedIs
<1>2. DOMAIN s = 1 .. m
  BY DEF Lists
<1> QED
  BY <1>1, <1>2 DEF Sp!Parse

\* The heads of a text have a list.
LEMMA HeadsListed ==
  ASSUME NEW lines \in Seq(Sp!LineType)
  PROVE  /\ Sp!Heads(lines) \in SUBSET Nat
         /\ Lists(Sp!Sorted(Sp!Heads(lines)), Sp!Cardinality(Sp!Heads(lines)), Sp!Heads(lines))
<1>1. Sp!Heads(lines) \in SUBSET (1 .. Len(lines)) /\ Len(lines) \in Nat
  BY SplLineTypes DEF Sp!Heads
<1>20. PICK m \in Nat : \E s : Lists(s, m, Sp!Heads(lines))
  BY <1>1, ListExists
<1>2. PICK s : Lists(s, m, Sp!Heads(lines))
  BY <1>20
<1>3. Sp!Cardinality(Sp!Heads(lines)) = m /\ Sp!Sorted(Sp!Heads(lines)) = s
  BY <1>1, <1>2, SortedIs
<1> QED
  BY <1>1, <1>2, <1>3

LEMMA MaxIs ==
  ASSUME NEW n \in Nat, NEW S \in SUBSET (0 .. n), S # {}
  PROVE  Sp!Max(S) \in S /\ \A x \in S : x <= Sp!Max(S)
<1> DEFINE D == {d \in 0 .. n : n - d \in S}
<1>1. D \in SUBSET Nat /\ D # {}
  <2>1. PICK x \in S : TRUE
    OBVIOUS
  <2>2. n - x \in D /\ x \in 0 .. n
    BY <2>1
  <2>3. D \in SUBSET Nat
    OBVIOUS
  <2> QED
    BY <2>2, <2>3
<1>2. PICK d \in D : \A e \in D : d <= e
  <2> HIDE DEF D
  <2> QED
    BY <1>1, LeastIn
<1>3. \A x \in S : n - x \in D /\ n - d >= x
  <2> TAKE x \in S
  <2>1. n - x \in D
    OBVIOUS
  <2> QED
    BY <1>2, <2>1
<1>4. \E x \in S : \A y \in S : x >= y
  BY <1>2, <1>3
<1>5. Sp!Max(S) \in S /\ \A y \in S : Sp!Max(S) >= y
  BY <1>4 DEF Sp!Max
<1> QED
  BY <1>5

\* A file parses to entries.
LEMMA ParseTyped ==
  ASSUME NEW lines \in Seq(Sp!LineType), Sp!IsYaml(lines)
  PROVE  /\ Sp!Parse(lines) \in Seq(Sp!EntryType)
         /\ Len(Sp!Parse(lines)) = Sp!Cardinality(Sp!Heads(lines))
<1> DEFINE m == Sp!Cardinality(Sp!Heads(lines))
           s == Sp!Sorted(Sp!Heads(lines))
           from(n) == IF lines[s[n]].ref = "use" THEN Sp!Max(Sp!Anchors(lines, s[n])) ELSE s[n]
           entry(n) == [key |-> lines[s[n]].key, content |-> Sp!ContentOf(lines, from(n))]
<1>1. Lists(s, m, Sp!Heads(lines)) /\ Sp!Heads(lines) \in SUBSET Nat
  BY HeadsListed
<1>2. Sp!Parse(lines) = [n \in 1 .. m |-> entry(n)] /\ m \in Nat
  BY <1>1, ParseIs DEF Lists
<1>3. ASSUME NEW n \in 1 .. m PROVE entry(n) \in Sp!EntryType
  <2> DEFINE h == s[n]
  <2>1. h \in Sp!Heads(lines)
    BY <1>1 DEF Lists
  <2>2. lines[h].key \in Nat
    BY <2>1, SplLineTypes DEF Sp!Heads
  <2>3. from(n) \in Sp!Heads(lines)
    <3>1. CASE lines[h].ref = "use"
      <4>1. Sp!Anchors(lines, h) # {}
        BY <2>1, <3>1 DEF Sp!IsYaml
      <4>2. Sp!Anchors(lines, h) \in SUBSET (0 .. Len(lines)) /\ Len(lines) \in Nat
        <5>1. Len(lines) \in Nat /\ DOMAIN lines = 1 .. Len(lines)
          BY SplLineTypes
        <5> QED
          BY <5>1 DEF Sp!Anchors, Sp!Heads
      <4>3. Sp!Max(Sp!Anchors(lines, h)) \in Sp!Anchors(lines, h)
        BY <4>1, <4>2, MaxIs
      <4> QED
        BY <3>1, <4>3 DEF Sp!Anchors
    <3>2. CASE lines[h].ref # "use"
      BY <2>1, <3>2
    <3> QED
      BY <3>1, <3>2
  <2> HIDE DEF from, h
  <2>4. Sp!ContentOf(lines, from(n)) \in Sp!Content
    BY <2>3, ContentTyped
  <2> QED
    BY <2>2, <2>4 DEF Sp!EntryType, h
<1> HIDE DEF entry, m
<1>4. Sp!Parse(lines) \in [1 .. m -> Sp!EntryType]
  BY <1>2, <1>3
<1> QED
  BY <1>2, <1>4 DEF m

\* An entry that is moved says the same.
LEMMA ContentMoves ==
  ASSUME NEW lines \in Seq(Sp!LineType), NEW new \in Seq(Sp!LineType), NEW h \in Nat, NEW g \in Nat,
         \A d \in Nat : h + d \in Sp!Under(lines, h) <=> g + d \in Sp!Under(new, g),
         \A d \in Nat : h + d \in Sp!Under(lines, h) => lines[h + d].kind = new[g + d].kind
  PROVE  Sp!ContentOf(new, g) = Sp!ContentOf(lines, h)
<1> DEFINE U == Sp!Under(lines, h)
           V == Sp!Under(new, g)
<1>1. U \in SUBSET (1 .. Len(lines)) /\ Len(lines) \in Nat
  BY SplLineTypes, UnderHead
<1>2. V \in SUBSET (1 .. Len(new)) /\ Len(new) \in Nat
  BY SplLineTypes, UnderHead
<1>30. PICK m \in Nat : \E s : Lists(s, m, U)
  BY <1>1, ListExists
<1>3. PICK s : Lists(s, m, U)
  BY <1>30
<1> DEFINE t == [n \in 1 .. m |-> g + (s[n] - h)]
<1>4. \A i \in U : i > h /\ i \in Nat /\ i - h \in Nat
  BY <1>1, UnderHead
<1>5. \A i \in V : i > g /\ i \in Nat /\ i - g \in Nat
  BY <1>2, UnderHead
<1>6. \A n \in 1 .. m : s[n] \in U
  BY <1>3 DEF Lists
<1>7. ASSUME NEW n \in 1 .. m PROVE t[n] \in V /\ lines[s[n]].kind = new[t[n]].kind
  <2>1. s[n] - h \in Nat /\ h + (s[n] - h) = s[n] /\ s[n] \in U
    BY <1>4, <1>6
  <2> QED
    BY <2>1
<1>8. Lists(t, m, V)
  <2>1. t \in [1 .. m -> V]
    BY <1>7
  <2>2. ASSUME NEW i \in 1 .. m, NEW j \in 1 .. m, i < j PROVE t[i] < t[j]
    <3>1. s[i] < s[j] /\ s[i] \in Nat /\ s[j] \in Nat
      BY <1>3, <1>4, <1>6, <2>2 DEF Lists
    <3> QED
      BY <3>1
  <2>3. ASSUME NEW x \in V PROVE \E i \in 1 .. m : t[i] = x
    <3>1. x - g \in Nat /\ g + (x - g) = x
      BY <1>5
    <3>2. h + (x - g) \in U
      BY <3>1
    <3>3. PICK i \in 1 .. m : s[i] = h + (x - g)
      BY <1>3, <3>2 DEF Lists
    <3> QED
      BY <3>1, <3>3
  <2> QED
    BY <2>1, <2>2, <2>3 DEF Lists
<1>9. Sp!ContentOf(lines, h) = [n \in 1 .. m |-> lines[s[n]].kind]
  BY <1>1, <1>3, ContentIs
<1>10. Sp!ContentOf(new, g) = [n \in 1 .. m |-> new[t[n]].kind]
  <2> HIDE DEF t
  <2> QED
    BY <1>2, <1>8, ContentIs
<1> HIDE DEF t, U, V
<1> QED
  BY <1>7, <1>9, <1>10

\* An entry of adjacent lines says what they say.
LEMMA ContentEmitted ==
  ASSUME NEW new \in Seq(Sp!LineType), NEW g \in Nat, NEW c \in Sp!Content,
         \A d \in Nat : g + d \in Sp!Under(new, g) <=> d \in 1 .. Len(c),
         \A d \in 1 .. Len(c) : new[g + d].kind = c[d]
  PROVE  Sp!ContentOf(new, g) = c
<1> DEFINE V == Sp!Under(new, g)
           t == [n \in 1 .. Len(c) |-> g + n]
<1>1. V \in SUBSET (1 .. Len(new)) /\ Len(new) \in Nat
  BY SplLineTypes, UnderHead
<1>2. c \in Seq({"body", "bar", "hash"})
  BY DEF Sp!Content
<1>3. Len(c) \in Nat /\ c = [n \in 1 .. Len(c) |-> c[n]]
  BY <1>2
<1>4. Lists(t, Len(c), V)
  <2>1. t \in [1 .. Len(c) -> V]
    BY <1>3
  <2>2. ASSUME NEW x \in V PROVE \E i \in 1 .. Len(c) : t[i] = x
    <3>1. x > g /\ x \in Nat
      BY <1>1, UnderHead
    <3>2. x - g \in Nat /\ g + (x - g) = x
      BY <3>1
    <3> QED
      BY <3>2
  <2> QED
    BY <1>3, <2>1, <2>2 DEF Lists
<1>5. Sp!ContentOf(new, g) = [n \in 1 .. Len(c) |-> new[t[n]].kind]
  <2>1. V \in SUBSET Nat
    BY <1>1
  <2>2. \A m, s : Lists(s, m, V) => Sp!ContentOf(new, g) = [n \in 1 .. m |-> new[s[n]].kind]
    BY <2>1, ContentIs
  <2> HIDE DEF t, V
  <2> QED
    BY <1>4, <2>2
<1> QED
  BY <1>3, <1>5

-----------------------------------------------------------------------------
(* The splice *)

LEMMA EmitIs ==
  ASSUME NEW e \in Sp!EntryType
  PROVE  /\ Len(e.content) \in Nat /\ DOMAIN e.content = 1 .. Len(e.content)
         /\ \A d \in 1 .. Len(e.content) : e.content[d] \in {"body", "bar", "hash"}
         /\ Sp!Emit(e) \in Seq(Sp!LineType) /\ Len(Sp!Emit(e)) = 1 + Len(e.content)
         /\ Sp!Emit(e)[1] = Sp!Line("head", e.key, "", FALSE, 0)
         /\ \A d \in 1 .. Len(e.content) :
              Sp!Emit(e)[1 + d] = Sp!Line(e.content[d], 0, "", TRUE, 0)
<1> DEFINE c == e.content
           head == Sp!Line("head", e.key, "", FALSE, 0)
           rest == [i \in 1 .. Len(c) |-> Sp!Line(c[i], 0, "", TRUE, 0)]
<1>1. c \in Seq({"body", "bar", "hash"}) /\ e.key \in Nat
  BY DEF Sp!EntryType, Sp!Content
<1>2. /\ Len(c) \in Nat /\ DOMAIN c = 1 .. Len(c)
      /\ \A d \in 1 .. Len(c) : c[d] \in {"body", "bar", "hash"}
  BY <1>1
<1>3. head \in Sp!LineType
  BY <1>1 DEF Sp!LineType, Sp!Line
<1>4. ASSUME NEW d \in 1 .. Len(c) PROVE Sp!Line(c[d], 0, "", TRUE, 0) \in Sp!LineType
  <2>1. c[d] \in {"head", "body", "bar", "hash", "blank"}
    BY <1>2
  <2>2. ASSUME NEW k \in {"head", "body", "bar", "hash", "blank"}
        PROVE  Sp!Line(k, 0, "", TRUE, 0) \in Sp!LineType
    BY DEF Sp!LineType, Sp!Line
  <2> HIDE DEF c
  <2> QED
    BY <2>1, <2>2
<1>5. Sp!Emit(e) = <<head>> \o rest
  BY <1>2 DEF Sp!Emit
<1> HIDE DEF head, c
<1>6. rest \in Seq(Sp!LineType) /\ Len(rest) = Len(c)
  <2>1. rest \in [1 .. Len(c) -> Sp!LineType]
    BY <1>4
  <2> HIDE DEF rest
  <2> QED
    BY <1>2, <2>1
<1>7. \A d \in 1 .. Len(c) : rest[d] = Sp!Line(c[d], 0, "", TRUE, 0)
  OBVIOUS
<1> HIDE DEF rest
<1>8. /\ <<head>> \o rest \in Seq(Sp!LineType) /\ Len(<<head>> \o rest) = 1 + Len(c)
      /\ (<<head>> \o rest)[1] = head
      /\ \A d \in 1 .. Len(c) : (<<head>> \o rest)[1 + d] = rest[d]
  BY <1>2, <1>3, <1>6
<1> QED
  BY <1>2, <1>5, <1>7, <1>8 DEF head, c

\* What is cut off at the end of an entry is blank lines and hashes.
LEMMA ContentEndIs ==
  ASSUME NEW lines \in Seq(Sp!LineType), NEW first \in 1 .. Len(lines), NEW last \in first .. Len(lines)
  PROVE  LET end == Sp!ContentEnd(lines, first, last)
         IN  /\ end \in first - 1 .. last
             /\ \A i \in end + 1 .. last : i >= first => lines[i].kind \in {"blank", "hash"}
             /\ end >= first => lines[end].kind \notin {"blank", "hash"}
             /\ lines[first].kind = "head" => end >= first
<1> DEFINE S == {i \in first .. last : lines[i].kind \notin {"blank", "hash"}} \cup {first - 1}
           end == Sp!ContentEnd(lines, first, last)
<1>1. end = Sp!Max(S)
  BY DEF Sp!ContentEnd
<1>2. S \in SUBSET (0 .. Len(lines)) /\ S # {} /\ Len(lines) \in Nat
  <2>1. Len(lines) \in Nat
    BY SplLineTypes
  <2> QED
    BY <2>1
<1>3. end \in S /\ \A x \in S : x <= end
  <2> HIDE DEF S, end
  <2> QED
    BY <1>1, <1>2, MaxIs
<1> HIDE DEF end
<1>4. end \in first - 1 .. last /\ (end >= first => lines[end].kind \notin {"blank", "hash"})
  BY <1>3
<1>5. ASSUME NEW i \in end + 1 .. last, i >= first PROVE lines[i].kind \in {"blank", "hash"}
  <2>1. ~ i <= end /\ i \in first .. last
    BY <1>4, <1>5
  <2>2. i \notin S
    BY <1>3, <2>1
  <2> QED
    BY <2>1, <2>2
<1>6. lines[first].kind = "head" => end >= first
  <2> SUFFICES ASSUME lines[first].kind = "head" PROVE end >= first
    OBVIOUS
  <2>1. first \in S
    OBVIOUS
  <2> QED
    BY <1>3, <2>1
<1> QED
  BY <1>4, <1>5, <1>6 DEF end

\* Where an entry starts, and where the next one does.
LEMMA StartIs ==
  ASSUME NEW lines \in Seq(Sp!LineType), NEW w \in 1 .. Sp!Cardinality(Sp!Heads(lines))
  PROVE  LET first == Sp!Start(lines, w)
             limit == Sp!Limit(lines, w)
         IN  /\ first \in Sp!Heads(lines) /\ first \in 1 .. Len(lines)
             /\ lines[first].kind = "head" /\ limit \in first .. Len(lines)
             /\ \A i \in first + 1 .. limit : lines[i].kind # "head"
             /\ limit < Len(lines) => limit + 1 \in Sp!Heads(lines)
             /\ \A n \in 1 .. Sp!Cardinality(Sp!Heads(lines)) :
                  /\ n < w => Sp!Sorted(Sp!Heads(lines))[n] < first
                  /\ n > w => Sp!Sorted(Sp!Heads(lines))[n] > limit
<1> DEFINE H == Sp!Heads(lines)
           m == Sp!Cardinality(H)
           s == Sp!Sorted(H)
           first == Sp!Start(lines, w)
           limit == Sp!Limit(lines, w)
<1>1. Lists(s, m, H) /\ H \in SUBSET Nat
  BY HeadsListed
<1>2. \A h \in H : h \in 1 .. Len(lines) /\ lines[h].kind = "head"
  BY SplLineTypes DEF Sp!Heads
<1>3. \A i \in 1 .. Len(lines) : lines[i].kind = "head" => i \in H
  BY SplLineTypes DEF Sp!Heads
<1>4. first = s[w] /\ limit = IF w < m THEN s[w + 1] - 1 ELSE Len(lines)
  BY DEF Sp!Start, Sp!Limit
<1> HIDE DEF H, m, s, first, limit
<1>5. /\ m \in Nat /\ w \in 1 .. m /\ Len(lines) \in Nat
      /\ \A n \in 1 .. m : s[n] \in H /\ s[n] \in 1 .. Len(lines)
  BY <1>1, <1>2, SplLineTypes DEF Lists, m, H
<1>6. \A i, j \in 1 .. m : i < j => s[i] < s[j]
  BY <1>1 DEF Lists
<1>7. limit \in first .. Len(lines)
  <2>1. w < m => w + 1 \in 1 .. m /\ s[w] < s[w + 1]
    BY <1>5, <1>6
  <2> QED
    BY <1>4, <1>5, <2>1
<1>8. ASSUME NEW i \in first + 1 .. limit PROVE lines[i].kind # "head"
  <2> SUFFICES ASSUME lines[i].kind = "head" PROVE FALSE
    OBVIOUS
  <2>1. i \in H /\ i > s[w] /\ i <= limit /\ i \in Nat
    BY <1>3, <1>4, <1>5, <1>7
  <2>2. PICK n \in 1 .. m : s[n] = i
    BY <1>1, <2>1 DEF Lists
  <2>3. n > w
    <3>1. ~ n = w /\ ~ n < w
      BY <1>5, <1>6, <2>1, <2>2
    <3> QED
      BY <3>1, <1>5
  <2>4. w < m /\ w + 1 \in 1 .. m /\ s[w + 1] <= s[n]
    <3>1. w < m /\ w + 1 \in 1 .. m
      BY <1>5, <2>3
    <3>2. n = w + 1 \/ w + 1 < n
      BY <1>5, <2>3
    <3> QED
      BY <1>5, <1>6, <3>1, <3>2
  <2> QED
    BY <1>4, <1>5, <2>1, <2>2, <2>4
<1>9. limit < Len(lines) => limit + 1 \in H
  <2> SUFFICES ASSUME limit < Len(lines) PROVE limit + 1 \in H
    OBVIOUS
  <2>1. w < m /\ w + 1 \in 1 .. m
    BY <1>4, <1>5
  <2> QED
    BY <1>4, <1>5, <2>1
<1>10. ASSUME NEW n \in 1 .. m PROVE (n < w => s[n] < first) /\ (n > w => s[n] > limit)
  <2>1. n < w => s[n] < first
    BY <1>4, <1>5, <1>6
  <2>2. ASSUME n > w PROVE s[n] > limit
    <3>1. w < m /\ w + 1 \in 1 .. m /\ (n = w + 1 \/ w + 1 < n)
      BY <1>5, <2>2
    <3>2. s[w + 1] <= s[n]
      BY <1>5, <1>6, <3>1
    <3> QED
      BY <1>4, <1>5, <3>1, <3>2
  <2> QED
    BY <2>1, <2>2
<1> QED
  BY <1>2, <1>4, <1>5, <1>7, <1>8, <1>9, <1>10 DEF H, m, s, first, limit

LEMMA Concatenated ==
  ASSUME NEW S, NEW a \in Seq(S), NEW b \in Seq(S)
  PROVE  /\ a \o b \in Seq(S) /\ Len(a \o b) = Len(a) + Len(b)
         /\ \A i \in 1 .. Len(a) : (a \o b)[i] = a[i]
         /\ \A i \in 1 .. Len(b) : (a \o b)[Len(a) + i] = b[i]
OBVIOUS

\* The lines from first to end give way to a block.
Patch(lines, first, end, block) ==
  SubSeq(lines, 1, first - 1) \o block \o SubSeq(lines, end + 1, Len(lines))

\* How far the lines after the patch move.
Moved(first, end, block) == first + Len(block) - (end + 1)

LEMMA PatchIs ==
  ASSUME NEW lines \in Seq(Sp!LineType), NEW block \in Seq(Sp!LineType),
         NEW first \in 1 .. Len(lines) + 1, NEW end \in first - 1 .. Len(lines)
  PROVE  LET new == Patch(lines, first, end, block)
             moved == Moved(first, end, block)
         IN  /\ new \in Seq(Sp!LineType) /\ Len(new) = Len(lines) + moved
             /\ \A i \in 1 .. first - 1 : new[i] = lines[i]
             /\ \A i \in 1 .. Len(block) : new[first - 1 + i] = block[i]
             /\ \A i \in end + 1 .. Len(lines) : new[i + moved] = lines[i]
<1> DEFINE new == Patch(lines, first, end, block)
           moved == first + Len(block) - (end + 1)
           a == SubSeq(lines, 1, first - 1)
           c == SubSeq(lines, end + 1, Len(lines))
<1>1. Len(lines) \in Nat /\ Len(block) \in Nat
  OBVIOUS
<1>2. a \in Seq(Sp!LineType) /\ Len(a) = first - 1 /\ \A i \in 1 .. first - 1 : a[i] = lines[i]
  BY <1>1
<1>3. /\ c \in Seq(Sp!LineType) /\ Len(c) = Len(lines) - end
      /\ \A i \in 1 .. Len(lines) - end : c[i] = lines[end + i]
  BY <1>1
<1> HIDE DEF a, c
<1>4. /\ a \o block \in Seq(Sp!LineType) /\ Len(a \o block) = first - 1 + Len(block)
      /\ \A i \in 1 .. first - 1 : (a \o block)[i] = lines[i]
      /\ \A i \in 1 .. Len(block) : (a \o block)[first - 1 + i] = block[i]
  BY <1>1, <1>2
<1> DEFINE ab == a \o block
<1>41. ab \in Seq(Sp!LineType) /\ Len(ab) = first - 1 + Len(block)
  BY <1>4
<1> HIDE DEF ab
<1>5. /\ ab \o c \in Seq(Sp!LineType) /\ Len(ab \o c) = Len(ab) + Len(c)
      /\ \A i \in 1 .. Len(ab) : (ab \o c)[i] = ab[i]
      /\ \A i \in 1 .. Len(c) : (ab \o c)[Len(ab) + i] = c[i]
  <2>1. \A x, y \in Seq(Sp!LineType) :
          /\ x \o y \in Seq(Sp!LineType) /\ Len(x \o y) = Len(x) + Len(y)
          /\ \A i \in 1 .. Len(x) : (x \o y)[i] = x[i]
          /\ \A i \in 1 .. Len(y) : (x \o y)[Len(x) + i] = y[i]
    BY Concatenated
  <2>2. ab \in Seq(Sp!LineType) /\ c \in Seq(Sp!LineType)
    BY <1>3, <1>41
  <2> QED
    BY <2>1, <2>2
<1>6. Patch(lines, first, end, block) = ab \o c
  BY DEF Patch, ab, a, c
<1>7. /\ new \in Seq(Sp!LineType) /\ Len(new) = Len(lines) + moved
      /\ \A i \in 1 .. first - 1 : new[i] = lines[i]
      /\ \A i \in 1 .. Len(block) : new[first - 1 + i] = block[i]
  <2>1. \A i \in 1 .. first - 1 : i \in 1 .. Len(ab) /\ ab[i] = lines[i]
    BY <1>1, <1>4, <1>41 DEF ab
  <2>2. \A i \in 1 .. Len(block) : first - 1 + i \in 1 .. Len(ab) /\ ab[first - 1 + i] = block[i]
    BY <1>1, <1>4, <1>41 DEF ab
  <2> QED
    BY <1>1, <1>3, <1>41, <1>5, <1>6, <2>1, <2>2
<1>8. ASSUME NEW i \in end + 1 .. Len(lines) PROVE new[i + moved] = lines[i]
  <2>1. i - end \in 1 .. Len(lines) - end /\ end + (i - end) = i
    BY <1>1
  <2>2. Len(ab) + (i - end) = i + moved
    BY <1>1, <1>41
  <2>3. (ab \o c)[Len(ab) + (i - end)] = c[i - end] /\ c[i - end] = lines[end + (i - end)]
    BY <1>3, <1>5, <2>1
  <2> QED
    BY <1>6, <2>1, <2>2, <2>3
<1> QED
  BY <1>7, <1>8 DEF Moved

-----------------------------------------------------------------------------
(* Plain texts: neither anchors nor block scalars that hold a hash *)

Plain(lines) ==
  \A i \in DOMAIN lines : lines[i].ref = "" /\ (lines[i].kind = "hash" => ~lines[i].deep)

LEMMA PlainUnder ==
  ASSUME NEW lines \in Seq(Sp!LineType), Plain(lines), NEW h \in Nat, NEW i
  PROVE  i \in Sp!Under(lines, h) <=>
           /\ i \in DOMAIN lines /\ i > h /\ lines[i].kind \in {"body", "bar"}
           /\ \A j \in h + 1 .. i : lines[j].kind # "head"
BY UnderHead DEF Plain, Sp!IsContent

\* Entries before the patch, after it, and in it.
LEMMA KeepsEarlier ==
  ASSUME NEW lines \in Seq(Sp!LineType), NEW new \in Seq(Sp!LineType), Plain(lines), Plain(new),
         NEW h \in Nat, NEW k \in Nat, h < k,
         \A i \in 1 .. k - 1 : i \in DOMAIN lines /\ i \in DOMAIN new /\ new[i] = lines[i],
         k \in DOMAIN lines => lines[k].kind = "head",
         \A i \in DOMAIN new : i >= k /\ new[i].kind \in {"body", "bar"} =>
           \E j \in k .. i : new[j].kind = "head"
  PROVE  Sp!ContentOf(new, h) = Sp!ContentOf(lines, h)
<1>1. \A i \in DOMAIN lines : i \in Nat /\ \A j \in 1 .. i : j \in DOMAIN lines
  BY SplDomain
<1>2. \A i \in DOMAIN new : i \in Nat /\ i > 0
  BY SplDomain
<1>3. ASSUME NEW i \in Sp!Under(lines, h) PROVE i < k
  <2>1. i \in DOMAIN lines /\ i > h /\ \A j \in h + 1 .. i : lines[j].kind # "head"
    BY PlainUnder
  <2>2. i >= k => k \in DOMAIN lines /\ k \in h + 1 .. i
    BY <1>1, <2>1
  <2> QED
    BY <1>1, <2>1, <2>2
<1>4. ASSUME NEW i \in Sp!Under(new, h) PROVE i < k
  <2>1. /\ i \in DOMAIN new /\ i > h /\ new[i].kind \in {"body", "bar"}
        /\ \A j \in h + 1 .. i : new[j].kind # "head"
    BY PlainUnder
  <2>2. \A j \in k .. i : j \in h + 1 .. i
    BY <1>2, <2>1
  <2> QED
    BY <1>2, <2>1, <2>2
<1>5. ASSUME NEW i \in Nat, i < k, i > h
      PROVE  i \in Sp!Under(lines, h) <=> i \in Sp!Under(new, h)
  <2>1. i \in DOMAIN lines /\ i \in DOMAIN new /\ \A j \in h + 1 .. i : new[j] = lines[j]
    BY <1>5
  <2>2. new[i] = lines[i]
    BY <1>5, <2>1
  <2> QED
    BY <1>5, <2>1, <2>2, PlainUnder
<1>6. ASSUME NEW d \in Nat PROVE h + d \in Sp!Under(lines, h) <=> h + d \in Sp!Under(new, h)
  <2>1. \A i \in Sp!Under(lines, h) \cup Sp!Under(new, h) : i > h
    BY PlainUnder
  <2> QED
    BY <1>3, <1>4, <1>5, <2>1
<1>7. ASSUME NEW d \in Nat, h + d \in Sp!Under(lines, h)
      PROVE  lines[h + d].kind = new[h + d].kind
  <2>1. h + d \in 1 .. k - 1
    BY <1>2, <1>3, <1>7, PlainUnder
  <2> QED
    BY <2>1
<1> QED
  BY <1>6, <1>7, ContentMoves

LEMMA KeepsLater ==
  ASSUME NEW lines \in Seq(Sp!LineType), NEW new \in Seq(Sp!LineType), Plain(lines), Plain(new),
         NEW h \in Nat, NEW g \in Nat, h \in DOMAIN lines,
         \A d \in Nat : h + d \in DOMAIN lines <=> g + d \in DOMAIN new,
         \A d \in Nat : h + d \in DOMAIN lines => new[g + d] = lines[h + d]
  PROVE  Sp!ContentOf(new, g) = Sp!ContentOf(lines, h)
<1>1. ASSUME NEW d \in Nat, h + d \in DOMAIN lines
      PROVE  (\A j \in h + 1 .. h + d : lines[j].kind # "head")
               <=> (\A j \in g + 1 .. g + d : new[j].kind # "head")
  <2>1. ASSUME NEW e \in 1 .. d PROVE new[g + e] = lines[h + e]
    <3>1. h + e \in DOMAIN lines
      <4>1. h + e \in 1 .. h + d
        OBVIOUS
      <4> QED
        BY <1>1, <4>1, SplDomain
    <3> QED
      BY <3>1
  <2>2. \A j \in h + 1 .. h + d : j - h \in 1 .. d /\ h + (j - h) = j
    OBVIOUS
  <2>3. \A j \in g + 1 .. g + d : j - g \in 1 .. d /\ g + (j - g) = j
    OBVIOUS
  <2>4. \A e \in 1 .. d : h + e \in h + 1 .. h + d /\ g + e \in g + 1 .. g + d
    OBVIOUS
  <2>5. ASSUME NEW j \in h + 1 .. h + d PROVE lines[j] = new[g + (j - h)] /\ g + (j - h) \in g + 1 .. g + d
    <3>1. j - h \in 1 .. d /\ h + (j - h) = j
      BY <2>2
    <3> QED
      BY <2>1, <2>4, <3>1
  <2>6. ASSUME NEW j \in g + 1 .. g + d PROVE new[j] = lines[h + (j - g)] /\ h + (j - g) \in h + 1 .. h + d
    <3>1. j - g \in 1 .. d /\ g + (j - g) = j
      BY <2>3
    <3> QED
      BY <2>1, <2>4, <3>1
  <2> QED
    BY <2>5, <2>6
<1>2. ASSUME NEW d \in Nat PROVE h + d \in Sp!Under(lines, h) <=> g + d \in Sp!Under(new, g)
  <2>1. h + d > h <=> g + d > g
    OBVIOUS
  <2>2. CASE h + d \in DOMAIN lines
    <3>1. g + d \in DOMAIN new /\ new[g + d] = lines[h + d]
      BY <2>2
    <3>2. (\A j \in h + 1 .. h + d : lines[j].kind # "head")
            <=> (\A j \in g + 1 .. g + d : new[j].kind # "head")
      BY <1>1, <2>2
    <3>3. h + d \in Sp!Under(lines, h) <=>
            /\ h + d \in DOMAIN lines /\ h + d > h /\ lines[h + d].kind \in {"body", "bar"}
            /\ \A j \in h + 1 .. h + d : lines[j].kind # "head"
      <4>1. \A i : i \in Sp!Under(lines, h) <=>
                      /\ i \in DOMAIN lines /\ i > h /\ lines[i].kind \in {"body", "bar"}
                      /\ \A j \in h + 1 .. i : lines[j].kind # "head"
        BY PlainUnder
      <4> QED
        BY <4>1
    <3>4. g + d \in Sp!Under(new, g) <=>
            /\ g + d \in DOMAIN new /\ g + d > g /\ new[g + d].kind \in {"body", "bar"}
            /\ \A j \in g + 1 .. g + d : new[j].kind # "head"
      BY PlainUnder
    <3> QED
      BY <2>1, <2>2, <3>1, <3>2, <3>3, <3>4
  <2>3. CASE h + d \notin DOMAIN lines
    BY <2>3, PlainUnder
  <2> QED
    BY <2>2, <2>3
<1>3. \A d \in Nat : h + d \in Sp!Under(lines, h) => lines[h + d].kind = new[g + d].kind
  BY PlainUnder
<1> QED
  BY <1>2, <1>3, ContentMoves

LEMMA KeepsNew ==
  ASSUME NEW new \in Seq(Sp!LineType), Plain(new), NEW g \in Nat, NEW c \in Sp!Content,
         \A d \in 1 .. Len(c) : g + d \in DOMAIN new /\ new[g + d].kind = c[d] /\ c[d] # "hash",
         \A i \in DOMAIN new : i > g + Len(c) /\ new[i].kind \in {"body", "bar"} =>
           \E j \in g + Len(c) + 1 .. i : new[j].kind = "head"
  PROVE  Sp!ContentOf(new, g) = c
<1>1. Len(c) \in Nat /\ \A d \in 1 .. Len(c) : c[d] \in {"body", "bar"}
  <2>1. c \in Seq({"body", "bar", "hash"})
    BY DEF Sp!Content
  <2> QED
    BY <2>1
<1>2. \A i \in DOMAIN new : i \in Nat
  BY SplDomain
<1>3. ASSUME NEW d \in Nat PROVE g + d \in Sp!Under(new, g) <=> d \in 1 .. Len(c)
  <2>1. CASE d \in 1 .. Len(c)
    <3>1. \A j \in g + 1 .. g + d : j - g \in 1 .. Len(c) /\ g + (j - g) = j
      BY <1>1, <2>1
    <3>2. \A j \in g + 1 .. g + d : new[j].kind # "head"
      BY <1>1, <3>1
    <3> QED
      BY <1>1, <2>1, <3>2, PlainUnder
  <2>2. CASE d \notin 1 .. Len(c)
    <3> SUFFICES ASSUME g + d \in Sp!Under(new, g) PROVE FALSE
      BY <2>2
    <3>1. /\ g + d \in DOMAIN new /\ g + d > g /\ new[g + d].kind \in {"body", "bar"}
          /\ \A j \in g + 1 .. g + d : new[j].kind # "head"
      BY PlainUnder
    <3>2. g + d > g + Len(c)
      BY <1>1, <2>2, <3>1
    <3>3. \A j \in g + Len(c) + 1 .. g + d : j \in g + 1 .. g + d
      BY <1>1
    <3> QED
      BY <3>1, <3>2, <3>3
  <2> QED
    BY <2>1, <2>2
<1>4. \A d \in 1 .. Len(c) : new[g + d].kind = c[d]
  OBVIOUS
<1> QED
  BY <1>3, <1>4, ContentEmitted

\* What is patched is an entry up to its last content line, or the end of the text.
Fits(lines, first, end, limit) ==
  /\ first \in 1 .. Len(lines) + 1 /\ limit \in Nat /\ limit <= Len(lines) /\ end \in first - 1 .. limit
  /\ first <= Len(lines) => lines[first].kind = "head" /\ end >= first
  /\ \A i \in first + 1 .. limit : lines[i].kind # "head"
  /\ \A i \in end + 1 .. limit : lines[i].kind \in {"blank", "hash"}
  /\ limit < Len(lines) => lines[limit + 1].kind = "head"

OneEntry(block) ==
  \A i \in DOMAIN block : block[i].kind = "head" <=> i = 1

\* Where each line of a patched text comes from.
Stitched(new, lines, block, first, end, moved) ==
  /\ new \in Seq(Sp!LineType) /\ Len(new) = Len(lines) + moved
  /\ first \in Nat /\ end \in Nat /\ moved \in Int /\ Len(block) \in Nat
  /\ Len(lines) \in Nat /\ DOMAIN lines = 1 .. Len(lines) /\ DOMAIN new = 1 .. Len(new)
  /\ \A i \in 1 .. first - 1 : i \in DOMAIN lines /\ i \in DOMAIN new /\ new[i] = lines[i]
  /\ \A i \in 1 .. Len(block) : first - 1 + i \in DOMAIN new /\ new[first - 1 + i] = block[i]
  /\ \A i \in end + 1 .. Len(lines) : i + moved \in DOMAIN new /\ new[i + moved] = lines[i]
  /\ \A x \in DOMAIN new :
       \/ x \in 1 .. first - 1
       \/ x - (first - 1) \in 1 .. Len(block)
       \/ x - moved \in end + 1 .. Len(lines)

LEMMA PatchLines ==
  ASSUME NEW lines \in Seq(Sp!LineType), NEW block \in Seq(Sp!LineType),
         NEW first, NEW end, NEW limit, Fits(lines, first, end, limit)
  PROVE  Stitched(Patch(lines, first, end, block), lines, block, first, end, Moved(first, end, block))
<1> DEFINE new == Patch(lines, first, end, block)
           moved == Moved(first, end, block)
<1>1. /\ Len(lines) \in Nat /\ Len(block) \in Nat /\ DOMAIN lines = 1 .. Len(lines)
  BY SplDomain
<1>2. /\ first \in 1 .. Len(lines) + 1 /\ end \in first - 1 .. Len(lines) /\ first \in Nat /\ end \in Nat
  BY <1>1 DEF Fits
<1>3. moved = first + Len(block) - (end + 1) /\ moved \in Int
  BY <1>1, <1>2 DEF Moved
<1> HIDE DEF moved, new
<1>4. /\ new \in Seq(Sp!LineType) /\ Len(new) = Len(lines) + moved
      /\ \A i \in 1 .. first - 1 : new[i] = lines[i]
      /\ \A i \in 1 .. Len(block) : new[first - 1 + i] = block[i]
      /\ \A i \in end + 1 .. Len(lines) : new[i + moved] = lines[i]
  BY <1>2, PatchIs DEF new, moved
<1>5. DOMAIN new = 1 .. Len(new)
  BY <1>4, SplDomain
<1>6. \A i \in 1 .. first - 1 : i \in DOMAIN lines /\ i \in DOMAIN new
  BY <1>1, <1>2, <1>3, <1>4, <1>5
<1>7. \A i \in 1 .. Len(block) : first - 1 + i \in DOMAIN new
  BY <1>1, <1>2, <1>3, <1>4, <1>5
<1>8. \A i \in end + 1 .. Len(lines) : i + moved \in DOMAIN new
  BY <1>1, <1>2, <1>3, <1>4, <1>5
<1>9. ASSUME NEW x \in DOMAIN new
      PROVE  \/ x \in 1 .. first - 1
             \/ x - (first - 1) \in 1 .. Len(block)
             \/ x - moved \in end + 1 .. Len(lines)
  <2>1. x \in Int /\ x >= 1 /\ x <= Len(lines) + moved
    BY <1>1, <1>3, <1>4, <1>5
  <2>2. CASE x < first
    BY <1>2, <2>1, <2>2
  <2>3. CASE x >= first /\ x <= first - 1 + Len(block)
    BY <1>1, <1>2, <2>1, <2>3
  <2>4. CASE x > first - 1 + Len(block)
    BY <1>1, <1>2, <1>3, <2>1, <2>4
  <2> QED
    BY <1>1, <1>2, <2>1, <2>2, <2>3, <2>4
<1> QED
  BY <1>1, <1>2, <1>3, <1>4, <1>5, <1>6, <1>7, <1>8, <1>9 DEF moved, new, Stitched

\* The heads of a patched text.
LEMMA PatchedHeads ==
  ASSUME NEW lines \in Seq(Sp!LineType), NEW block \in Seq(Sp!LineType), OneEntry(block),
         NEW first, NEW end, NEW limit, Fits(lines, first, end, limit), NEW x
  PROVE  x \in Sp!Heads(Patch(lines, first, end, block)) <=>
           \/ x \in Sp!Heads(lines) /\ x < first
           \/ x = first /\ Len(block) > 0
           \/ \E h \in Sp!Heads(lines) : h > limit /\ x = h + Moved(first, end, block)
<1> DEFINE new == Patch(lines, first, end, block)
           moved == Moved(first, end, block)
<1> HIDE DEF new, moved
<1>0. Stitched(new, lines, block, first, end, moved)
  BY PatchLines DEF new, moved
<1>1. /\ first \in Nat /\ end \in Nat /\ moved \in Int /\ Len(block) \in Nat
      /\ Len(lines) \in Nat /\ DOMAIN lines = 1 .. Len(lines)
      /\ \A i \in 1 .. first - 1 : i \in DOMAIN lines /\ i \in DOMAIN new /\ new[i] = lines[i]
      /\ \A i \in 1 .. Len(block) : first - 1 + i \in DOMAIN new /\ new[first - 1 + i] = block[i]
      /\ \A i \in end + 1 .. Len(lines) : i + moved \in DOMAIN new /\ new[i + moved] = lines[i]
      /\ \A y \in DOMAIN new :
           \/ y \in 1 .. first - 1
           \/ y - (first - 1) \in 1 .. Len(block)
           \/ y - moved \in end + 1 .. Len(lines)
  BY <1>0 DEF Stitched
<1>2. DOMAIN block = 1 .. Len(block)
  BY SplDomain
<1>3. \A i \in end + 1 .. limit : lines[i].kind # "head"
  BY DEF Fits
<1>4. limit \in Nat /\ limit >= end /\ first > 0
  BY <1>1 DEF Fits
<1>5. ASSUME NEW y \in DOMAIN new PROVE y \in Int
  BY <1>0, <1>5 DEF Stitched
<1>6. ASSUME x \in Sp!Heads(new)
      PROVE  \/ x \in Sp!Heads(lines) /\ x < first
             \/ x = first /\ Len(block) > 0
             \/ \E h \in Sp!Heads(lines) : h > limit /\ x = h + moved
  <2>1. x \in DOMAIN new /\ new[x].kind = "head" /\ x \in Int
    BY <1>5, <1>6 DEF Sp!Heads
  <2>2. CASE x \in 1 .. first - 1
    BY <1>1, <2>1, <2>2 DEF Sp!Heads
  <2>3. CASE x - (first - 1) \in 1 .. Len(block)
    <3>1. first - 1 + (x - (first - 1)) = x
      BY <1>1, <2>1
    <3>2. block[x - (first - 1)].kind = "head"
      BY <1>1, <2>1, <2>3, <3>1
    <3>3. x - (first - 1) = 1
      BY <1>2, <2>3, <3>2 DEF OneEntry
    <3> QED
      BY <1>1, <2>1, <2>3, <3>3
  <2>4. CASE x - moved \in end + 1 .. Len(lines)
    <3>1. x - moved + moved = x
      BY <1>1, <2>1
    <3>2. lines[x - moved].kind = "head"
      BY <1>1, <2>1, <2>4, <3>1
    <3>3. x - moved > limit
      BY <1>1, <1>3, <1>4, <2>4, <3>2
    <3>4. x - moved \in Sp!Heads(lines)
      BY <1>1, <2>4, <3>2 DEF Sp!Heads
    <3> QED
      BY <3>1, <3>3, <3>4
  <2> QED
    BY <1>1, <2>1, <2>2, <2>3, <2>4
<1>7. ASSUME x \in Sp!Heads(lines), x < first PROVE x \in Sp!Heads(new)
  <2>1. x \in 1 .. first - 1 /\ lines[x].kind = "head"
    BY <1>1, <1>7 DEF Sp!Heads
  <2> QED
    BY <1>1, <2>1 DEF Sp!Heads
<1>8. ASSUME Len(block) > 0 PROVE first \in Sp!Heads(new)
  <2>1. 1 \in DOMAIN block /\ block[1].kind = "head"
    BY <1>1, <1>2, <1>8 DEF OneEntry
  <2>2. first \in DOMAIN new /\ new[first] = block[1]
    <3>1. first - 1 + 1 = first /\ 1 \in 1 .. Len(block)
      BY <1>1, <1>8
    <3> QED
      BY <1>1, <3>1
  <2> QED
    BY <2>1, <2>2 DEF Sp!Heads
<1>9. ASSUME NEW h \in Sp!Heads(lines), h > limit PROVE h + moved \in Sp!Heads(new)
  <2>1. h \in end + 1 .. Len(lines) /\ lines[h].kind = "head"
    BY <1>1, <1>4, <1>9 DEF Sp!Heads
  <2> QED
    BY <1>1, <2>1 DEF Sp!Heads
<1> QED
  BY <1>6, <1>7, <1>8, <1>9 DEF new, moved

\* A plain text with a plain block is plain, its other entries say what they did,
\* and the block what it is emitted for.
LEMMA PatchedPlain ==
  ASSUME NEW lines \in Seq(Sp!LineType), NEW block \in Seq(Sp!LineType), Plain(lines), Plain(block),
         NEW first, NEW end, NEW limit, Fits(lines, first, end, limit)
  PROVE  Plain(Patch(lines, first, end, block))
<1> DEFINE new == Patch(lines, first, end, block)
           moved == Moved(first, end, block)
<1>1. Stitched(new, lines, block, first, end, moved)
  BY PatchLines
<1> HIDE DEF new, moved
<1>2. DOMAIN block = 1 .. Len(block) /\ \A y \in DOMAIN new : y \in Int
  BY <1>1, SplDomain DEF Stitched
<1>3. ASSUME NEW x \in DOMAIN new
      PROVE  (\E i \in DOMAIN lines : new[x] = lines[i]) \/ (\E i \in DOMAIN block : new[x] = block[i])
  <2>1. x \in Int
    BY <1>2
  <2>2. CASE x \in 1 .. first - 1
    BY <1>1, <2>2 DEF Stitched
  <2>3. CASE x - (first - 1) \in 1 .. Len(block)
    <3>1. first - 1 + (x - (first - 1)) = x
      BY <1>1, <2>1 DEF Stitched
    <3>2. new[x] = block[x - (first - 1)]
      BY <1>1, <2>3, <3>1 DEF Stitched
    <3> QED
      BY <1>2, <2>3, <3>2
  <2>4. CASE x - moved \in end + 1 .. Len(lines)
    <3>1. x - moved + moved = x
      BY <1>1, <2>1 DEF Stitched
    <3>2. new[x] = lines[x - moved]
      BY <1>1, <2>4, <3>1 DEF Stitched
    <3>3. x - moved \in DOMAIN lines
      BY <1>1, <2>4 DEF Stitched
    <3> QED
      BY <3>2, <3>3
  <2> QED
    BY <1>1, <2>2, <2>3, <2>4 DEF Stitched
<1> QED
  BY <1>3 DEF Plain, new

LEMMA PatchedContents ==
  ASSUME NEW lines \in Seq(Sp!LineType), NEW block \in Seq(Sp!LineType), Plain(lines), Plain(block),
         OneEntry(block), NEW first, NEW end, NEW limit, Fits(lines, first, end, limit)
  PROVE  LET new == Patch(lines, first, end, block)
             moved == Moved(first, end, block)
         IN  /\ \A h \in Sp!Heads(lines) : h < first =>
                  new[h] = lines[h] /\ Sp!ContentOf(new, h) = Sp!ContentOf(lines, h)
             /\ \A h \in Sp!Heads(lines) : h > limit =>
                  new[h + moved] = lines[h] /\ Sp!ContentOf(new, h + moved) = Sp!ContentOf(lines, h)
             /\ \A c \in Sp!Content :
                  /\ Len(block) = 1 + Len(c)
                  /\ \A d \in 1 .. Len(c) : block[1 + d].kind = c[d] /\ c[d] # "hash"
                  => new[first] = block[1] /\ Sp!ContentOf(new, first) = c
<1> DEFINE new == Patch(lines, first, end, block)
           moved == Moved(first, end, block)
<1>1. Stitched(new, lines, block, first, end, moved) /\ Plain(new)
  BY PatchLines, PatchedPlain
<1>2. moved = first + Len(block) - (end + 1)
  BY DEF Moved
<1> HIDE DEF new, moved
<1>3. /\ first \in Nat /\ end \in Nat /\ limit \in Nat /\ moved \in Int /\ Len(block) \in Nat
      /\ Len(lines) \in Nat /\ DOMAIN lines = 1 .. Len(lines)
      /\ DOMAIN new = 1 .. Len(lines) + moved /\ new \in Seq(Sp!LineType)
      /\ first > 0 /\ limit >= end /\ end >= first - 1 /\ limit <= Len(lines)
  BY <1>1 DEF Stitched, Fits
<1>4. /\ \A i \in 1 .. first - 1 : i \in DOMAIN lines /\ i \in DOMAIN new /\ new[i] = lines[i]
      /\ \A i \in 1 .. Len(block) : first - 1 + i \in DOMAIN new /\ new[first - 1 + i] = block[i]
      /\ \A i \in end + 1 .. Len(lines) : i + moved \in DOMAIN new /\ new[i + moved] = lines[i]
  BY <1>1 DEF Stitched
<1>5. DOMAIN block = 1 .. Len(block)
  BY SplDomain
\* Content after the block has a head between.
<1>6. ASSUME NEW i \in DOMAIN new, i > first - 1 + Len(block), new[i].kind \in {"body", "bar"}
      PROVE  \E j \in first + Len(block) .. i : new[j].kind = "head"
  <2> DEFINE n == Len(lines)
             l == Len(block)
  <2>0. /\ i \in Int /\ i >= 1 /\ i <= n + moved
        /\ first \in Nat /\ end \in Nat /\ moved \in Int /\ l \in Nat /\ n \in Nat
    BY <1>3
  <2>1. i \in Int /\ i - moved \in end + 1 .. n /\ i - moved + moved = i
    <3>1. moved = first + l - (end + 1) /\ i > first - 1 + l
      BY <1>2, <1>6
    <3> HIDE DEF n, l
    <3> QED
      BY <2>0, <3>1
  <2>2. lines[i - moved] = new[i]
    BY <1>4, <2>1
  <2>3. \A j \in end + 1 .. limit : lines[j].kind \in {"blank", "hash"}
    BY DEF Fits
  <2>4. i - moved > limit
    BY <1>3, <1>6, <2>1, <2>2, <2>3
  <2>5. limit + 1 \in end + 1 .. Len(lines) /\ limit < Len(lines)
    BY <1>3, <2>1, <2>4
  <2>6. lines[limit + 1].kind = "head"
    BY <2>5 DEF Fits
  <2>7. limit + 1 + moved \in first + Len(block) .. i
    BY <1>2, <1>3, <2>1, <2>4
  <2> QED
    BY <1>4, <2>5, <2>6, <2>7
<1>7. ASSUME NEW h \in Sp!Heads(lines), h < first
      PROVE  new[h] = lines[h] /\ Sp!ContentOf(new, h) = Sp!ContentOf(lines, h)
  <2>1. h \in Nat /\ h \in 1 .. first - 1
    BY <1>3, <1>7 DEF Sp!Heads
  <2>2. first \in DOMAIN lines => lines[first].kind = "head"
    BY <1>3 DEF Fits
  <2>3. ASSUME NEW i \in DOMAIN new, i >= first /\ new[i].kind \in {"body", "bar"}
        PROVE  \E j \in first .. i : new[j].kind = "head"
    <3>1. CASE Len(block) > 0
      <4>1. first - 1 + 1 = first /\ 1 \in DOMAIN block
        BY <1>3, <1>5, <3>1
      <4>2. new[first] = block[1] /\ block[1].kind = "head"
        BY <1>4, <1>5, <4>1 DEF OneEntry
      <4> QED
        BY <1>3, <2>3, <4>2
    <3>2. CASE Len(block) = 0
      <4>1. i > first - 1 + Len(block) /\ first + Len(block) = first
        BY <1>3, <2>3, <3>2
      <4> QED
        BY <1>6, <2>3, <4>1
    <3> QED
      BY <1>3, <3>1, <3>2
  <2>4. Sp!ContentOf(new, h) = Sp!ContentOf(lines, h)
    BY <1>1, <1>3, <1>4, <1>7, <2>1, <2>2, <2>3, KeepsEarlier
  <2> QED
    BY <1>4, <2>1, <2>4
<1>8. ASSUME NEW h \in Sp!Heads(lines), h > limit
      PROVE  new[h + moved] = lines[h] /\ Sp!ContentOf(new, h + moved) = Sp!ContentOf(lines, h)
  <2>1. h \in Nat /\ h \in DOMAIN lines /\ h \in end + 1 .. Len(lines) /\ h + moved \in Nat
    BY <1>2, <1>3, <1>8 DEF Sp!Heads
  <2>2. ASSUME NEW d \in Nat
        PROVE  /\ h + d \in DOMAIN lines <=> h + moved + d \in DOMAIN new
               /\ h + d \in DOMAIN lines => new[h + moved + d] = lines[h + d]
    <3>1. h + d \in DOMAIN lines <=> h + moved + d \in DOMAIN new
      BY <1>2, <1>3, <2>1
    <3>2. h + d \in DOMAIN lines => h + d \in end + 1 .. Len(lines) /\ h + d + moved = h + moved + d
      BY <1>3, <2>1
    <3> QED
      BY <1>4, <3>1, <3>2
  <2> DEFINE g == h + moved
  <2>3. g \in Nat /\ \A d \in Nat : (h + d \in DOMAIN lines <=> g + d \in DOMAIN new)
                                   /\ (h + d \in DOMAIN lines => new[g + d] = lines[h + d])
    BY <2>1, <2>2
  <2> HIDE DEF g
  <2>4. Sp!ContentOf(new, g) = Sp!ContentOf(lines, h)
    <3>1. ASSUME NEW k \in Nat,
                 \A d \in Nat : h + d \in DOMAIN lines <=> k + d \in DOMAIN new,
                 \A d \in Nat : h + d \in DOMAIN lines => new[k + d] = lines[h + d]
          PROVE  Sp!ContentOf(new, k) = Sp!ContentOf(lines, h)
      <4>1. new \in Seq(Sp!LineType) /\ Plain(new) /\ h \in Nat /\ h \in DOMAIN lines
        BY <1>1, <1>3, <2>1
      <4> QED
        BY <3>1, <4>1, KeepsLater
    <3> QED
      BY <2>3, <3>1
  <2> QED
    BY <1>4, <2>1, <2>4 DEF g
<1>9. ASSUME NEW c \in Sp!Content, Len(block) = 1 + Len(c),
             \A d \in 1 .. Len(c) : block[1 + d].kind = c[d] /\ c[d] # "hash"
      PROVE  new[first] = block[1] /\ Sp!ContentOf(new, first) = c
  <2>1. Len(c) \in Nat
    BY DEF Sp!Content
  <2>2. ASSUME NEW d \in 1 .. Len(c)
        PROVE  first + d \in DOMAIN new /\ new[first + d].kind = c[d] /\ c[d] # "hash"
    <3>1. 1 + d \in 1 .. Len(block) /\ first - 1 + (1 + d) = first + d
      BY <1>3, <1>9, <2>1
    <3> QED
      BY <1>4, <1>9, <3>1
  <2>3. first + Len(c) = first - 1 + Len(block) /\ first + Len(c) + 1 = first + Len(block)
    BY <1>3, <1>9, <2>1
  <2>4. Sp!ContentOf(new, first) = c
    <3>1. \A i \in DOMAIN new : i > first + Len(c) /\ new[i].kind \in {"body", "bar"} =>
            \E j \in first + Len(c) + 1 .. i : new[j].kind = "head"
      BY <1>6, <2>3
    <3> QED
      BY <1>1, <1>3, <2>2, <3>1, KeepsNew
  <2>5. first - 1 + 1 = first /\ 1 \in 1 .. Len(block)
    BY <1>3, <1>9, <2>1
  <2> QED
    BY <1>4, <2>4, <2>5
<1> QED
  BY <1>7, <1>8, <1>9 DEF new, moved

-----------------------------------------------------------------------------
(* Edits *)

\* Where an edit patches: an entry's lines, or the end of the text.
EditFirst(lines, edit) ==
  IF edit.kind = "append" THEN Len(lines) + 1 ELSE Sp!Start(lines, edit.where)
EditLimit(lines, edit) ==
  IF edit.kind = "append" THEN Len(lines) ELSE Sp!Limit(lines, edit.where)
EditEnd(lines, edit) ==
  IF edit.kind = "append" THEN Len(lines)
  ELSE Sp!ContentEnd(lines, Sp!Start(lines, edit.where), Sp!Limit(lines, edit.where))
EditBlock(edit) == IF edit.kind = "delete" THEN <<>> ELSE Sp!EntryBlock(edit.entry)

LEMMA CaseTypes ==
  ASSUME NEW c \in Sp!Case
  PROVE  /\ c.file.lines \in Seq(Sp!LineType) /\ c.file.flow \in BOOLEAN
         /\ Sp!IsYaml(c.file.lines) /\ \A i \in DOMAIN c.file.lines : c.file.lines[i].at = i
         /\ c.edit.kind \in {"replace", "delete", "append"} /\ c.edit.entry \in Sp!EntryType
         /\ c.edit.kind # "append" => c.edit.where \in 1 .. Sp!Cardinality(Sp!Heads(c.file.lines))
<1>1. c \in [file : Sp!File, edit : Sp!Edit]
  BY DEF Sp!Case
<1>2. c.file \in Sp!File /\ c.edit \in Sp!Edit
  BY <1>1
<1>3. c.edit.kind # "append" => c.edit.where \in 1 .. Sp!Cardinality(Sp!Heads(c.file.lines))
  BY DEF Sp!Case
<1>4. c.edit.kind \in {"replace", "delete", "append"} /\ c.edit.entry \in Sp!EntryType
  BY <1>2 DEF Sp!Edit
<1>5. c.file \in [lines : Seq(Sp!LineType), flow : BOOLEAN, starts : BOOLEAN, eol : BOOLEAN]
  BY <1>2 DEF Sp!File
<1>6. c.file.lines \in Seq(Sp!LineType) /\ c.file.flow \in BOOLEAN
  BY <1>5
<1>7. Sp!IsYaml(c.file.lines) /\ \A i \in DOMAIN c.file.lines : c.file.lines[i].at = i
  BY <1>2 DEF Sp!File
<1> QED
  BY <1>3, <1>4, <1>6, <1>7

\* Lines of no file.
Fresh(block) == \A i \in DOMAIN block : block[i].at = 0

\* The block of an entry: it begins with the entry's head and was in no file.
LEMMA BlockOfText ==
  ASSUME NEW c \in Sp!Content, NEW text \in Seq(Sp!LineType), Len(text) = 1 + Len(c),
         text[1].kind = "head", \A d \in 1 .. Len(c) : text[1 + d].kind = c[d],
         \A i \in DOMAIN text : text[i].at = 0,
         NEW end, end = Sp!ContentEnd(text, 1, Len(text)),
         NEW block, block = SubSeq(text, 1, end)
  PROVE  /\ block \in Seq(Sp!LineType) /\ OneEntry(block) /\ Len(block) > 0
         /\ Fresh(block)
         /\ (\A d \in DOMAIN c : c[d] # "hash") => block = text
<1>1. Len(c) \in Nat /\ DOMAIN c = 1 .. Len(c) /\ \A d \in 1 .. Len(c) : c[d] \in {"body", "bar", "hash"}
  <2>1. c \in Seq({"body", "bar", "hash"})
    BY DEF Sp!Content
  <2> QED
    BY <2>1
<1>2. 1 \in 1 .. Len(text) /\ Len(text) \in 1 .. Len(text) /\ Len(text) \in Nat /\ DOMAIN text = 1 .. Len(text)
  BY <1>1
<1>3. /\ end \in 0 .. Len(text) /\ end >= 1
      /\ \A i \in end + 1 .. Len(text) : i >= 1 => text[i].kind \in {"blank", "hash"}
  <2>1. /\ Sp!ContentEnd(text, 1, Len(text)) \in 1 - 1 .. Len(text)
        /\ \A i \in Sp!ContentEnd(text, 1, Len(text)) + 1 .. Len(text) :
             i >= 1 => text[i].kind \in {"blank", "hash"}
        /\ Sp!ContentEnd(text, 1, Len(text)) >= 1
    BY <1>2, ContentEndIs
  <2> QED
    BY <2>1
<1>4. /\ block \in Seq(Sp!LineType) /\ Len(block) = end /\ DOMAIN block = 1 .. end
      /\ \A i \in 1 .. end : block[i] = text[i]
  BY <1>2, <1>3
<1>5. ASSUME NEW i \in DOMAIN block PROVE (block[i].kind = "head" <=> i = 1) /\ block[i].at = 0
  <2>1. i \in 1 .. Len(text) /\ block[i] = text[i]
    BY <1>2, <1>3, <1>4
  <2>2. CASE i # 1
    <3>1. i - 1 \in 1 .. Len(c) /\ 1 + (i - 1) = i
      BY <1>1, <2>1, <2>2
    <3>2. text[i].kind = c[i - 1] /\ c[i - 1] # "head"
      BY <1>1, <3>1
    <3> QED
      BY <1>2, <2>1, <2>2, <3>2
  <2> QED
    BY <1>2, <2>1, <2>2
<1>6. ASSUME \A d \in DOMAIN c : c[d] # "hash" PROVE block = text
  <2>1. ~ end < Len(text)
    <3> SUFFICES ASSUME end < Len(text) PROVE FALSE
      OBVIOUS
    <3>1. text[Len(text)].kind \in {"blank", "hash"}
      BY <1>2, <1>3
    <3>2. Len(c) \in 1 .. Len(c) /\ 1 + Len(c) = Len(text)
      BY <1>1, <1>2, <1>3
    <3>3. text[Len(text)].kind = c[Len(c)] /\ c[Len(c)] \in {"body", "bar"}
      BY <1>1, <1>6, <3>2
    <3> QED
      BY <3>1, <3>3
  <2>2. end = Len(text)
    BY <1>2, <1>3, <2>1
  <2> QED
    BY <1>2, <1>4, <2>2
<1> QED
  BY <1>3, <1>4, <1>5, <1>6 DEF OneEntry, Fresh

LEMMA BlockIs ==
  ASSUME NEW e \in Sp!EntryType
  PROVE  LET block == Sp!EntryBlock(e)
         IN  /\ block \in Seq(Sp!LineType) /\ OneEntry(block) /\ Len(block) > 0
             /\ Fresh(block)
             /\ (\A d \in DOMAIN e.content : e.content[d] # "hash") => block = Sp!Emit(e)
<1>1. /\ Len(e.content) \in Nat /\ e.content \in Sp!Content
      /\ Sp!Emit(e) \in Seq(Sp!LineType) /\ Len(Sp!Emit(e)) = 1 + Len(e.content)
  BY EmitIs DEF Sp!EntryType
<1>2. Sp!Emit(e)[1].kind = "head" /\ Sp!Emit(e)[1].at = 0
  <2>1. Sp!Emit(e)[1] = Sp!Line("head", e.key, "", FALSE, 0)
    BY EmitIs
  <2>2. Sp!Line("head", e.key, "", FALSE, 0).kind = "head" /\ Sp!Line("head", e.key, "", FALSE, 0).at = 0
    BY DEF Sp!Line
  <2> QED
    BY <2>1, <2>2
<1>3. ASSUME NEW d \in 1 .. Len(e.content)
      PROVE  Sp!Emit(e)[1 + d].kind = e.content[d] /\ Sp!Emit(e)[1 + d].at = 0
  <2>1. Sp!Emit(e)[1 + d] = Sp!Line(e.content[d], 0, "", TRUE, 0)
    BY EmitIs
  <2>2. /\ Sp!Line(e.content[d], 0, "", TRUE, 0).kind = e.content[d]
        /\ Sp!Line(e.content[d], 0, "", TRUE, 0).at = 0
    BY DEF Sp!Line
  <2> QED
    BY <2>1, <2>2
<1>4. ASSUME NEW i \in DOMAIN Sp!Emit(e) PROVE Sp!Emit(e)[i].at = 0
  <2>1. i = 1 \/ (i - 1 \in 1 .. Len(e.content) /\ 1 + (i - 1) = i)
    BY <1>1
  <2> QED
    BY <1>2, <1>3, <2>1
<1>5. PICK c, text : c = e.content /\ text = Sp!Emit(e)
  OBVIOUS
<1>6. PICK end, block : end = Sp!ContentEnd(text, 1, Len(text)) /\ block = SubSeq(text, 1, end)
  OBVIOUS
<1>7. /\ c \in Sp!Content /\ text \in Seq(Sp!LineType) /\ Len(text) = 1 + Len(c) /\ text[1].kind = "head"
      /\ \A d \in 1 .. Len(c) : text[1 + d].kind = c[d]
      /\ \A i \in DOMAIN text : text[i].at = 0
  BY <1>1, <1>2, <1>3, <1>4, <1>5
<1>8. /\ block \in Seq(Sp!LineType) /\ OneEntry(block) /\ Len(block) > 0
      /\ Fresh(block)
      /\ (\A d \in DOMAIN c : c[d] # "hash") => block = text
  <2>1. block \in Seq(Sp!LineType)
    BY <1>6, <1>7, BlockOfText
  <2>2. OneEntry(block)
    BY <1>6, <1>7, BlockOfText
  <2>3. Len(block) > 0
    BY <1>6, <1>7, BlockOfText
  <2>4. Fresh(block)
    BY <1>6, <1>7, BlockOfText
  <2>5. (\A d \in DOMAIN c : c[d] # "hash") => block = text
    BY <1>6, <1>7, BlockOfText
  <2> QED
    BY <2>1, <2>2, <2>3, <2>4, <2>5
<1>9. Sp!EntryBlock(e) = block
  BY <1>5, <1>6 DEF Sp!EntryBlock
<1> QED
  BY <1>5, <1>8, <1>9

LEMMA EditFits ==
  ASSUME NEW c \in Sp!Case
  PROVE  LET lines == c.file.lines
             first == EditFirst(lines, c.edit)
             end == EditEnd(lines, c.edit)
             block == EditBlock(c.edit)
         IN  /\ Sp!Spliced(c.file, c.edit) = Patch(lines, first, end, block)
             /\ Fits(lines, first, end, EditLimit(lines, c.edit))
             /\ block \in Seq(Sp!LineType) /\ OneEntry(block)
             /\ Fresh(block)
<1> DEFINE lines == c.file.lines
           edit == c.edit
           first == EditFirst(lines, edit)
           end == EditEnd(lines, edit)
           limit == EditLimit(lines, edit)
           block == EditBlock(edit)
<1>1. /\ lines \in Seq(Sp!LineType) /\ edit.entry \in Sp!EntryType
      /\ edit.kind # "append" => edit.where \in 1 .. Sp!Cardinality(Sp!Heads(lines))
  BY CaseTypes
<1>2. Len(lines) \in Nat
  BY <1>1, SplDomain
<1>3. /\ block \in Seq(Sp!LineType) /\ OneEntry(block)
      /\ Fresh(block)
  <2>1. <<>> \in Seq(Sp!LineType) /\ OneEntry(<<>>) /\ Fresh(<<>>)
    BY DEF OneEntry, Fresh
  <2> QED
    BY <1>1, <2>1, BlockIs DEF EditBlock
<1>4. CASE edit.kind = "append"
  <2>1. first = Len(lines) + 1 /\ end = Len(lines) /\ limit = Len(lines)
    BY <1>4 DEF EditFirst, EditEnd, EditLimit
  <2>2. Fits(lines, first, end, limit)
    BY <1>2, <2>1 DEF Fits
  <2>3. Sp!Spliced(c.file, edit) = lines \o block
    BY <1>4 DEF Sp!Spliced, Sp!AppendTo, EditBlock
  <2>4. Patch(lines, first, end, block) = lines \o block
    <3>1. SubSeq(lines, 1, Len(lines)) = lines /\ SubSeq(lines, Len(lines) + 1, Len(lines)) = <<>>
      BY <1>1, <1>2
    <3>2. lines \o block \in Seq(Sp!LineType)
      BY <1>1, <1>3
    <3>3. (lines \o block) \o <<>> = lines \o block
      BY <3>2
    <3> QED
      <4>1. first - 1 = Len(lines)
        BY <1>2, <2>1
      <4>2. Patch(lines, first, end, block) = (SubSeq(lines, 1, first - 1) \o block) \o SubSeq(lines, end + 1, Len(lines))
        BY DEF Patch
      <4> HIDE DEF first, end, block, lines
      <4> QED
        BY <2>1, <3>1, <3>3, <4>1, <4>2
  <2> QED
    BY <1>3, <2>2, <2>3, <2>4
<1>5. CASE edit.kind # "append"
  <2>1. first = Sp!Start(lines, edit.where) /\ limit = Sp!Limit(lines, edit.where)
    BY <1>5 DEF EditFirst, EditLimit
  <2>2. end = Sp!ContentEnd(lines, first, limit)
    BY <1>5 DEF EditFirst, EditLimit, EditEnd
  <2>3. Sp!Spliced(c.file, edit) = Patch(lines, first, end, block)
    BY <1>5, <2>1, <2>2 DEF Sp!Spliced, Patch, EditBlock
  <2> HIDE DEF first, limit, end, lines
  <2>4. /\ first \in 1 .. Len(lines) /\ lines[first].kind = "head" /\ limit \in first .. Len(lines)
        /\ \A i \in first + 1 .. limit : lines[i].kind # "head"
        /\ limit < Len(lines) => limit + 1 \in Sp!Heads(lines)
    BY <1>1, <1>5, <2>1, StartIs
  <2>5. /\ end \in first - 1 .. limit /\ end >= first
        /\ \A i \in end + 1 .. limit : i >= first => lines[i].kind \in {"blank", "hash"}
    BY <1>1, <2>2, <2>4, ContentEndIs
  <2>6. limit < Len(lines) => lines[limit + 1].kind = "head"
    BY <2>4 DEF Sp!Heads
  <2>7. Fits(lines, first, end, limit)
    BY <1>2, <2>4, <2>5, <2>6 DEF Fits
  <2> QED
    BY <1>3, <2>3, <2>7 DEF first, limit, end, lines
<1> QED
  BY <1>4, <1>5

EntryAt(lines, h) == [key |-> lines[h].key, content |-> Sp!ContentOf(lines, h)]

NoRefs(lines) == \A i \in DOMAIN lines : lines[i].ref = ""

\* Without an alias, every entry says what lies under its own head.
LEMMA PlainParse ==
  ASSUME NEW lines \in Seq(Sp!LineType), NoRefs(lines), NEW m, NEW s, Lists(s, m, Sp!Heads(lines))
  PROVE  Sp!Parse(lines) = [n \in 1 .. m |-> EntryAt(lines, s[n])]
<1>1. Sp!Heads(lines) \in SUBSET Nat
  BY HeadsListed
<1>2. ASSUME NEW n \in 1 .. m
      PROVE  EntryAt(lines, s[n]) =
               [key |-> lines[s[n]].key,
                content |-> Sp!ContentOf(lines, IF lines[s[n]].ref = "use"
                                                THEN Sp!Max(Sp!Anchors(lines, s[n])) ELSE s[n])]
  <2>1. s[n] \in Sp!Heads(lines)
    BY DEF Lists
  <2>2. lines[s[n]].ref = ""
    BY <2>1 DEF Sp!Heads, NoRefs
  <2> QED
    BY <2>2 DEF EntryAt
<1> QED
  <2>1. Sp!Parse(lines) =
          [n \in 1 .. m |->
             [key |-> lines[s[n]].key,
              content |-> Sp!ContentOf(lines, IF lines[s[n]].ref = "use"
                                              THEN Sp!Max(Sp!Anchors(lines, s[n])) ELSE s[n])]]
    BY <1>1, ParseIs
  <2> QED
    BY <1>2, <2>1

\* Which of m entries a patch keeps: the first p, and those after the next q; b, 0 or 1,
\* is how many it puts between.
Cut(lines, first, limit, m, s, p, q) ==
  /\ Lists(s, m, Sp!Heads(lines)) /\ p \in Nat /\ q \in Nat /\ p + q <= m
  /\ \A n \in 1 .. m : n <= p => s[n] < first
  /\ \A n \in 1 .. m : n > p => s[n] >= first
  /\ \A n \in 1 .. m : n <= p + q => s[n] <= limit
  /\ \A n \in 1 .. m : n > p + q => s[n] > limit

LEMMA PatchedList ==
  ASSUME NEW lines \in Seq(Sp!LineType), NEW block \in Seq(Sp!LineType), OneEntry(block),
         NEW first, NEW end, NEW limit, Fits(lines, first, end, limit),
         NEW m, NEW s, NEW p, NEW q, Cut(lines, first, limit, m, s, p, q),
         NEW b, b = IF Len(block) > 0 THEN 1 ELSE 0,
         NEW moved, moved = Moved(first, end, block)
  PROVE  Lists([n \in 1 .. m + b - q |->
                  IF n <= p THEN s[n] ELSE IF n <= p + b THEN first ELSE s[n - b + q] + moved],
               m + b - q, Sp!Heads(Patch(lines, first, end, block)))
<1> DEFINE H == Sp!Heads(Patch(lines, first, end, block))
           t == [n \in 1 .. m + b - q |->
                  IF n <= p THEN s[n] ELSE IF n <= p + b THEN first ELSE s[n - b + q] + moved]
<1> HIDE DEF H
<1>1. \A x : x \in H <=> \/ x \in Sp!Heads(lines) /\ x < first
                         \/ x = first /\ Len(block) > 0
                         \/ \E h \in Sp!Heads(lines) : h > limit /\ x = h + moved
  BY PatchedHeads DEF H
<1>2. /\ m \in Nat /\ p \in Nat /\ q \in Nat /\ p + q <= m
      /\ \A n \in 1 .. m : s[n] \in Sp!Heads(lines)
      /\ \A i, j \in 1 .. m : i < j => s[i] < s[j]
      /\ \A x \in Sp!Heads(lines) : \E i \in 1 .. m : s[i] = x
  BY DEF Cut, Lists
<1>3. Sp!Heads(lines) \in SUBSET Nat
  BY HeadsListed
<1>4. /\ \A n \in 1 .. m : n <= p => s[n] < first
      /\ \A n \in 1 .. m : n > p => s[n] >= first
      /\ \A n \in 1 .. m : n <= p + q => s[n] <= limit
      /\ \A n \in 1 .. m : n > p + q => s[n] > limit
  BY DEF Cut
<1>5. /\ first \in Nat /\ end \in Nat /\ limit \in Nat /\ Len(block) \in Nat /\ moved \in Int
      /\ moved = first + Len(block) - (end + 1) /\ limit >= end
  <2>1. Len(lines) \in Nat /\ Len(block) \in Nat
    BY SplDomain
  <2>2. first \in Nat /\ end \in Nat /\ limit \in Nat /\ limit >= end
    BY <2>1 DEF Fits
  <2> QED
    BY <2>1, <2>2 DEF Moved
<1>6. b \in {0, 1} /\ (b = 1 <=> Len(block) > 0)
  BY <1>5
<1>7. m + b - q \in Nat
  BY <1>2, <1>6
<1>8. ASSUME NEW n \in 1 .. m + b - q, n > p + b
      PROVE  n - b + q \in 1 .. m /\ n - b + q > p + q /\ s[n - b + q] > limit
  <2>1. n - b + q \in 1 .. m /\ n - b + q > p + q
    BY <1>2, <1>6, <1>8
  <2> QED
    BY <1>4, <2>1
<1>9. ASSUME NEW n \in 1 .. m + b - q PROVE t[n] \in H
  <2>1. CASE n <= p
    <3>1. n \in 1 .. m
      BY <1>2, <2>1
    <3> QED
      BY <1>1, <1>2, <1>4, <2>1, <3>1
  <2>2. CASE n > p /\ n <= p + b
    <3>1. b = 1 /\ t[n] = first
      BY <1>2, <1>6, <2>2
    <3> QED
      BY <1>1, <1>6, <3>1
  <2>3. CASE n > p + b
    <3>1. t[n] = s[n - b + q] + moved
      BY <1>2, <1>6, <2>3
    <3>2. s[n - b + q] \in Sp!Heads(lines) /\ s[n - b + q] > limit
      BY <1>2, <1>8, <2>3
    <3> QED
      BY <1>1, <3>1, <3>2
  <2> QED
    BY <1>2, <1>6, <2>1, <2>2, <2>3
<1>10. ASSUME NEW i \in 1 .. m + b - q, NEW j \in 1 .. m + b - q, i < j PROVE t[i] < t[j]
  <2>1. CASE j <= p
    <3>1. i \in 1 .. m /\ j \in 1 .. m /\ i <= p
      BY <1>2, <1>10, <2>1
    <3>2. t[i] = s[i] /\ t[j] = s[j]
      BY <2>1, <3>1
    <3> HIDE DEF t
    <3> QED
      BY <1>2, <1>10, <3>1, <3>2
  <2>2. CASE j > p /\ j <= p + b
    <3>1. i <= p /\ i \in 1 .. m
      BY <1>2, <1>6, <1>10, <2>2
    <3>2. t[i] = s[i] /\ t[j] = first /\ s[i] < first
      <4>1. t[i] = s[i] /\ s[i] < first
        BY <1>4, <3>1
      <4>2. ~ j <= p
        BY <1>2, <2>2
      <4> QED
        BY <2>2, <4>1, <4>2
    <3> HIDE DEF t
    <3> QED
      BY <3>2
  <2>3. CASE j > p + b
    <3> DEFINE k == s[j - b + q]
    <3>1. t[j] = k + moved /\ k \in Nat /\ k > limit /\ j - b + q \in 1 .. m
      <4>1. j - b + q \in 1 .. m /\ k > limit
        BY <1>8, <2>3
      <4>2. k \in Nat
        BY <1>2, <1>3, <4>1
      <4>3. t[j] = k + moved
        BY <1>2, <1>6, <2>3
      <4> QED
        BY <4>1, <4>2, <4>3
    <3>2. CASE i <= p
      <4>1. i \in 1 .. m
        BY <1>2, <3>2
      <4>2. t[i] = s[i] /\ s[i] < first /\ s[i] \in Nat
        BY <1>2, <1>3, <1>4, <3>2, <4>1
      <4> HIDE DEF t, k
      <4>3. k + moved >= first
        BY <1>5, <3>1
      <4>4. k + moved \in Int
        BY <1>5, <3>1
      <4> QED
        BY <1>5, <3>1, <4>2, <4>3, <4>4
    <3>3. CASE i > p /\ i <= p + b
      <4>1. b = 1 /\ t[i] = first
        BY <1>2, <1>6, <3>3
      <4> HIDE DEF t, k
      <4> QED
        BY <1>5, <1>6, <3>1, <4>1
    <3>4. CASE i > p + b
      <4> DEFINE l == s[i - b + q]
      <4>1. i - b + q \in 1 .. m /\ i - b + q < j - b + q
        BY <1>2, <1>6, <1>8, <1>10, <3>4
      <4>2. t[i] = l + moved
        BY <1>2, <1>6, <3>4
      <4>3. l < k /\ l \in Nat
        BY <1>2, <1>3, <3>1, <4>1
      <4> HIDE DEF t, k, l
      <4> QED
        BY <1>5, <3>1, <4>2, <4>3
    <3> HIDE DEF k, t
    <3> QED
      BY <1>2, <1>6, <3>2, <3>3, <3>4
  <2> HIDE DEF t
  <2> QED
    BY <1>2, <1>6, <2>1, <2>2, <2>3
<1>11. ASSUME NEW x \in H PROVE \E n \in 1 .. m + b - q : t[n] = x
  <2>1. CASE x \in Sp!Heads(lines) /\ x < first
    <3>1. PICK n \in 1 .. m : s[n] = x
      BY <1>2, <2>1
    <3>2. n <= p
      BY <1>2, <1>3, <1>4, <1>5, <2>1, <3>1
    <3>3. n \in 1 .. m + b - q /\ t[n] = x
      BY <1>2, <1>6, <3>1, <3>2
    <3> QED
      BY <3>3
  <2>2. CASE x = first /\ Len(block) > 0
    <3>1. b = 1 /\ p + 1 \in 1 .. m + b - q
      BY <1>2, <1>6, <2>2
    <3>2. t[p + 1] = first
      BY <1>2, <3>1
    <3> QED
      BY <2>2, <3>1, <3>2
  <2>3. ASSUME NEW h \in Sp!Heads(lines), h > limit, x = h + moved
        PROVE  \E n \in 1 .. m + b - q : t[n] = x
    <3>1. PICK n \in 1 .. m : s[n] = h
      BY <1>2
    <3>2. n > p + q
      BY <1>2, <1>3, <1>4, <1>5, <2>3, <3>1
    <3>3. n + b - q \in 1 .. m + b - q /\ n + b - q > p + b /\ (n + b - q) - b + q = n
      BY <1>2, <1>6, <3>1, <3>2
    <3>4. ~ (n + b - q <= p) /\ ~ (n + b - q <= p + b)
      BY <1>2, <1>6, <3>2
    <3>5. t[n + b - q] = s[n] + moved
      BY <3>3, <3>4
    <3> QED
      BY <2>3, <3>1, <3>3, <3>5
  <2> QED
    BY <1>1, <2>1, <2>2, <2>3
<1>12. t \in [1 .. m + b - q -> H]
  BY <1>9
<1> HIDE DEF t
<1>13. Lists(t, m + b - q, H)
  BY <1>7, <1>10, <1>11, <1>12 DEF Lists
<1> QED
  BY <1>13 DEF t, H

\* An entry that holds no hash is emitted as plain lines.
LEMMA EmitPlain ==
  ASSUME NEW e \in Sp!EntryType, \A d \in DOMAIN e.content : e.content[d] # "hash"
  PROVE  /\ Plain(Sp!Emit(e)) /\ OneEntry(Sp!Emit(e))
         /\ Sp!Emit(e)[1].key = e.key
         /\ \A d \in 1 .. Len(e.content) : Sp!Emit(e)[1 + d].kind = e.content[d]
<1>1. /\ Len(e.content) \in Nat /\ DOMAIN e.content = 1 .. Len(e.content)
      /\ Sp!Emit(e) \in Seq(Sp!LineType) /\ Len(Sp!Emit(e)) = 1 + Len(e.content)
      /\ \A d \in 1 .. Len(e.content) : e.content[d] \in {"body", "bar", "hash"}
  BY EmitIs
<1>2. Sp!Emit(e)[1].kind = "head" /\ Sp!Emit(e)[1].key = e.key /\ Sp!Emit(e)[1].ref = ""
  <2>1. Sp!Emit(e)[1] = Sp!Line("head", e.key, "", FALSE, 0)
    BY EmitIs
  <2>2. /\ Sp!Line("head", e.key, "", FALSE, 0).kind = "head"
        /\ Sp!Line("head", e.key, "", FALSE, 0).key = e.key
        /\ Sp!Line("head", e.key, "", FALSE, 0).ref = ""
    BY DEF Sp!Line
  <2> QED
    BY <2>1, <2>2
<1>3. ASSUME NEW d \in 1 .. Len(e.content)
      PROVE  Sp!Emit(e)[1 + d].kind = e.content[d] /\ Sp!Emit(e)[1 + d].ref = ""
  <2>1. Sp!Emit(e)[1 + d] = Sp!Line(e.content[d], 0, "", TRUE, 0)
    BY EmitIs
  <2>2. /\ Sp!Line(e.content[d], 0, "", TRUE, 0).kind = e.content[d]
        /\ Sp!Line(e.content[d], 0, "", TRUE, 0).ref = ""
    BY DEF Sp!Line
  <2> QED
    BY <2>1, <2>2
<1>4. ASSUME NEW i \in DOMAIN Sp!Emit(e)
      PROVE  /\ Sp!Emit(e)[i].ref = "" /\ Sp!Emit(e)[i].kind # "hash"
             /\ Sp!Emit(e)[i].kind = "head" <=> i = 1
  <2>1. CASE i = 1
    BY <1>2, <2>1
  <2>2. CASE i # 1
    <3>1. i - 1 \in 1 .. Len(e.content) /\ 1 + (i - 1) = i
      BY <1>1, <2>2
    <3>2. e.content[i - 1] \in {"body", "bar"}
      BY <1>1, <3>1
    <3>3. Sp!Emit(e)[i].kind = e.content[i - 1] /\ Sp!Emit(e)[i].ref = ""
      BY <1>3, <3>1
    <3> QED
      BY <2>2, <3>2, <3>3
  <2> QED
    BY <2>1, <2>2
<1> QED
  BY <1>2, <1>3, <1>4 DEF Plain, OneEntry

\* A patched plain text parses to the entries that are kept, with the new one between.
LEMMA PatchedParse ==
  ASSUME NEW lines \in Seq(Sp!LineType), NEW block \in Seq(Sp!LineType), Plain(lines),
         NEW e \in Sp!EntryType, \A d \in DOMAIN e.content : e.content[d] # "hash",
         block = Sp!Emit(e) \/ block = <<>>,
         NEW first, NEW end, NEW limit, Fits(lines, first, end, limit),
         NEW m, NEW s, NEW p, NEW q, Cut(lines, first, limit, m, s, p, q),
         NEW b, b = IF Len(block) > 0 THEN 1 ELSE 0
  PROVE  LET new == Patch(lines, first, end, block)
             old == Sp!Parse(lines)
         IN  /\ new \in Seq(Sp!LineType) /\ Plain(new) /\ m + b - q \in Nat
             /\ Sp!Parse(new) = [n \in 1 .. m + b - q |->
                                   IF n <= p THEN old[n] ELSE IF n <= p + b THEN e ELSE old[n - b + q]]
             /\ m + b - q > 0 => Sp!Heads(new) # {}
<1> DEFINE new == Patch(lines, first, end, block)
           moved == Moved(first, end, block)
           old == Sp!Parse(lines)
           t == [n \in 1 .. m + b - q |->
                  IF n <= p THEN s[n] ELSE IF n <= p + b THEN first ELSE s[n - b + q] + moved]
<1>1. Plain(block) /\ OneEntry(block)
  <2>1. Plain(<<>>) /\ OneEntry(<<>>)
    <3>1. DOMAIN << >> = {}
      OBVIOUS
    <3> QED
      BY <3>1, Zenon DEF Plain, OneEntry
  <2> QED
    BY <2>1, EmitPlain
<1>2. new \in Seq(Sp!LineType) /\ Plain(new)
  <2>1. Stitched(new, lines, block, first, end, moved)
    BY PatchLines
  <2> QED
    BY <1>1, <2>1, PatchedPlain DEF Stitched
<1>3. Lists(t, m + b - q, Sp!Heads(new))
  BY <1>1, PatchedList
<1>4. /\ m \in Nat /\ p \in Nat /\ q \in Nat /\ p + q <= m
      /\ \A n \in 1 .. m : s[n] \in Sp!Heads(lines)
      /\ \A n \in 1 .. m : n <= p => s[n] < first
      /\ \A n \in 1 .. m : n > p + q => s[n] > limit
  BY DEF Cut, Lists
<1>5. b \in {0, 1} /\ (b = 1 => Len(block) > 0)
  OBVIOUS
<1>6. old = [n \in 1 .. m |-> EntryAt(lines, s[n])]
  <2>1. NoRefs(lines) /\ Lists(s, m, Sp!Heads(lines))
    BY DEF Cut, Plain, NoRefs
  <2> QED
    BY <2>1, PlainParse
<1>7. /\ \A h \in Sp!Heads(lines) : h < first =>
           new[h] = lines[h] /\ Sp!ContentOf(new, h) = Sp!ContentOf(lines, h)
      /\ \A h \in Sp!Heads(lines) : h > limit =>
           new[h + moved] = lines[h] /\ Sp!ContentOf(new, h + moved) = Sp!ContentOf(lines, h)
      /\ \A c \in Sp!Content :
           /\ Len(block) = 1 + Len(c)
           /\ \A d \in 1 .. Len(c) : block[1 + d].kind = c[d] /\ c[d] # "hash"
           => new[first] = block[1] /\ Sp!ContentOf(new, first) = c
  BY <1>1, PatchedContents
<1> HIDE DEF new, moved, old
<1>8. b = 1 => EntryAt(new, first) = e
  <2> SUFFICES ASSUME b = 1 PROVE EntryAt(new, first) = e
    OBVIOUS
  <2>1. block = Sp!Emit(e)
    BY <1>5
  <2>2. e.content \in Sp!Content /\ e = [key |-> e.key, content |-> e.content]
    BY DEF Sp!EntryType
  <2>3. Len(e.content) \in Nat /\ DOMAIN e.content = 1 .. Len(e.content) /\ Len(block) = 1 + Len(e.content)
    BY <2>1, EmitIs
  <2>4. block[1].key = e.key /\ \A d \in 1 .. Len(e.content) : block[1 + d].kind = e.content[d]
    BY <2>1, EmitPlain
  <2>5. new[first] = block[1] /\ Sp!ContentOf(new, first) = e.content
    BY <1>7, <2>2, <2>3, <2>4
  <2> QED
    BY <2>2, <2>4, <2>5 DEF EntryAt
<1>9. ASSUME NEW n \in 1 .. m + b - q
      PROVE  EntryAt(new, t[n]) = IF n <= p THEN old[n] ELSE IF n <= p + b THEN e ELSE old[n - b + q]
  <2>1. CASE n <= p
    <3>1. n \in 1 .. m /\ t[n] = s[n]
      BY <1>4, <2>1
    <3>2. s[n] \in Sp!Heads(lines) /\ s[n] < first
      BY <1>4, <2>1, <3>1
    <3>3. EntryAt(new, s[n]) = EntryAt(lines, s[n])
      BY <1>7, <3>2 DEF EntryAt
    <3> QED
      BY <1>6, <2>1, <3>1, <3>3
  <2>2. CASE n > p /\ n <= p + b
    <3>1. b = 1 /\ ~ n <= p
      BY <1>4, <1>5, <2>2
    <3>2. t[n] = first
      BY <2>2, <3>1
    <3> QED
      BY <1>8, <2>2, <3>1, <3>2
  <2>3. CASE n > p + b
    <3> DEFINE k == n - b + q
    <3>1. k \in 1 .. m /\ k > p + q /\ ~ n <= p /\ ~ n <= p + b
      BY <1>4, <1>5, <2>3
    <3>2. t[n] = s[k] + moved
      BY <3>1
    <3>3. s[k] \in Sp!Heads(lines) /\ s[k] > limit
      BY <1>4, <3>1
    <3>4. EntryAt(new, s[k] + moved) = EntryAt(lines, s[k])
      BY <1>7, <3>3 DEF EntryAt
    <3>5. old[k] = EntryAt(lines, s[k])
      BY <1>6, <3>1
    <3> QED
      BY <3>1, <3>2, <3>4, <3>5
  <2> QED
    BY <1>4, <1>5, <2>1, <2>2, <2>3
<1>10. Sp!Parse(new) = [n \in 1 .. m + b - q |-> EntryAt(new, t[n])]
  <2> HIDE DEF t
  <2> QED
    <3>1. NoRefs(new)
      BY <1>2 DEF Plain, NoRefs
    <3> QED
      BY <1>2, <1>3, <3>1, PlainParse
<1>11. m + b - q \in Nat
  BY <1>4, <1>5
<1>12. m + b - q > 0 => Sp!Heads(new) # {}
  <2> SUFFICES ASSUME m + b - q > 0 PROVE Sp!Heads(new) # {}
    OBVIOUS
  <2>1. 1 \in 1 .. m + b - q
    BY <1>11
  <2>2. t[1] \in Sp!Heads(new)
    BY <1>3, <2>1 DEF Lists
  <2> QED
    BY <2>2
<1> HIDE DEF t
<1> QED
  BY <1>2, <1>9, <1>10, <1>11, <1>12 DEF new, old

\* A patched plain text is YAML.
LEMMA PatchedYaml ==
  ASSUME NEW lines \in Seq(Sp!LineType), NEW block \in Seq(Sp!LineType), Plain(lines), Plain(block),
         Sp!IsYaml(lines), OneEntry(block),
         NEW first, NEW end, NEW limit, Fits(lines, first, end, limit)
  PROVE  Sp!IsYaml(Patch(lines, first, end, block))
<1> DEFINE new == Patch(lines, first, end, block)
           moved == Moved(first, end, block)
<1>1. Stitched(new, lines, block, first, end, moved) /\ Plain(new)
  BY PatchLines, PatchedPlain
<1>2. /\ \A h \in Sp!Heads(lines) : h < first => h \in Sp!Heads(new)
      /\ Len(block) > 0 => first \in Sp!Heads(new)
      /\ \A h \in Sp!Heads(lines) : h > limit => h + moved \in Sp!Heads(new)
  BY PatchedHeads
<1> HIDE DEF new, moved
<1>3. /\ first \in Nat /\ end \in Nat /\ moved \in Int /\ Len(block) \in Nat
      /\ Len(lines) \in Nat /\ DOMAIN lines = 1 .. Len(lines) /\ DOMAIN block = 1 .. Len(block)
      /\ DOMAIN new = 1 .. Len(lines) + moved
      /\ \A i \in 1 .. first - 1 : i \in DOMAIN lines /\ i \in DOMAIN new /\ new[i] = lines[i]
      /\ \A i \in 1 .. Len(block) : first - 1 + i \in DOMAIN new /\ new[first - 1 + i] = block[i]
      /\ \A i \in end + 1 .. Len(lines) : i + moved \in DOMAIN new /\ new[i + moved] = lines[i]
      /\ \A y \in DOMAIN new :
           \/ y \in 1 .. first - 1
           \/ y - (first - 1) \in 1 .. Len(block)
           \/ y - moved \in end + 1 .. Len(lines)
  BY <1>1, SplDomain DEF Stitched
<1>4. /\ limit \in Nat /\ limit >= end /\ limit <= Len(lines)
      /\ \A i \in end + 1 .. limit : lines[i].kind \in {"blank", "hash"}
      /\ limit < Len(lines) => lines[limit + 1].kind = "head"
  BY <1>3 DEF Fits
<1>5. ASSUME NEW i \in DOMAIN new, Sp!IsContent(new, i) PROVE \E h \in Sp!Heads(new) : h < i
  <2>1. new[i].kind \in {"body", "bar"} /\ i \in Int
    <3>1. new[i].kind = "hash" => ~new[i].deep
      BY <1>1 DEF Plain
    <3>2. new[i].kind \in {"body", "bar"}
      BY <1>5, <3>1 DEF Sp!IsContent
    <3> QED
      BY <1>3, <3>2
  <2>2. CASE i \in 1 .. first - 1
    <3>1. i \in DOMAIN lines /\ Sp!IsContent(lines, i)
      BY <1>3, <2>1, <2>2 DEF Sp!IsContent
    <3>2. PICK h \in Sp!Heads(lines) : h < i
      BY <3>1 DEF Sp!IsYaml
    <3>3. h < first
      BY <1>3, <2>2, <3>2 DEF Sp!Heads
    <3> QED
      BY <1>2, <3>2, <3>3
  <2>3. CASE i - (first - 1) \in 1 .. Len(block)
    <3> DEFINE k == i - (first - 1)
    <3>1. first - 1 + k = i
      BY <1>3, <2>1
    <3>2. block[k] = new[i]
      BY <1>3, <2>3, <3>1
    <3>3. k # 1
      BY <1>3, <2>1, <2>3, <3>2 DEF OneEntry
    <3>4. first < i /\ Len(block) > 0
      BY <1>3, <2>1, <2>3, <3>3
    <3> QED
      BY <1>2, <3>4
  <2>4. CASE i - moved \in end + 1 .. Len(lines)
    <3> DEFINE k == i - moved
    <3>1. k + moved = i /\ k \in Int
      BY <1>3, <2>1
    <3>2. new[i] = lines[k] /\ k \in end + 1 .. Len(lines)
      BY <1>3, <2>4, <3>1
    <3>3. k > limit
      <4>1. lines[k].kind \notin {"blank", "hash"}
        BY <2>1, <3>2
      <4> HIDE DEF k
      <4> QED
        BY <1>3, <1>4, <3>1, <3>2, <4>1
    <3>4. limit < Len(lines) /\ limit + 1 \in DOMAIN lines /\ k # limit + 1
      BY <1>3, <1>4, <2>1, <2>4, <3>2, <3>3
    <3>5. limit + 1 \in Sp!Heads(lines) /\ limit + 1 > limit
      BY <1>4, <3>4 DEF Sp!Heads
    <3>6. limit + 1 + moved \in Sp!Heads(new)
      BY <1>2, <3>5
    <3>7. limit + 1 + moved < i
      BY <1>3, <1>4, <2>1, <3>3, <3>4
    <3> QED
      BY <3>6, <3>7
  <2> QED
    BY <1>3, <2>2, <2>3, <2>4
<1>6. \A h \in Sp!Heads(new) : new[h].ref = ""
  BY <1>1 DEF Plain, Sp!Heads
<1> QED
  BY <1>5, <1>6 DEF Sp!IsYaml, new

LEMMA SubSeqIs ==
  ASSUME NEW S, NEW s \in Seq(S), NEW i \in 1 .. Len(s) + 1, NEW j \in i - 1 .. Len(s)
  PROVE  /\ SubSeq(s, i, j) \in Seq(S) /\ Len(SubSeq(s, i, j)) = j - i + 1
         /\ \A n \in 1 .. j - i + 1 : SubSeq(s, i, j)[n] = s[i - 1 + n]
OBVIOUS

LEMMA RemoveAtIs ==
  ASSUME NEW S, NEW s \in Seq(S), NEW w \in 1 .. Len(s)
  PROVE  Sp!RemoveAt(s, w) = [n \in 1 .. Len(s) - 1 |-> IF n <= w - 1 THEN s[n] ELSE s[n + 1]]
<1> DEFINE m == Len(s)
           a == SubSeq(s, 1, w - 1)
           c == SubSeq(s, w + 1, m)
<1>1. m \in Nat /\ w \in 1 .. m
  OBVIOUS
<1>2. a \in Seq(S) /\ Len(a) = w - 1 /\ \A n \in 1 .. w - 1 : a[n] = s[n]
  BY <1>1, SubSeqIs
<1>3. c \in Seq(S) /\ Len(c) = m - w /\ \A n \in 1 .. m - w : c[n] = s[w + n]
  BY <1>1, SubSeqIs
<1>4. Sp!RemoveAt(s, w) = a \o c
  BY DEF Sp!RemoveAt
<1> HIDE DEF a, c, m
<1>5. /\ a \o c \in Seq(S) /\ Len(a \o c) = Len(a) + Len(c)
      /\ \A i \in 1 .. Len(a) : (a \o c)[i] = a[i]
      /\ \A i \in 1 .. Len(c) : (a \o c)[Len(a) + i] = c[i]
  <2>1. \A x, y \in Seq(S) :
          /\ x \o y \in Seq(S) /\ Len(x \o y) = Len(x) + Len(y)
          /\ \A i \in 1 .. Len(x) : (x \o y)[i] = x[i]
          /\ \A i \in 1 .. Len(y) : (x \o y)[Len(x) + i] = y[i]
    BY Concatenated
  <2> QED
    BY <1>2, <1>3, <2>1
<1> DEFINE r == a \o c
<1>6. /\ r \in Seq(S) /\ Len(r) = m - 1
      /\ \A i \in 1 .. w - 1 : r[i] = a[i]
      /\ \A i \in 1 .. m - w : r[w - 1 + i] = c[i]
  BY <1>1, <1>2, <1>3, <1>5
<1> HIDE DEF r
<1>7. ASSUME NEW n \in 1 .. m - 1 PROVE r[n] = IF n <= w - 1 THEN s[n] ELSE s[n + 1]
  <2>1. CASE n <= w - 1
    BY <1>1, <1>2, <1>6, <2>1
  <2>2. CASE n > w - 1
    <3>1. n - (w - 1) \in 1 .. m - w /\ w + (n - (w - 1)) = n + 1 /\ (w - 1) + (n - (w - 1)) = n
      BY <1>1, <2>2
    <3>2. r[n] = c[n - (w - 1)]
      BY <1>6, <3>1
    <3>3. c[n - (w - 1)] = s[n + 1]
      BY <1>3, <3>1
    <3> QED
      BY <1>1, <2>2, <3>2, <3>3
  <2> QED
    BY <1>1, <2>1, <2>2
<1>8. r = [n \in 1 .. m - 1 |-> IF n <= w - 1 THEN s[n] ELSE s[n + 1]]
  <2>1. r = [n \in 1 .. m - 1 |-> r[n]]
    BY <1>1, <1>6
  <2> QED
    BY <1>7, <2>1
<1> QED
  BY <1>4, <1>8 DEF m, r

\* Entries with e, or nothing, in place of the q that follow the first p.
Inserted(old, e, p, q, b) ==
  [n \in 1 .. Len(old) + b - q |->
     IF n <= p THEN old[n] ELSE IF n <= p + b THEN e ELSE old[n - b + q]]

\* What an edit does to a sequence of entries.
LEMMA EditedIs ==
  ASSUME NEW old \in Seq(Sp!EntryType), NEW edit, edit.entry \in Sp!EntryType,
         edit.kind \in {"replace", "delete", "append"},
         edit.kind # "append" => edit.where \in 1 .. Len(old),
         NEW p, p = IF edit.kind = "append" THEN Len(old) ELSE edit.where - 1,
         NEW q, q = IF edit.kind = "append" THEN 0 ELSE 1,
         NEW b, b = IF edit.kind = "delete" THEN 0 ELSE 1
  PROVE  /\ Sp!Edited(old, edit) = Inserted(old, edit.entry, p, q, b)
         /\ Len(old) + b - q \in Nat /\ p \in Nat /\ p + q <= Len(old)
<1> DEFINE m == Len(old)
           e == edit.entry
           w == edit.where
           new == [n \in 1 .. m + b - q |->
                     IF n <= p THEN old[n] ELSE IF n <= p + b THEN e ELSE old[n - b + q]]
<1>1. m \in Nat /\ DOMAIN old = 1 .. m
  OBVIOUS
<1> HIDE DEF m
<1>2. ASSUME edit.kind = "append" PROVE Sp!Edited(old, edit) = new /\ m + b - q \in Nat /\ p \in Nat /\ p + q <= m
  <2>1. Sp!Edited(old, edit) = Append(old, e)
    BY <1>2 DEF Sp!Edited
  <2>2. Append(old, e) = [n \in 1 .. m + 1 |-> IF n <= m THEN old[n] ELSE e]
    BY <1>1 DEF m
  <2>3. p = m /\ q = 0 /\ b = 1 /\ m + b - q = m + 1
    BY <1>1, <1>2 DEF m
  <2>4. ASSUME NEW n \in 1 .. m + 1
        PROVE  (IF n <= m THEN old[n] ELSE e)
                 = (IF n <= p THEN old[n] ELSE IF n <= p + b THEN e ELSE old[n - b + q])
    BY <1>1, <2>3
  <2>5. Sp!Edited(old, edit) = new
    BY <2>1, <2>2, <2>3, <2>4
  <2> HIDE DEF new
  <2> QED
    BY <1>1, <2>3, <2>5
<1>3. ASSUME edit.kind = "replace" PROVE Sp!Edited(old, edit) = new /\ m + b - q \in Nat /\ p \in Nat /\ p + q <= m
  <2>1. w \in 1 .. m /\ p = w - 1 /\ q = 1 /\ b = 1
    BY <1>3 DEF m
  <2>2. Sp!Edited(old, edit) = [old EXCEPT ![w] = e]
    BY <1>3 DEF Sp!Edited
  <2>3. [old EXCEPT ![w] = e] = [n \in 1 .. m |-> IF n = w THEN e ELSE old[n]]
    BY <1>1, <2>1
  <2>4. ASSUME NEW n \in 1 .. m
        PROVE  (IF n = w THEN e ELSE old[n])
                 = (IF n <= p THEN old[n] ELSE IF n <= p + b THEN e ELSE old[n - b + q])
    BY <1>1, <2>1
  <2>5. m + b - q = m
    BY <1>1, <2>1
  <2>6. Sp!Edited(old, edit) = new
    <3>1. [n \in 1 .. m |-> IF n = w THEN e ELSE old[n]]
            = [n \in 1 .. m |-> IF n <= p THEN old[n] ELSE IF n <= p + b THEN e ELSE old[n - b + q]]
      BY <2>4
    <3> QED
      BY <2>2, <2>3, <2>5, <3>1
  <2> HIDE DEF new
  <2> QED
    BY <1>1, <2>1, <2>5, <2>6
<1>4. ASSUME edit.kind = "delete" PROVE Sp!Edited(old, edit) = new /\ m + b - q \in Nat /\ p \in Nat /\ p + q <= m
  <2>1. w \in 1 .. m /\ p = w - 1 /\ q = 1 /\ b = 0
    BY <1>4 DEF m
  <2>2. Sp!Edited(old, edit) = Sp!RemoveAt(old, w)
    BY <1>4 DEF Sp!Edited
  <2>3. Sp!RemoveAt(old, w) = SubSeq(old, 1, w - 1) \o SubSeq(old, w + 1, m)
    BY DEF Sp!RemoveAt, m
  <2>4. SubSeq(old, 1, w - 1) \o SubSeq(old, w + 1, m)
          = [n \in 1 .. m - 1 |-> IF n <= w - 1 THEN old[n] ELSE old[n + 1]]
    BY <2>1, RemoveAtIs DEF m, Sp!RemoveAt
  <2>5. ASSUME NEW n \in 1 .. m - 1
        PROVE  (IF n <= w - 1 THEN old[n] ELSE old[n + 1])
                 = (IF n <= p THEN old[n] ELSE IF n <= p + b THEN e ELSE old[n - b + q])
    BY <1>1, <2>1
  <2>6. m + b - q = m - 1
    BY <1>1, <2>1
  <2>7. Sp!Edited(old, edit) = new
    BY <2>2, <2>3, <2>4, <2>5, <2>6
  <2> HIDE DEF new
  <2> QED
    BY <1>1, <2>1, <2>6, <2>7
<1> HIDE DEF new
<1>5. Sp!Edited(old, edit) = new /\ m + b - q \in Nat /\ p \in Nat /\ p + q <= m
  BY <1>2, <1>3, <1>4
<1> QED
  BY <1>5 DEF new, m, Inserted

\* A plain edit of a plain file parses back.
LEMMA PlainParsesBack ==
  ASSUME NEW c \in Sp!Case, Plain(c.file.lines),
         \A d \in DOMAIN c.edit.entry.content : c.edit.entry.content[d] # "hash",
         Sp!Edited(Sp!Parse(c.file.lines), c.edit) # <<>>
  PROVE  Sp!ParsesBack(Sp!Spliced(c.file, c.edit), Sp!Edited(Sp!Parse(c.file.lines), c.edit))
<1> DEFINE lines == c.file.lines
           edit == c.edit
           e == edit.entry
           first == EditFirst(lines, edit)
           end == EditEnd(lines, edit)
           limit == EditLimit(lines, edit)
           block == EditBlock(edit)
           m == Sp!Cardinality(Sp!Heads(lines))
           s == Sp!Sorted(Sp!Heads(lines))
           old == Sp!Parse(lines)
           p == IF edit.kind = "append" THEN m ELSE edit.where - 1
           q == IF edit.kind = "append" THEN 0 ELSE 1
           b == IF edit.kind = "delete" THEN 0 ELSE 1
<1>1. /\ lines \in Seq(Sp!LineType) /\ Sp!IsYaml(lines) /\ e \in Sp!EntryType
      /\ edit.kind \in {"replace", "delete", "append"}
      /\ edit.kind # "append" => edit.where \in 1 .. m
  BY CaseTypes
<1>2. /\ Sp!Spliced(c.file, edit) = Patch(lines, first, end, block) /\ Fits(lines, first, end, limit)
      /\ block \in Seq(Sp!LineType) /\ OneEntry(block)
  BY EditFits
<1>3. IF edit.kind = "delete" THEN block = <<>> ELSE block = Sp!Emit(e) /\ Len(block) > 0
  BY <1>1, BlockIs DEF EditBlock
<1>4. Lists(s, m, Sp!Heads(lines)) /\ m \in Nat /\ Sp!Heads(lines) \in SUBSET (1 .. Len(lines))
  BY <1>1, HeadsListed, SplDomain DEF Lists, Sp!Heads
<1>5. old \in Seq(Sp!EntryType) /\ Len(old) = m
  BY <1>1, ParseTyped
<1> HIDE DEF m, s, old
<1>6. Cut(lines, first, limit, m, s, p, q)
  <2>1. \A n \in 1 .. m : s[n] \in 1 .. Len(lines)
    BY <1>4 DEF Lists
  <2>2. CASE edit.kind = "append"
    <3>1. first = Len(lines) + 1 /\ limit = Len(lines) /\ p = m /\ q = 0
      BY <2>2 DEF EditFirst, EditLimit
    <3> HIDE DEF first, limit, p, q
    <3>2. Len(lines) \in Nat
      BY <1>1, SplDomain
    <3> QED
      BY <1>4, <2>1, <3>1, <3>2 DEF Cut
  <2>3. CASE edit.kind # "append"
    <3> DEFINE w == edit.where
    <3>1. first = Sp!Start(lines, w) /\ limit = Sp!Limit(lines, w) /\ p = w - 1 /\ q = 1 /\ w \in 1 .. m
      BY <1>1, <2>3 DEF EditFirst, EditLimit
    <3> HIDE DEF first, limit, p, q
    <3>2. /\ limit \in first .. Len(lines) /\ first \in 1 .. Len(lines)
          /\ \A n \in 1 .. m : (n < w => s[n] < first) /\ (n > w => s[n] > limit)
      BY <1>1, <3>1, StartIs DEF m, s
    <3>3. s[w] = first
      BY <3>1 DEF Sp!Start, s
    <3> HIDE DEF w
    <3> QED
      BY <1>4, <2>1, <3>1, <3>2, <3>3 DEF Cut
  <2> QED
    BY <2>2, <2>3
<1>7. /\ Sp!Edited(old, edit) =
           [n \in 1 .. m + b - q |-> IF n <= p THEN old[n] ELSE IF n <= p + b THEN e ELSE old[n - b + q]]
      /\ m + b - q \in Nat
  <2>1. ASSUME NEW o \in Seq(Sp!EntryType), NEW ed, ed.entry \in Sp!EntryType,
               ed.kind \in {"replace", "delete", "append"},
               ed.kind # "append" => ed.where \in 1 .. Len(o),
               NEW x, x = IF ed.kind = "append" THEN Len(o) ELSE ed.where - 1,
               NEW y, y = IF ed.kind = "append" THEN 0 ELSE 1,
               NEW z, z = IF ed.kind = "delete" THEN 0 ELSE 1
        PROVE  /\ Sp!Edited(o, ed) = Inserted(o, ed.entry, x, y, z)
               /\ Len(o) + z - y \in Nat
    BY <2>1, EditedIs
  <2>2. /\ edit.entry \in Sp!EntryType /\ edit.kind \in {"replace", "delete", "append"}
        /\ edit.kind # "append" => edit.where \in 1 .. Len(old)
    BY <1>1, <1>5
  <2>3. /\ p = IF edit.kind = "append" THEN Len(old) ELSE edit.where - 1
        /\ q = IF edit.kind = "append" THEN 0 ELSE 1
        /\ b = IF edit.kind = "delete" THEN 0 ELSE 1
    BY <1>5
  <2> HIDE DEF edit, p, q, b
  <2>4. /\ Sp!Edited(old, edit) = Inserted(old, edit.entry, p, q, b)
        /\ Len(old) + b - q \in Nat
    BY <1>5, <2>1, <2>2, <2>3
  <2> QED
    BY <1>5, <2>4 DEF Inserted
<1>8. Sp!Edited(old, edit) # <<>>
  BY DEF old
<1>9. m + b - q > 0
  <2> SUFFICES ASSUME m + b - q = 0 PROVE FALSE
    BY <1>7
  <2>1. 1 .. m + b - q = {}
    OBVIOUS
  <2> QED
    BY <1>7, <1>8, <2>1
<1>10. b = IF Len(block) > 0 THEN 1 ELSE 0
  <2>1. Len(<<>>) = 0
    OBVIOUS
  <2> QED
    BY <1>3, <2>1
<1>11. \A d \in DOMAIN e.content : e.content[d] # "hash"
  OBVIOUS
<1>12. Plain(lines) /\ (block = Sp!Emit(e) \/ block = <<>>)
  BY <1>3
<1> DEFINE new == Patch(lines, first, end, block)
<1> HIDE DEF lines, edit, e, first, end, limit, block, p, q, b
<1>13. /\ new \in Seq(Sp!LineType) /\ Plain(new)
       /\ Sp!Parse(new) = [n \in 1 .. m + b - q |->
                              IF n <= p THEN old[n] ELSE IF n <= p + b THEN e ELSE old[n - b + q]]
       /\ Sp!Heads(new) # {}
  BY <1>1, <1>2, <1>6, <1>9, <1>10, <1>11, <1>12, PatchedParse DEF old
<1>14. Plain(block)
  <2>1. Plain(<<>>)
    <3>1. DOMAIN << >> = {}
      OBVIOUS
    <3> QED
      BY <3>1, Zenon DEF Plain
  <2> QED
    BY <1>1, <1>11, <1>12, <2>1, EmitPlain
<1>15. Sp!IsYaml(new)
  BY <1>1, <1>2, <1>12, <1>14, PatchedYaml
<1>16. Sp!ParsesBack(new, Sp!Edited(old, edit))
  BY <1>7, <1>13, <1>15 DEF Sp!ParsesBack
<1> QED
  BY <1>2, <1>16 DEF lines, edit, old

-----------------------------------------------------------------------------
(* The whole file written anew *)

LEMMA Rows ==
  ASSUME NEW a \in Nat, NEW b \in Nat, a <= b, NEW h \in Nat
  PROVE  a * h \in Nat /\ b * h \in Nat /\ a * h <= b * h /\ (a + 1) * h = a * h + h
<1>1. b - a \in Nat /\ b = a + (b - a)
  OBVIOUS
<1>2. \A x \in Nat : x * h \in Nat
  OBVIOUS
<1>3. \A x, y \in Nat : (x + y) * h = x * h + y * h
  OBVIOUS
<1>4. b * h = a * h + (b - a) * h
  BY <1>1, <1>3
<1>5. (b - a) * h \in Nat /\ a * h \in Nat
  BY <1>1, <1>2
<1>6. (a + 1) * h = a * h + h
  BY <1>3
<1> QED
  BY <1>4, <1>5, <1>6

\* Finitely many numbers have a bound.
LEMMA Bounded ==
  ASSUME NEW N \in Nat, NEW f, \A n \in 1 .. N : f[n] \in Nat
  PROVE  \E k \in Nat : \A n \in 1 .. N : f[n] <= k
<1> DEFINE P(m) == \E k \in Nat : \A n \in 1 .. m : f[n] <= k
           Bad == {m \in 1 .. N : ~P(m)}
<1>1. Bad = {}
  <2> SUFFICES ASSUME Bad # {} PROVE FALSE
    OBVIOUS
  <2>1. PICK m \in Bad : \A j \in Bad : m <= j
    <3>1. Bad \in SUBSET Nat
      OBVIOUS
    <3> HIDE DEF Bad
    <3> QED
      BY <3>1, LeastIn
  <2>2. m \in 1 .. N /\ ~P(m)
    OBVIOUS
  <2>3. P(m - 1)
    <3>1. CASE m = 1
      BY <3>1
    <3>2. CASE m # 1
      <4>1. m - 1 \in 1 .. N /\ ~ m <= m - 1
        BY <2>2, <3>2
      <4> QED
        BY <2>1, <4>1
    <3> QED
      BY <3>1, <3>2
  <2>4. PICK k \in Nat : \A n \in 1 .. m - 1 : f[n] <= k
    BY <2>3
  <2>5. f[m] \in Nat
    BY <2>2
  <2> DEFINE l == IF f[m] <= k THEN k ELSE f[m]
  <2>6. l \in Nat /\ k <= l /\ f[m] <= l
    BY <2>5
  <2>7. ASSUME NEW n \in 1 .. m PROVE f[n] <= l
    <3>1. n = m \/ n \in 1 .. m - 1
      BY <2>2
    <3>2. f[n] \in Nat
      BY <2>2
    <3> HIDE DEF l
    <3> QED
      BY <2>4, <2>6, <3>1, <3>2
  <2> HIDE DEF l
  <2> QED
    BY <2>2, <2>6, <2>7
<1>2. CASE N = 0
  BY <1>2
<1>3. CASE N # 0
  <2>1. N \in 1 .. N
    BY <1>3
  <2> QED
    BY <1>1, <2>1
<1> QED
  BY <1>2, <1>3

Height(data) == Sp!Max({Len(Sp!Emit(data[n])) : n \in DOMAIN data} \cup {0})

LEMMA HeightIs ==
  ASSUME NEW data \in Seq(Sp!EntryType)
  PROVE  /\ Height(data) \in Nat /\ Len(data) \in Nat /\ DOMAIN data = 1 .. Len(data)
         /\ \A n \in 1 .. Len(data) : Len(Sp!Emit(data[n])) <= Height(data)
<1> DEFINE f == [n \in 1 .. Len(data) |-> Len(Sp!Emit(data[n]))]
           S == {Len(Sp!Emit(data[n])) : n \in DOMAIN data} \cup {0}
<1>1. Len(data) \in Nat /\ DOMAIN data = 1 .. Len(data) /\ \A n \in 1 .. Len(data) : data[n] \in Sp!EntryType
  OBVIOUS
<1>2. \A n \in 1 .. Len(data) : Len(Sp!Emit(data[n])) \in Nat
  <2>1. \A e \in Sp!EntryType : Sp!Emit(e) \in Seq(Sp!LineType)
    BY EmitIs
  <2> QED
    BY <1>1, <2>1
<1>3. PICK k \in Nat : \A n \in 1 .. Len(data) : f[n] <= k
  <2>1. \A n \in 1 .. Len(data) : f[n] \in Nat
    BY <1>2
  <2> HIDE DEF f
  <2> QED
    BY <1>1, <2>1, Bounded
<1>4. S \in SUBSET (0 .. k) /\ S # {}
  BY <1>1, <1>2, <1>3
<1>5. Sp!Max(S) \in S /\ \A x \in S : x <= Sp!Max(S)
  <2> HIDE DEF S
  <2> QED
    BY <1>4, MaxIs
<1>6. \A n \in 1 .. Len(data) : Len(Sp!Emit(data[n])) \in S
  BY <1>1
<1>7. Height(data) = Sp!Max(S)
  BY DEF Height
<1> HIDE DEF S
<1>8. Height(data) \in S /\ \A x \in S : x <= Height(data)
  BY <1>5, <1>7
<1>9. Height(data) \in Nat
  <2>1. Height(data) \in 0 .. k
    BY <1>4, <1>8, Zenon
  <2> QED
    BY <2>1
<1>10. \A n \in 1 .. Len(data) : Len(Sp!Emit(data[n])) <= Height(data)
  BY <1>6, <1>8
<1> QED
  BY <1>1, <1>9, <1>10

\* at[n] is where the n-th of N rows of height h begins.
RowsAt(at, N, h) ==
  /\ N \in Nat /\ h \in Nat /\ N * h \in Nat
  /\ \A n \in 1 .. N : at[n] \in Nat /\ at[n] >= 1 /\ at[n] + h <= N * h + 1
  /\ \A n, k \in 1 .. N : n < k => at[n] + h <= at[k]
  /\ \A n \in 1 .. N : (n < N => n + 1 \in 1 .. N /\ at[n + 1] = at[n] + h) /\ (n = N => at[n] + h = N * h + 1)
  /\ \A p \in 1 .. N * h : \E n \in 1 .. N : at[n] <= p /\ p < at[n] + h

LEMMA RowsAre ==
  ASSUME NEW N \in Nat, NEW h \in Nat
  PROVE  RowsAt([n \in 1 .. N |-> (n - 1) * h + 1], N, h)
<1> DEFINE at == [n \in 1 .. N |-> (n - 1) * h + 1]
<1>1. ASSUME NEW n \in 1 .. N
      PROVE  /\ n - 1 \in Nat /\ (n - 1) * h \in Nat /\ n * h \in Nat /\ N * h \in Nat
             /\ n * h = (n - 1) * h + h /\ n * h <= N * h
  <2>1. n - 1 \in Nat /\ n \in Nat /\ n <= N /\ (n - 1) + 1 = n /\ n - 1 <= n
    OBVIOUS
  <2>2. (n - 1) * h \in Nat /\ n * h \in Nat /\ ((n - 1) + 1) * h = (n - 1) * h + h
    BY <2>1, Rows
  <2>3. n * h <= N * h /\ N * h \in Nat
    BY <2>1, Rows
  <2> QED
    BY <2>1, <2>2, <2>3
<1>2. N * h \in Nat
  BY Rows
<1>3. \A n \in 1 .. N : at[n] \in Nat /\ at[n] >= 1 /\ at[n] + h <= N * h + 1
  <2> TAKE n \in 1 .. N
  <2>1. at[n] = (n - 1) * h + 1
    OBVIOUS
  <2> HIDE DEF at
  <2> QED
    BY <1>1, <2>1
<1>4. ASSUME NEW n \in 1 .. N, NEW k \in 1 .. N, n < k PROVE at[n] + h <= at[k]
  <2>1. at[n] = (n - 1) * h + 1 /\ at[k] = (k - 1) * h + 1
    OBVIOUS
  <2>2. n \in Nat /\ k - 1 \in Nat /\ n <= k - 1
    BY <1>4
  <2>3. n * h <= (k - 1) * h /\ n * h = (n - 1) * h + h
    BY <1>1, <2>2, Rows
  <2> HIDE DEF at
  <2> QED
    BY <1>1, <2>1, <2>3
<1>5. ASSUME NEW n \in 1 .. N
      PROVE (n < N => n + 1 \in 1 .. N /\ at[n + 1] = at[n] + h) /\ (n = N => at[n] + h = N * h + 1)
  <2>1. at[n] = (n - 1) * h + 1 /\ n * h = (n - 1) * h + h /\ (n - 1) * h \in Nat
    BY <1>1
  <2>2. ASSUME n < N PROVE n + 1 \in 1 .. N /\ at[n + 1] = at[n] + h
    <3>1. n + 1 \in 1 .. N /\ (n + 1) - 1 = n
      BY <2>2
    <3>2. at[n + 1] = n * h + 1
      BY <3>1
    <3> HIDE DEF at
    <3> QED
      BY <2>1, <3>1, <3>2
  <2>3. ASSUME n = N PROVE at[n] + h = N * h + 1
    <3> HIDE DEF at
    <3> QED
      BY <2>1, <2>3
  <2> QED
    BY <2>2, <2>3
<1>6. ASSUME NEW p \in 1 .. N * h PROVE \E n \in 1 .. N : at[n] <= p /\ p < at[n] + h
  <2> DEFINE S == {n \in 1 .. N : p <= n * h}
  <2>1. S \in SUBSET Nat
    OBVIOUS
  <2>2. S # {}
    <3>1. N # 0
      <4> SUFFICES ASSUME N = 0 PROVE FALSE
        OBVIOUS
      <4>1. N * h = 0
        OBVIOUS
      <4> QED
        BY <4>1
    <3>2. N \in 1 .. N /\ p <= N * h
      BY <1>2, <3>1
    <3> QED
      BY <3>2
  <2>3. PICK n \in S : \A j \in S : n <= j
    <3> HIDE DEF S
    <3> QED
      BY <2>1, <2>2, LeastIn
  <2>4. n \in 1 .. N /\ p <= n * h /\ p \in Nat /\ p >= 1
    BY <1>2
  <2>5. p > (n - 1) * h
    <3>1. CASE n = 1
      <4>1. (n - 1) * h = 0
        BY <3>1
      <4> QED
        BY <2>4, <4>1
    <3>2. CASE n # 1
      <4>1. n - 1 \in 1 .. N /\ ~ n <= n - 1
        BY <2>4, <3>2
      <4>2. ~ p <= (n - 1) * h
        BY <2>3, <4>1
      <4> QED
        BY <1>1, <2>4, <4>2
    <3> QED
      BY <3>1, <3>2
  <2>6. at[n] = (n - 1) * h + 1
    BY <2>4
  <2> HIDE DEF at, S
  <2>7. at[n] <= p /\ p < at[n] + h
    BY <1>1, <2>4, <2>5, <2>6
  <2> QED
    BY <2>4, <2>7
<1> HIDE DEF at
<1>7. RowsAt(at, N, h)
  BY <1>2, <1>3, <1>4, <1>5, <1>6 DEF RowsAt
<1> QED
  BY <1>7 DEF at

LEMMA SplEach ==
  ASSUME NEW lines \in Seq(Sp!LineType)
  PROVE  \A i \in DOMAIN lines : lines[i] \in Sp!LineType
OBVIOUS

LEMMA EmitLines ==
  ASSUME NEW e \in Sp!EntryType
  PROVE  /\ Len(e.content) \in Nat /\ Len(Sp!Emit(e)) = 1 + Len(e.content)
         /\ DOMAIN Sp!Emit(e) = 1 .. 1 + Len(e.content)
         /\ \A d \in DOMAIN Sp!Emit(e) : Sp!Emit(e)[d] \in Sp!LineType /\ Sp!Emit(e)[d].ref = ""
         /\ Sp!Emit(e)[1].kind = "head" /\ Sp!Emit(e)[1].key = e.key
         /\ \A d \in 1 .. Len(e.content) :
              Sp!Emit(e)[1 + d].kind = e.content[d] /\ Sp!Emit(e)[1 + d].deep
<1>1. /\ Len(e.content) \in Nat /\ Sp!Emit(e) \in Seq(Sp!LineType)
      /\ Len(Sp!Emit(e)) = 1 + Len(e.content)
      /\ Sp!Emit(e)[1] = Sp!Line("head", e.key, "", FALSE, 0)
  BY EmitIs
<1>2. /\ Sp!Line("head", e.key, "", FALSE, 0).kind = "head"
      /\ Sp!Line("head", e.key, "", FALSE, 0).key = e.key
      /\ Sp!Line("head", e.key, "", FALSE, 0).ref = ""
  BY DEF Sp!Line
<1>3. ASSUME NEW d \in 1 .. Len(e.content)
      PROVE  /\ Sp!Emit(e)[1 + d].kind = e.content[d] /\ Sp!Emit(e)[1 + d].deep
             /\ Sp!Emit(e)[1 + d].ref = ""
  <2>1. Sp!Emit(e)[1 + d] = Sp!Line(e.content[d], 0, "", TRUE, 0)
    BY EmitIs
  <2>2. /\ Sp!Line(e.content[d], 0, "", TRUE, 0).kind = e.content[d]
        /\ Sp!Line(e.content[d], 0, "", TRUE, 0).deep
        /\ Sp!Line(e.content[d], 0, "", TRUE, 0).ref = ""
    BY DEF Sp!Line
  <2> QED
    BY <2>1, <2>2
<1>4. DOMAIN Sp!Emit(e) = 1 .. 1 + Len(e.content)
  <2>1. DOMAIN Sp!Emit(e) = 1 .. Len(Sp!Emit(e))
    BY <1>1, SplDomain
  <2> QED
    BY <1>1, <2>1, Zenon
<1>5. \A d \in DOMAIN Sp!Emit(e) : Sp!Emit(e)[d] \in Sp!LineType
  BY <1>1, SplEach
<1>6. ASSUME NEW d \in DOMAIN Sp!Emit(e) PROVE Sp!Emit(e)[d].ref = ""
  <2> DEFINE l == Len(e.content)
  <2>1. d \in 1 .. 1 + l /\ l \in Nat
    BY <1>1, <1>4
  <2> HIDE DEF l
  <2>2. d = 1 \/ (d - 1 \in 1 .. l /\ 1 + (d - 1) = d)
    BY <2>1
  <2> QED
    BY <1>1, <1>2, <1>3, <2>2 DEF l
<1> QED
  BY <1>1, <1>2, <1>3, <1>4, <1>5, <1>6

\* Entry n of data lies in row n of a text, and nothing else does.
Laid(new, data, h, at) ==
  /\ data \in Seq(Sp!EntryType) /\ new \in Seq(Sp!LineType)
  /\ Len(new) = Len(data) * h /\ RowsAt(at, Len(data), h)
  /\ \A n \in 1 .. Len(data) : 1 + Len(data[n].content) <= h
  /\ \A n \in 1 .. Len(data) : new[at[n]].kind = "head" /\ new[at[n]].key = data[n].key
  /\ \A n \in 1 .. Len(data) : \A d \in 1 .. Len(data[n].content) :
       new[at[n] + d].kind = data[n].content[d] /\ new[at[n] + d].deep
  /\ \A n \in 1 .. Len(data) : \A d \in Len(data[n].content) + 1 .. h - 1 : new[at[n] + d].kind = "blank"
  /\ \A i \in DOMAIN new : new[i].ref = ""

LEMMA DumpIs ==
  ASSUME NEW data \in Seq(Sp!EntryType)
  PROVE  \E h, at : Laid(Sp!Dump(data), data, h, at)
<1> DEFINE h == Height(data)
           N == Len(data)
           at == [n \in 1 .. N |-> (n - 1) * h + 1]
           entry(p) == CHOOSE n \in DOMAIN data : p \in (n - 1) * h + 1 .. n * h
           text(e, i) == IF i \in DOMAIN Sp!Emit(e) THEN Sp!Emit(e)[i] ELSE Sp!Line("blank", 0, "", FALSE, 0)
           new == Sp!Dump(data)
<1>1. h \in Nat /\ N \in Nat /\ DOMAIN data = 1 .. N /\ \A n \in 1 .. N : Len(Sp!Emit(data[n])) <= h
  BY HeightIs
<1>2. RowsAt(at, N, h)
  <2> HIDE DEF h, N
  <2> QED
    BY <1>1, RowsAre
<1>3. \A n \in 1 .. N : data[n] \in Sp!EntryType
  OBVIOUS
<1>4. new = [p \in 1 .. N * h |-> text(data[entry(p)], p - (entry(p) - 1) * h)]
  BY DEF Sp!Dump, Height
<1> HIDE DEF h, N, new, text
<1>5. ASSUME NEW n \in 1 .. N, NEW d \in 1 .. h
      PROVE  /\ at[n] + (d - 1) \in 1 .. N * h
             /\ new[at[n] + (d - 1)] = text(data[n], d)
  <2> DEFINE p == at[n] + (d - 1)
  <2>1. p \in 1 .. N * h /\ at[n] <= p /\ p < at[n] + h /\ p \in Nat
    <3> HIDE DEF at
    <3> QED
      BY <1>1, <1>2 DEF RowsAt
  <2>2. ASSUME NEW k \in 1 .. N PROVE p \in (k - 1) * h + 1 .. k * h <=> at[k] <= p /\ p < at[k] + h
    <3>1. at[k] = (k - 1) * h + 1
      OBVIOUS
    <3>2. k - 1 \in Nat /\ (k - 1) + 1 = k /\ k - 1 <= k /\ k \in Nat
      OBVIOUS
    <3>3. (k - 1) * h \in Nat /\ k * h \in Nat /\ ((k - 1) + 1) * h = (k - 1) * h + h
      BY <1>1, <3>2, Rows
    <3>4. k * h = (k - 1) * h + h
      BY <3>2, <3>3
    <3> HIDE DEF at, p
    <3> QED
      BY <1>1, <2>1, <3>1, <3>3, <3>4
  <2>3. ASSUME NEW k \in 1 .. N, k # n PROVE ~ (at[k] <= p /\ p < at[k] + h)
    <3> HIDE DEF at, p
    <3>1. (k < n => at[k] + h <= at[n]) /\ (n < k => at[n] + h <= at[k])
      BY <1>2 DEF RowsAt
    <3>2. at[k] \in Nat /\ at[n] \in Nat
      BY <1>2 DEF RowsAt
    <3>3. k < n \/ n < k
      BY <1>1, <2>3
    <3> QED
      BY <1>1, <2>1, <3>1, <3>2, <3>3
  <2>4. \A k \in 1 .. N : p \in (k - 1) * h + 1 .. k * h <=> k = n
    <3> HIDE DEF at, p
    <3> QED
      BY <2>1, <2>2, <2>3
  <2>5. entry(p) = n
    <3> HIDE DEF at, p
    <3> QED
      BY <1>1, <2>4
  <2>6. p - (n - 1) * h = d
    <3>1. at[n] = (n - 1) * h + 1 /\ (n - 1) * h \in Nat
      <4>1. n - 1 \in Nat
        OBVIOUS
      <4> QED
        BY <1>1, <4>1, Rows
    <3> HIDE DEF at
    <3> QED
      BY <3>1
  <2>7. new[p] = text(data[entry(p)], p - (entry(p) - 1) * h)
    <3> HIDE DEF at, p, entry
    <3> QED
      BY <1>4, <2>1
  <2> HIDE DEF entry
  <2>8. new[p] = text(data[n], d)
    <3> HIDE DEF at, p
    <3> QED
      BY <2>5, <2>6, <2>7
  <2> QED
    BY <2>1, <2>8
<1> HIDE DEF at, entry
<1>6. ASSUME NEW n \in 1 .. N
      PROVE  /\ 1 + Len(data[n].content) <= h /\ Len(data[n].content) \in Nat
             /\ DOMAIN Sp!Emit(data[n]) = 1 .. 1 + Len(data[n].content)
  <2>1. /\ Len(data[n].content) \in Nat /\ Len(Sp!Emit(data[n])) = 1 + Len(data[n].content)
        /\ DOMAIN Sp!Emit(data[n]) = 1 .. 1 + Len(data[n].content)
    BY <1>3, EmitLines
  <2> QED
    BY <1>1, <2>1
<1>7. ASSUME NEW n \in 1 .. N, NEW d \in 1 .. h
      PROVE  text(data[n], d) \in Sp!LineType /\ text(data[n], d).ref = ""
  <2>1. Sp!Line("blank", 0, "", FALSE, 0) \in Sp!LineType /\ Sp!Line("blank", 0, "", FALSE, 0).ref = ""
    BY DEF Sp!Line, Sp!LineType
  <2>2. ASSUME d \in DOMAIN Sp!Emit(data[n])
        PROVE  Sp!Emit(data[n])[d] \in Sp!LineType /\ Sp!Emit(data[n])[d].ref = ""
    BY <1>3, <2>2, EmitLines
  <2> QED
    BY <2>1, <2>2 DEF text
<1>8. ASSUME NEW p \in 1 .. N * h PROVE new[p] \in Sp!LineType /\ new[p].ref = ""
  <2>1. PICK n \in 1 .. N : at[n] <= p /\ p < at[n] + h
    BY <1>2 DEF RowsAt
  <2>2. at[n] \in Nat /\ N * h \in Nat
    BY <1>2 DEF RowsAt
  <2>3. p - at[n] + 1 \in 1 .. h /\ at[n] + ((p - at[n] + 1) - 1) = p
    BY <1>1, <2>1, <2>2
  <2>4. new[p] = text(data[n], p - at[n] + 1)
    BY <1>5, <2>3
  <2> QED
    BY <1>7, <2>3, <2>4
<1>9. new \in Seq(Sp!LineType) /\ Len(new) = N * h /\ DOMAIN new = 1 .. N * h
  <2>1. N * h \in Nat
    BY <1>2 DEF RowsAt
  <2>2. DOMAIN new = 1 .. N * h
    BY <1>4
  <2>3. new = [p \in 1 .. N * h |-> new[p]]
    BY <1>4
  <2>4. new \in [1 .. N * h -> Sp!LineType]
    BY <1>8, <2>3
  <2> QED
    BY <2>1, <2>2, <2>4
<1>10. ASSUME NEW n \in 1 .. N PROVE new[at[n]].kind = "head" /\ new[at[n]].key = data[n].key
  <2>1. 1 \in 1 .. h /\ at[n] + (1 - 1) = at[n] /\ 1 \in DOMAIN Sp!Emit(data[n])
    <3>1. at[n] \in Nat
      BY <1>2 DEF RowsAt
    <3> QED
      BY <1>1, <1>6, <3>1
  <2>2. new[at[n]] = Sp!Emit(data[n])[1]
    BY <1>5, <2>1 DEF text
  <2>3. Sp!Emit(data[n])[1].kind = "head" /\ Sp!Emit(data[n])[1].key = data[n].key
    BY <1>3, EmitLines
  <2> QED
    BY <2>2, <2>3
<1>11. ASSUME NEW n \in 1 .. N, NEW d \in 1 .. Len(data[n].content)
       PROVE  new[at[n] + d].kind = data[n].content[d] /\ new[at[n] + d].deep
  <2>1. 1 + d \in 1 .. h /\ at[n] + ((1 + d) - 1) = at[n] + d /\ 1 + d \in DOMAIN Sp!Emit(data[n])
    <3>1. at[n] \in Nat
      BY <1>2 DEF RowsAt
    <3> QED
      BY <1>1, <1>6, <3>1
  <2>2. new[at[n] + d] = Sp!Emit(data[n])[1 + d]
    BY <1>5, <2>1 DEF text
  <2>3. Sp!Emit(data[n])[1 + d].kind = data[n].content[d] /\ Sp!Emit(data[n])[1 + d].deep
    BY <1>3, EmitLines
  <2> QED
    BY <2>2, <2>3
<1>12. ASSUME NEW n \in 1 .. N, NEW d \in Len(data[n].content) + 1 .. h - 1
       PROVE  new[at[n] + d].kind = "blank"
  <2>1. 1 + d \in 1 .. h /\ at[n] + ((1 + d) - 1) = at[n] + d /\ ~ 1 + d \in DOMAIN Sp!Emit(data[n])
    <3>1. at[n] \in Nat
      BY <1>2 DEF RowsAt
    <3> QED
      BY <1>1, <1>6, <3>1
  <2>2. new[at[n] + d] = Sp!Line("blank", 0, "", FALSE, 0)
    BY <1>5, <2>1 DEF text
  <2>3. Sp!Line("blank", 0, "", FALSE, 0).kind = "blank"
    BY DEF Sp!Line
  <2> QED
    BY <2>2, <2>3
<1>13. Laid(new, data, h, at)
  BY <1>2, <1>6, <1>8, <1>9, <1>10, <1>11, <1>12 DEF Laid, N
<1> QED
  BY <1>13 DEF new

LEMMA LaidContent ==
  ASSUME NEW new, NEW data, NEW h, NEW at, Laid(new, data, h, at), NEW n \in 1 .. Len(data)
  PROVE  Sp!ContentOf(new, at[n]) = data[n].content
<1> DEFINE N == Len(data)
           c == data[n].content
           g == at[n]
<1>1. /\ new \in Seq(Sp!LineType) /\ DOMAIN new = 1 .. N * h /\ N * h \in Nat
      /\ g \in Nat /\ g >= 1 /\ g + h <= N * h + 1 /\ h \in Nat /\ N \in Nat
  <2>1. new \in Seq(Sp!LineType) /\ Len(new) = N * h /\ RowsAt(at, N, h)
    BY DEF Laid
  <2>2. DOMAIN new = 1 .. N * h
    BY <2>1, SplDomain
  <2> QED
    BY <2>1, <2>2 DEF RowsAt
<1>2. /\ c \in Sp!Content /\ 1 + Len(c) <= h /\ new[g].kind = "head"
      /\ \A d \in 1 .. Len(c) : new[g + d].kind = c[d] /\ new[g + d].deep
      /\ \A d \in Len(c) + 1 .. h - 1 : new[g + d].kind = "blank"
  <2>1. data \in Seq(Sp!EntryType)
    BY DEF Laid
  <2>2. data[n] \in Sp!EntryType
    BY <2>1
  <2> QED
    BY <2>2 DEF Laid, Sp!EntryType
<1>3. (n < N => n + 1 \in 1 .. N /\ at[n + 1] = g + h) /\ (n = N => g + h = N * h + 1)
  BY DEF Laid, RowsAt
<1>4. \A k \in 1 .. N : new[at[k]].kind = "head"
  BY DEF Laid
<1> HIDE DEF N, c, g
<1>5. /\ Len(c) \in Nat /\ DOMAIN c = 1 .. Len(c)
      /\ \A d \in 1 .. Len(c) : c[d] \in {"body", "bar", "hash"}
      /\ \A d \in 1 .. Len(c) : c[d] = "hash" =>
           \E b \in 1 .. d - 1 : c[b] = "bar" /\ \A j \in b + 1 .. d - 1 : c[j] = "hash"
  <2>1. c \in Seq({"body", "bar", "hash"})
    BY <1>2 DEF Sp!Content
  <2>2. Len(c) \in Nat /\ DOMAIN c = 1 .. Len(c) /\ \A d \in 1 .. Len(c) : c[d] \in {"body", "bar", "hash"}
    BY <2>1
  <2> QED
    BY <1>2, <2>2 DEF Sp!Content
<1>6. ASSUME NEW d \in 1 .. Len(c) PROVE g + d \in DOMAIN new /\ new[g + d].kind # "head"
  <2>1. g + d \in DOMAIN new
    BY <1>1, <1>2, <1>5
  <2> QED
    BY <1>2, <1>5, <2>1
<1>7. ASSUME NEW d \in 1 .. Len(c) PROVE Sp!IsContent(new, g + d)
  <2>1. CASE c[d] # "hash"
    BY <1>2, <1>5, <2>1 DEF Sp!IsContent
  <2>2. CASE c[d] = "hash"
    <3>1. PICK b \in 1 .. d - 1 : c[b] = "bar" /\ \A j \in b + 1 .. d - 1 : c[j] = "hash"
      BY <1>5, <2>2
    <3>2. g + b \in 1 .. (g + d) - 1 /\ b \in 1 .. Len(c)
      BY <1>1, <1>5
    <3>3. new[g + b].kind = "bar"
      BY <1>2, <3>1, <3>2
    <3>4. ASSUME NEW x \in (g + b) + 1 .. (g + d) - 1
          PROVE  new[x].kind = "hash" /\ new[x].deep
      <4>1. x - g \in b + 1 .. d - 1 /\ x - g \in 1 .. Len(c) /\ g + (x - g) = x
        BY <1>1, <1>5
      <4> QED
        BY <1>2, <3>1, <4>1
    <3>5. Sp!InBlock(new, g + d)
      BY <3>2, <3>3, <3>4 DEF Sp!InBlock
    <3>6. new[g + d].kind = "hash" /\ new[g + d].deep
      BY <1>2, <2>2
    <3> QED
      BY <3>5, <3>6 DEF Sp!IsContent
  <2> QED
    BY <2>1, <2>2
<1>8. ASSUME NEW d \in Nat PROVE g + d \in Sp!Under(new, g) <=> d \in 1 .. Len(c)
  <2>1. g + d \in Sp!Under(new, g) <=>
          /\ g + d \in DOMAIN new /\ g + d > g /\ Sp!IsContent(new, g + d)
          /\ \A j \in g + 1 .. g + d : new[j].kind # "head"
    <3>1. \A i : i \in Sp!Under(new, g) <=>
                   /\ i \in DOMAIN new /\ i > g /\ Sp!IsContent(new, i)
                   /\ \A j \in g + 1 .. i : new[j].kind # "head"
      BY <1>1, UnderHead
    <3> QED
      BY <3>1
  <2>2. ASSUME d \in 1 .. Len(c) PROVE g + d \in Sp!Under(new, g)
    <3>1. ASSUME NEW j \in g + 1 .. g + d PROVE new[j].kind # "head"
      <4>1. j - g \in 1 .. Len(c) /\ g + (j - g) = j
        BY <1>1, <1>5, <2>2
      <4> QED
        BY <1>6, <4>1
    <3>2. g + d > g
      BY <1>1, <2>2
    <3> QED
      BY <1>6, <1>7, <2>1, <2>2, <3>1, <3>2
  <2>3. ASSUME g + d \in Sp!Under(new, g), ~ d \in 1 .. Len(c) PROVE FALSE
    <3>1. d > Len(c)
      BY <1>1, <1>5, <2>1, <2>3
    <3>2. CASE d <= h - 1
      <4>1. new[g + d].kind = "blank"
        BY <1>1, <1>2, <1>5, <3>1, <3>2
      <4> QED
        BY <2>1, <2>3, <4>1 DEF Sp!IsContent
    <3>3. CASE d > h - 1
      <4>1. g + h <= N * h /\ g + h \in g + 1 .. g + d
        BY <1>1, <1>2, <1>5, <2>1, <2>3, <3>3
      <4>2. n < N
        BY <1>1, <1>3, <4>1 DEF N
      <4>3. new[g + h].kind = "head"
        BY <1>3, <1>4, <4>2
      <4> QED
        BY <2>1, <2>3, <4>1, <4>3
    <3> QED
      BY <1>1, <3>2, <3>3
  <2> QED
    BY <2>2, <2>3
<1>9. Sp!ContentOf(new, g) = c
  BY <1>1, <1>2, <1>8, ContentEmitted
<1> QED
  BY <1>9 DEF g, c

\* A file written anew parses to what it was written from.
LEMMA LaidParse ==
  ASSUME NEW new, NEW data, NEW h, NEW at, Laid(new, data, h, at)
  PROVE  Sp!Parse(new) = data
<1> DEFINE N == Len(data)
           s == [n \in 1 .. N |-> at[n]]
<1>1. /\ new \in Seq(Sp!LineType) /\ Len(new) = N * h /\ RowsAt(at, N, h) /\ data \in Seq(Sp!EntryType)
      /\ \A n \in 1 .. N : new[at[n]].kind = "head" /\ new[at[n]].key = data[n].key
      /\ \A n \in 1 .. N : 1 + Len(data[n].content) <= h
      /\ NoRefs(new)
  BY DEF Laid, NoRefs
<1>2. DOMAIN new = 1 .. N * h
  BY <1>1, SplDomain
<1>3. N \in Nat /\ DOMAIN data = 1 .. N /\ \A n \in 1 .. N : data[n] \in Sp!EntryType
  BY <1>1
<1>4. \A n \in 1 .. N : Len(data[n].content) \in Nat
  BY <1>3, EmitLines
<1> HIDE DEF N
<1>5. /\ h \in Nat /\ N * h \in Nat
      /\ \A n \in 1 .. N : at[n] \in Nat /\ at[n] >= 1 /\ at[n] + h <= N * h + 1
      /\ \A n, k \in 1 .. N : n < k => at[n] + h <= at[k]
      /\ \A p \in 1 .. N * h : \E n \in 1 .. N : at[n] <= p /\ p < at[n] + h
  BY <1>1 DEF RowsAt
<1>6. \A n \in 1 .. N : h > 0
  BY <1>1, <1>4, <1>5
<1>7. ASSUME NEW n \in 1 .. N PROVE s[n] \in Sp!Heads(new)
  <2>1. at[n] \in 1 .. N * h
    BY <1>5, <1>6
  <2> QED
    BY <1>1, <1>2, <2>1 DEF Sp!Heads
<1>8. ASSUME NEW p \in Sp!Heads(new) PROVE \E n \in 1 .. N : s[n] = p
  <2>1. p \in 1 .. N * h /\ new[p].kind = "head"
    BY <1>2 DEF Sp!Heads
  <2>2. PICK n \in 1 .. N : at[n] <= p /\ p < at[n] + h
    BY <1>5, <2>1
  <2>3. at[n] = p
    <3> SUFFICES ASSUME at[n] # p PROVE FALSE
      OBVIOUS
    <3> DEFINE d == p - at[n]
    <3>1. d \in 1 .. h - 1 /\ at[n] + d = p
      BY <1>5, <2>1, <2>2
    <3>2. /\ \A e \in 1 .. Len(data[n].content) : new[at[n] + e].kind = data[n].content[e]
          /\ \A e \in Len(data[n].content) + 1 .. h - 1 : new[at[n] + e].kind = "blank"
      BY DEF Laid, N
    <3>3. \A e \in 1 .. Len(data[n].content) : data[n].content[e] # "head"
      <4>1. data[n] \in Sp!EntryType
        BY <1>3
      <4>2. \A e \in 1 .. Len(data[n].content) : data[n].content[e] \in {"body", "bar", "hash"}
        BY <4>1, EmitIs
      <4> QED
        BY <4>2
    <3> DEFINE l == Len(data[n].content)
    <3>4. l \in Nat
      BY <1>4
    <3> HIDE DEF d, l
    <3>5. d \in 1 .. l \/ d \in l + 1 .. h - 1
      BY <1>5, <3>1, <3>4
    <3> QED
      BY <2>1, <3>1, <3>2, <3>3, <3>5 DEF l
  <2> QED
    BY <2>3
<1>9. ASSUME NEW n \in 1 .. N, NEW k \in 1 .. N, n < k PROVE s[n] < s[k]
  BY <1>5, <1>6, <1>9
<1>10. Lists(s, N, Sp!Heads(new))
  BY <1>3, <1>7, <1>8, <1>9 DEF Lists
<1>11. Sp!Parse(new) = [n \in 1 .. N |-> EntryAt(new, s[n])]
  <2> HIDE DEF s
  <2> QED
    BY <1>1, <1>10, PlainParse
<1>12. ASSUME NEW n \in 1 .. N PROVE EntryAt(new, s[n]) = data[n]
  <2>1. Sp!ContentOf(new, at[n]) = data[n].content
    BY LaidContent DEF N
  <2>2. new[at[n]].key = data[n].key
    BY <1>1
  <2>3. data[n] = [key |-> data[n].key, content |-> data[n].content]
    BY <1>3 DEF Sp!EntryType
  <2> QED
    BY <2>1, <2>2, <2>3 DEF EntryAt
<1>13. data = [n \in 1 .. N |-> data[n]]
  BY <1>1, <1>3
<1> HIDE DEF s
<1> QED
  BY <1>11, <1>12, <1>13

LEMMA DumpParses ==
  ASSUME NEW data \in Seq(Sp!EntryType)
  PROVE  Sp!Parse(Sp!Dump(data)) = data
BY DumpIs, LaidParse

-----------------------------------------------------------------------------
(* What a splice changes *)

LEMMA SplicedOthersStay ==
  ASSUME NEW c \in Sp!Case
  PROVE  Sp!OthersKeepTheirLines(c.file, c.edit)
<1> DEFINE lines == c.file.lines
           edit == c.edit
           first == EditFirst(lines, edit)
           end == EditEnd(lines, edit)
           limit == EditLimit(lines, edit)
           block == EditBlock(edit)
           moved == Moved(first, end, block)
           new == Sp!Spliced(c.file, edit)
           own == IF edit.kind = "append" THEN {} ELSE Sp!Own(lines, edit.where)
<1>1. /\ lines \in Seq(Sp!LineType) /\ \A i \in DOMAIN lines : lines[i].at = i
      /\ edit.kind # "append" => edit.where \in 1 .. Sp!Cardinality(Sp!Heads(lines))
  BY CaseTypes
<1>2. /\ new = Patch(lines, first, end, block) /\ Fits(lines, first, end, limit)
      /\ block \in Seq(Sp!LineType) /\ Fresh(block)
  BY EditFits
<1>3. Stitched(new, lines, block, first, end, moved)
  BY <1>1, <1>2, PatchLines
<1>4. DOMAIN block = 1 .. Len(block) /\ moved = first + Len(block) - (end + 1)
  BY <1>2, SplDomain DEF Moved
<1>5. Sp!Saved(c.file, edit).surgical => Sp!Saved(c.file, edit).lines = new
  BY DEF Sp!Saved
<1>6. edit.kind # "append" => first = Sp!Start(lines, edit.where)
  BY DEF EditFirst
<1>7. edit.kind = "append" => first = Len(lines) + 1 /\ end = Len(lines)
  BY DEF EditFirst, EditEnd
<1>8. edit.kind # "append" =>
        end = Sp!ContentEnd(lines, first, limit) /\ limit = Sp!Limit(lines, edit.where)
  BY DEF EditFirst, EditEnd, EditLimit
<1> HIDE DEF first, end, limit, block, moved, new
<1>9. /\ first \in Nat /\ end \in Nat /\ moved \in Int /\ Len(block) \in Nat
      /\ Len(lines) \in Nat /\ DOMAIN lines = 1 .. Len(lines) /\ DOMAIN new = 1 .. Len(new) /\ Len(new) \in Int
      /\ \A i \in 1 .. first - 1 : i \in DOMAIN lines /\ i \in DOMAIN new /\ new[i] = lines[i]
      /\ \A i \in 1 .. Len(block) : first - 1 + i \in DOMAIN new /\ new[first - 1 + i] = block[i]
      /\ \A i \in end + 1 .. Len(lines) : i + moved \in DOMAIN new /\ new[i + moved] = lines[i]
      /\ \A x \in DOMAIN new :
           \/ x \in 1 .. first - 1
           \/ x - (first - 1) \in 1 .. Len(block)
           \/ x - moved \in end + 1 .. Len(lines)
  <2>1. Len(new) \in Int
    BY <1>3 DEF Stitched
  <2> QED
    BY <1>3, <2>1 DEF Stitched
<1>10. first <= end + 1 /\ first >= 1 /\ end <= limit /\ limit <= Len(lines)
  BY <1>2, <1>9 DEF Fits
<1>11. ASSUME NEW i \in DOMAIN lines, i >= first, i <= end PROVE i \in own
  <2>1. edit.kind # "append"
    BY <1>7, <1>9, <1>11
  <2>2. end \in Sp!Under(lines, first) \cup {first}
    <3>1. CASE end = first
      BY <3>1
    <3>2. CASE end # first
      <4>1. end > first /\ end \in DOMAIN lines /\ first \in 1 .. Len(lines) /\ limit \in first .. Len(lines)
        BY <1>2, <1>9, <1>10, <1>11, <3>2 DEF Fits
      <4>2. lines[end].kind \notin {"blank", "hash"}
        <5>1. ASSUME NEW a \in 1 .. Len(lines), NEW b \in a .. Len(lines),
                     Sp!ContentEnd(lines, a, b) >= a
              PROVE  lines[Sp!ContentEnd(lines, a, b)].kind \notin {"blank", "hash"}
          <6> HIDE DEF lines
          <6> QED
            BY <1>1, <5>1, ContentEndIs
        <5> QED
          BY <1>8, <2>1, <4>1, <5>1
      <4>3. \A j \in first + 1 .. end : lines[j].kind # "head"
        BY <1>2, <1>9, <1>10, <4>1 DEF Fits
      <4>4. lines[end].kind \in {"head", "body", "bar", "hash", "blank"}
        BY <1>1, <4>1, SplLineTypes
      <4>5. end \in first + 1 .. end
        BY <1>9, <4>1
      <4>6. Sp!IsContent(lines, end)
        BY <4>2, <4>3, <4>4, <4>5 DEF Sp!IsContent
      <4> QED
        BY <1>1, <1>9, <4>1, <4>3, <4>6, UnderHead
    <3> QED
      BY <3>1, <3>2
  <2>3. i \in first .. end
    BY <1>9, <1>11
  <2> HIDE DEF lines, edit
  <2>4. own = {x \in DOMAIN lines : \E n \in Sp!Under(lines, first) \cup {first} : x \in first .. n}
    BY <1>6, <2>1 DEF Sp!Own
  <2> HIDE DEF own
  <2> QED
    BY <2>2, <2>3, <2>4
<1>12. ASSUME NEW i \in DOMAIN lines \ own PROVE \E j \in DOMAIN new : new[j] = lines[i]
  <2>1. i \in 1 .. first - 1 \/ i \in end + 1 .. Len(lines)
    <3> HIDE DEF own
    <3> QED
      BY <1>9, <1>11
  <2> QED
    BY <1>9, <2>1
<1>13. ASSUME NEW i \in DOMAIN new, new[i].at > 0
       PROVE  \/ i \in 1 .. first - 1 /\ new[i].at = i
              \/ i - moved \in end + 1 .. Len(lines) /\ new[i].at = i - moved
  <2>1. CASE i \in 1 .. first - 1
    BY <1>1, <1>9, <2>1
  <2>2. CASE i - (first - 1) \in 1 .. Len(block)
    <3>1. first - 1 + (i - (first - 1)) = i
      BY <1>9
    <3>2. new[i] = block[i - (first - 1)]
      BY <1>9, <2>2, <3>1
    <3>3. block[i - (first - 1)].at = 0
      BY <1>2, <1>4, <2>2 DEF Fresh
    <3> QED
      BY <1>13, <3>2, <3>3
  <2>3. CASE i - moved \in end + 1 .. Len(lines)
    <3>1. (i - moved) + moved = i /\ i - moved \in DOMAIN lines
      BY <1>9, <2>3
    <3>2. new[i] = lines[i - moved]
      BY <1>9, <2>3, <3>1
    <3> QED
      BY <1>1, <2>3, <3>1, <3>2
  <2> QED
    BY <1>9, <2>1, <2>2, <2>3
<1>14. ASSUME NEW i \in DOMAIN new, NEW j \in DOMAIN new, new[i].at > 0, new[j].at > 0, i < j
       PROVE  new[i].at < new[j].at
  <2>1. i \in Int /\ j \in Int
    BY <1>9
  <2>2. \/ i \in 1 .. first - 1 /\ new[i].at = i
        \/ i - moved \in end + 1 .. Len(lines) /\ new[i].at = i - moved
    BY <1>13, <1>14
  <2>3. \/ j \in 1 .. first - 1 /\ new[j].at = j
        \/ j - moved \in end + 1 .. Len(lines) /\ new[j].at = j - moved
    BY <1>13, <1>14
  <2> QED
    BY <1>4, <1>9, <1>10, <1>14, <2>1, <2>2, <2>3
<1> HIDE DEF own, lines, edit
<1>15. Sp!Saved(c.file, edit).surgical =>
         /\ \A i \in DOMAIN lines \ own : \E j \in DOMAIN new : new[j] = lines[i]
         /\ \A i, j \in {n \in DOMAIN new : new[n].at > 0} : i < j => new[i].at < new[j].at
  BY <1>12, <1>14
<1> QED
  BY <1>5, <1>15 DEF Sp!OthersKeepTheirLines, own, lines, edit

LEMMA ReplacedIs ==
  ASSUME NEW S, NEW s \in Seq(S), NEW w \in 1 .. Len(s), NEW e \in S
  PROVE  [s EXCEPT ![w] = e] \in Seq(S)
<1>1. s \in [1 .. Len(s) -> S] /\ Len(s) \in Nat
  OBVIOUS
<1>2. [s EXCEPT ![w] = e] \in [1 .. Len(s) -> S]
  BY <1>1
<1> QED
  BY <1>1, <1>2

LEMMA SplicedContent ==
  ASSUME NEW c \in Sp!Case
  PROVE  Sp!ContentIsMeant(c.file, c.edit)
<1> DEFINE data == Sp!Edited(Sp!Parse(c.file.lines), c.edit)
<1>1. data \in Seq(Sp!EntryType)
  <2> DEFINE old == Sp!Parse(c.file.lines)
             edit == c.edit
  <2>1. /\ edit.entry \in Sp!EntryType /\ edit.kind \in {"replace", "delete", "append"}
        /\ old \in Seq(Sp!EntryType)
        /\ edit.kind # "append" => edit.where \in 1 .. Len(old)
    BY CaseTypes, ParseTyped
  <2>2. data = Sp!Edited(old, edit)
    OBVIOUS
  <2> HIDE DEF old, edit, data
  <2>3. CASE edit.kind = "append"
    <3>1. Append(old, edit.entry) \in Seq(Sp!EntryType)
      BY <2>1
    <3> QED
      BY <2>2, <2>3, <3>1 DEF Sp!Edited
  <2>4. CASE edit.kind = "replace"
    <3>1. [old EXCEPT ![edit.where] = edit.entry] \in Seq(Sp!EntryType)
      <4>1. edit.where \in 1 .. Len(old)
        BY <2>1, <2>4
      <4> QED
        BY <2>1, <4>1, ReplacedIs
    <3> QED
      BY <2>2, <2>4, <3>1 DEF Sp!Edited
  <2>5. CASE edit.kind = "delete"
    <3> DEFINE w == edit.where
    <3>1. w \in 1 .. Len(old) /\ Len(old) \in Nat
      BY <2>1, <2>5
    <3>2. SubSeq(old, 1, w - 1) \in Seq(Sp!EntryType) /\ SubSeq(old, w + 1, Len(old)) \in Seq(Sp!EntryType)
      BY <2>1, <3>1
    <3>3. SubSeq(old, 1, w - 1) \o SubSeq(old, w + 1, Len(old)) \in Seq(Sp!EntryType)
      BY <3>2
    <3> QED
      BY <2>2, <2>5, <3>3 DEF Sp!Edited, Sp!RemoveAt
  <2> QED
    BY <2>1, <2>3, <2>4, <2>5
<1>2. Sp!Parse(Sp!Dump(data)) = data
  <2> HIDE DEF data
  <2> QED
    BY <1>1, DumpParses
<1>3. Sp!ParsesBack(Sp!Spliced(c.file, c.edit), data) => Sp!Parse(Sp!Spliced(c.file, c.edit)) = data
  BY DEF Sp!ParsesBack
<1>4. Sp!Saved(c.file, c.edit).lines =
        IF ~c.file.flow /\ c.file.starts /\ Sp!ParsesBack(Sp!Spliced(c.file, c.edit), data)
        THEN Sp!Spliced(c.file, c.edit) ELSE Sp!Dump(data)
  BY DEF Sp!Saved
<1> HIDE DEF data
<1>5. Sp!Parse(Sp!Saved(c.file, c.edit).lines) = data
  BY <1>2, <1>3, <1>4
<1> QED
  BY <1>5 DEF data, Sp!ContentIsMeant

LEMMA SplicedPlainly ==
  ASSUME NEW c \in Sp!Case
  PROVE  Sp!PlainIsSurgical(c.file, c.edit)
<1> SUFFICES ASSUME ~c.file.flow, c.file.starts, Sp!Edited(Sp!Parse(c.file.lines), c.edit) # <<>>,
                    \A l \in Sp!Range(c.file.lines) : l.ref = "" /\ (l.kind = "hash" => ~l.deep),
                    "hash" \notin Sp!Range(c.edit.entry.content)
             PROVE  Sp!Saved(c.file, c.edit).surgical
  BY DEF Sp!PlainIsSurgical
<1>1. Plain(c.file.lines)
  BY DEF Plain, Sp!Range
<1>2. \A d \in DOMAIN c.edit.entry.content : c.edit.entry.content[d] # "hash"
  BY DEF Sp!Range
<1>3. Sp!ParsesBack(Sp!Spliced(c.file, c.edit), Sp!Edited(Sp!Parse(c.file.lines), c.edit))
  BY <1>1, <1>2, PlainParsesBack
<1> QED
  BY <1>3 DEF Sp!Saved

(* C-14, for single entries: the file written parses to what was meant, spliced *)
(* or written anew; where it is spliced, every line that is not the entry's own *)
(* is still there, in its order; and a file whose entries' first lines can be   *)
(* told, with neither flow style nor anchors nor a hash in a block scalar, is   *)
(* spliced.                                                                     *)
THEOREM SplicesTouchOneEntry == ReadingSpec => []SpliceTouchesOneEntry
<1>1. (of # "refscan" => of \in DOMAIN Cases /\ case \in Cases[of]) => SpliceTouchesOneEntry
  BY CasesAssumption, SplicedContent, SplicedOthersStay, SplicedPlainly DEF SpliceTouchesOneEntry
<1> QED
  BY <1>1, CasesStay, PTL

-----------------------------------------------------------------------------
(***************************************************************************)
(* Registries: what is related.                                            *)
(***************************************************************************)

Says(r, x, y, relationship, detail) ==
  [entity |-> y, relationship |-> relationship, detail |-> detail] \in Rg!RelatedToEntity(r, x)

Via(x, es, relationship, d) ==
  {[entity |-> e, relationship |-> relationship, detail |-> d] : e \in es \ {x}}

LEMMA ViaHolds ==
  ASSUME NEW x, NEW es, NEW relationship, NEW d
  PROVE  /\ \A y, k, c : [entity |-> y, relationship |-> k, detail |-> c] \in Via(x, es, relationship, d)
              <=> y \in es \ {x} /\ k = relationship /\ c = d
         /\ \A s \in Via(x, es, relationship, d) : s.relationship = relationship
<1>1. ASSUME NEW y, NEW k, NEW c, NEW e,
             [entity |-> y, relationship |-> k, detail |-> c]
               = [entity |-> e, relationship |-> relationship, detail |-> d]
      PROVE  y = e /\ k = relationship /\ c = d
  BY <1>1
<1>2. \A s \in Via(x, es, relationship, d) : s.relationship = relationship
  BY DEF Via
<1>3. ASSUME NEW y, NEW k, NEW c
      PROVE  [entity |-> y, relationship |-> k, detail |-> c] \in Via(x, es, relationship, d)
              <=> y \in es \ {x} /\ k = relationship /\ c = d
  <2>1. ASSUME [entity |-> y, relationship |-> k, detail |-> c] \in Via(x, es, relationship, d)
        PROVE  y \in es \ {x} /\ k = relationship /\ c = d
    <3>1. PICK e \in es \ {x} : [entity |-> y, relationship |-> k, detail |-> c]
                                  = [entity |-> e, relationship |-> relationship, detail |-> d]
      BY <2>1, Zenon DEF Via
    <3> QED
      BY <1>1, <3>1
  <2>2. ASSUME y \in es \ {x}, k = relationship, c = d
        PROVE  [entity |-> y, relationship |-> k, detail |-> c] \in Via(x, es, relationship, d)
    BY <2>2, Zenon DEF Via
  <2> QED
    BY <2>1, <2>2
<1> QED
  BY <1>2, <1>3

LEMMA WhatIsSaid ==
  ASSUME NEW r, NEW x, NEW y, NEW c
  PROVE  /\ Says(r, x, y, "config-entry-reference", c) <=>
              c \in DOMAIN r.mentions /\ x \in Rg!EntityRefs(r, c) /\ y \in Rg!GeneratedBy(r, c) \ {x}
         /\ Says(r, x, y, "referenced-entity", c) <=>
              c \in r.configs[x] /\ y \in Rg!EntityRefs(r, c) \ {x}
         /\ Says(r, x, y, "yaml-reference", "configuration.yaml") <=> y \in Rg!YamlPaired(r, x) \ {x}
<1> DEFINE refers == {d \in DOMAIN r.mentions : x \in Rg!EntityRefs(r, d)}
           A == {Via(x, Rg!GeneratedBy(r, d), "config-entry-reference", d) : d \in refers}
           B == {Via(x, Rg!EntityRefs(r, d), "referenced-entity", d) : d \in r.configs[x]}
           C == {Via(x, Rg!DeviceRefs(r, d), "device-reference", d) : d \in r.configs[x]}
           D == {Via(x, Rg!YamlPaired(r, x), "yaml-reference", "configuration.yaml")}
<1>1. Rg!RelatedToEntity(r, x) = UNION (A \cup B \cup C \cup D)
  BY DEF Rg!RelatedToEntity, Via
<1> HIDE DEF refers
<1>2. \A s : s \in UNION A <=>
        \E d \in refers : s \in Via(x, Rg!GeneratedBy(r, d), "config-entry-reference", d)
  OBVIOUS
<1>3. \A s : s \in UNION B <=>
        \E d \in r.configs[x] : s \in Via(x, Rg!EntityRefs(r, d), "referenced-entity", d)
  OBVIOUS
<1>4. \A s : s \in UNION C <=>
        \E d \in r.configs[x] : s \in Via(x, Rg!DeviceRefs(r, d), "device-reference", d)
  OBVIOUS
<1>5. \A s : s \in UNION D <=>
        s \in Via(x, Rg!YamlPaired(r, x), "yaml-reference", "configuration.yaml")
  OBVIOUS
<1> HIDE DEF A, B, C, D
<1>6. \A s : s \in Rg!RelatedToEntity(r, x) <=>
               s \in UNION A \/ s \in UNION B \/ s \in UNION C \/ s \in UNION D
  BY <1>1
<1>7. /\ \A s \in UNION A : s.relationship = "config-entry-reference"
      /\ \A s \in UNION B : s.relationship = "referenced-entity"
      /\ \A s \in UNION C : s.relationship = "device-reference"
      /\ \A s \in UNION D : s.relationship = "yaml-reference"
  BY <1>2, <1>3, <1>4, <1>5, ViaHolds
<1>8. \A k, d : [entity |-> y, relationship |-> k, detail |-> d].relationship = k
  OBVIOUS
<1>9. [entity |-> y, relationship |-> "config-entry-reference", detail |-> c] \in UNION A <=>
        c \in refers /\ y \in Rg!GeneratedBy(r, c) \ {x}
  BY <1>2, ViaHolds
<1>10. [entity |-> y, relationship |-> "referenced-entity", detail |-> c] \in UNION B <=>
         c \in r.configs[x] /\ y \in Rg!EntityRefs(r, c) \ {x}
  BY <1>3, ViaHolds
<1>11. [entity |-> y, relationship |-> "yaml-reference", detail |-> "configuration.yaml"] \in UNION D
         <=> y \in Rg!YamlPaired(r, x) \ {x}
  <2>1. "yaml-reference" = "yaml-reference" /\ "configuration.yaml" = "configuration.yaml"
    OBVIOUS
  <2> QED
    BY <1>5, <2>1, ViaHolds
<1>12. Says(r, x, y, "config-entry-reference", c) <=> c \in refers /\ y \in Rg!GeneratedBy(r, c) \ {x}
  BY <1>6, <1>7, <1>8, <1>9, <1>10, <1>11 DEF Says
<1>13. Says(r, x, y, "referenced-entity", c) <=> c \in r.configs[x] /\ y \in Rg!EntityRefs(r, c) \ {x}
  BY <1>6, <1>7, <1>8, <1>9, <1>10, <1>11 DEF Says
<1>14. Says(r, x, y, "yaml-reference", "configuration.yaml") <=> y \in Rg!YamlPaired(r, x) \ {x}
  BY <1>6, <1>7, <1>8, <1>9, <1>10, <1>11 DEF Says
<1> QED
  BY <1>12, <1>13, <1>14 DEF refers

LEMMA MutualForAll ==
  ASSUME NEW r
  PROVE  Rg!RelationsAreMutual(r)
<1> SUFFICES ASSUME NEW a \in DOMAIN r.configs, NEW b \in DOMAIN r.configs
             PROVE  /\ \A c \in DOMAIN r.mentions :
                         Says(r, a, b, "config-entry-reference", c)
                           <=> Says(r, b, a, "referenced-entity", c)
                    /\ Says(r, a, b, "yaml-reference", "configuration.yaml")
                         <=> Says(r, b, a, "yaml-reference", "configuration.yaml")
                    /\ \A c \in r.configs[a] \cap r.configs[b] : ~Says(r, a, b, "referenced-entity", c)
  BY DEF Rg!RelationsAreMutual, Says
<1>1. \A c : c \in r.configs[b] <=> b \in Rg!GeneratedBy(r, c)
  BY DEF Rg!GeneratedBy
<1>2. \A c \in DOMAIN r.mentions :
        Says(r, a, b, "config-entry-reference", c) <=> Says(r, b, a, "referenced-entity", c)
  BY <1>1, WhatIsSaid
<1>3. b \in Rg!YamlPaired(r, a) <=> a \in Rg!YamlPaired(r, b)
  BY DEF Rg!YamlPaired
<1>4. Says(r, a, b, "yaml-reference", "configuration.yaml")
        <=> Says(r, b, a, "yaml-reference", "configuration.yaml")
  BY <1>3, WhatIsSaid
<1>5. \A c \in r.configs[a] \cap r.configs[b] : ~Says(r, a, b, "referenced-entity", c)
  BY <1>1, WhatIsSaid DEF Rg!EntityRefs
<1> QED
  BY <1>2, <1>4, <1>5

(* Of whatever registries Home Assistant answers, a reference is reported from *)
(* either end, and what a config entry created is no reference to it.          *)
THEOREM RegistriesAreMutual ==
  ReadingSpec => [](of = "registry" => Rg!RelationsAreMutual(case))
<1>1. of = "registry" => Rg!RelationsAreMutual(case)
  BY MutualForAll
<1> QED
  BY <1>1, PTL
=============================================================================
