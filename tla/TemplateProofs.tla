--------------------------- MODULE TemplateProofs ---------------------------
(***************************************************************************)
(* Proofs about the template routes, as Overlap has them.  A request       *)
(* replaces, appends or removes one block; what that does to the places    *)
(* where entities stand comes first, then what callers see, then what the  *)
(* file and Home Assistant keep.  Last, what both stores promise together. *)
(***************************************************************************)
EXTENDS MappingProofs, SequenceTheorems, WellFoundedInduction

LEMMA RemoveAtShifts ==
  ASSUME NEW S, NEW s \in Seq(S), NEW i \in 1 .. Len(s)
  PROVE  /\ Templates!RemoveAt(s, i) \in Seq(S)
         /\ Len(Templates!RemoveAt(s, i)) = Len(s) - 1
         /\ \A k \in 1 .. Len(s) - 1 :
              Templates!RemoveAt(s, i)[k] = IF k < i THEN s[k] ELSE s[k + 1]
<1> DEFINE a == SubSeq(s, 1, i - 1)
           b == SubSeq(s, i + 1, Len(s))
<1>1. a \in Seq(S) /\ Len(a) = i - 1 /\ \A k \in 1 .. i - 1 : a[k] = s[k]
  OBVIOUS
<1>2. b \in Seq(S) /\ Len(b) = Len(s) - i /\ \A k \in 1 .. Len(s) - i : b[k] = s[i + k]
  OBVIOUS
<1> HIDE DEF a, b
<1>3. Templates!RemoveAt(s, i) = a \o b
  BY DEF Templates!RemoveAt, a, b
<1>4. a \o b \in Seq(S) /\ Len(a \o b) = Len(s) - 1
  <2>1. a \o b \in Seq(S) /\ Len(a \o b) = Len(a) + Len(b)
    BY <1>1, <1>2, ConcatProperties
  <2> QED
    BY <1>1, <1>2, <2>1
<1>5. ASSUME NEW k \in 1 .. Len(s) - 1
      PROVE  (a \o b)[k] = IF k < i THEN s[k] ELSE s[k + 1]
  <2>1. (a \o b)[k] = IF k <= Len(a) THEN a[k] ELSE b[k - Len(a)]
    BY <1>1, <1>2
  <2>2. CASE k < i
    BY <1>1, <2>1, <2>2
  <2>3. CASE ~(k < i)
    <3>1. k - Len(a) \in 1 .. Len(s) - i /\ i + (k - Len(a)) = k + 1
      BY <1>1, <2>3
    <3> QED
      BY <1>1, <1>2, <2>1, <2>3, <3>1
  <2> QED
    BY <2>2, <2>3
<1> QED
  BY <1>3, <1>4, <1>5

-----------------------------------------------------------------------------
(* One block                                                                 *)

LEMMA BlockIs ==
  ASSUME NEW b \in Templates!Block
  PROVE  /\ b = [trig |-> b.trig, keys |-> b.keys, list |-> b.list]
         /\ b.trig \in BOOLEAN /\ b.keys \in SUBSET EntityDomains
         /\ b.list \in Seq(Templates!Entity) /\ DOMAIN b.list = 1 .. Len(b.list)
         /\ Len(b.list) \in Nat
         /\ \A i \in 1 .. Len(b.list) : b.list[i] \in Templates!Entity /\ b.list[i].dom \in b.keys
  BY DEF Templates!Block

LEMMA EntityIs ==
  ASSUME NEW e \in Templates!Entity
  PROVE  /\ e = [dom |-> e.dom, item |-> e.item]
         /\ e.dom \in EntityDomains /\ e.item \in Item /\ e.item.uid \in Templates!Uids
  BY DEF Templates!Entity, Templates!Uids

(* A block of one bare item.                                                 *)
LEMMA BareIsABlock ==
  ASSUME NEW item \in Item
  PROVE  LET b == Templates!Bare(item)
             e == [dom |-> item.dom, item |-> item]
         IN  /\ b \in Templates!Block /\ b.keys # {} /\ b.list = <<e>>
             /\ e \in Templates!Entity /\ Templates!EntitiesOf(b) = {e}
             /\ Templates!UidsOf(b) = {item.uid}
<1> DEFINE b == Templates!Bare(item)
           e == [dom |-> item.dom, item |-> item]
<1>1. e \in Templates!Entity
  BY ItemAssumption DEF Templates!Entity
<1>2. b = [trig |-> FALSE, keys |-> {item.dom}, list |-> <<e>>]
  BY DEF Templates!Bare
<1>3. b \in Templates!Block
  <2>1. <<e>> \in Seq(Templates!Entity) /\ DOMAIN <<e>> = {1} /\ <<e>>[1].dom = item.dom
    BY <1>1
  <2> QED
    BY <1>2, <2>1, ItemAssumption DEF Templates!Block
<1>4. Templates!EntitiesOf(b) = {e}
  <2>1. DOMAIN b.list = {1} /\ b.list[1] = e
    BY <1>2
  <2> QED
    BY <2>1 DEF Templates!EntitiesOf
<1>5. Templates!UidsOf(b) = {item.uid}
  BY <1>4 DEF Templates!UidsOf
<1>6. b.keys = {item.dom} /\ b.list = <<e>>
  BY <1>2
<1> HIDE DEF b
<1> QED
  BY <1>1, <1>3, <1>4, <1>5, <1>6 DEF b

(* An item replaced in its place.                                            *)
LEMMA ReplacedIn ==
  ASSUME NEW b \in Templates!Block, NEW i \in 1 .. Len(b.list), NEW item \in Item
  PROVE  LET new == [b EXCEPT !.list[i].item = item]
         IN  /\ new \in Templates!Block /\ new.keys = b.keys /\ Len(new.list) = Len(b.list)
             /\ \A j \in 1 .. Len(b.list) :
                  new.list[j] = IF j = i THEN [b.list[i] EXCEPT !.item = item] ELSE b.list[j]
<1> DEFINE new == [b EXCEPT !.list[i].item = item]
           e   == [b.list[i] EXCEPT !.item = item]
<1>1. e \in Templates!Entity /\ e.dom = b.list[i].dom
  BY BlockIs DEF Templates!Entity
<1>2. new = [trig |-> b.trig, keys |-> b.keys, list |-> [b.list EXCEPT ![i] = e]]
  <2>1. b = [trig |-> b.trig, keys |-> b.keys, list |-> b.list]
    BY BlockIs
  <2> QED
    BY <2>1
<1> HIDE DEF new, e
<1>3. new.list \in Seq(Templates!Entity) /\ Len(new.list) = Len(b.list)
  BY <1>1, <1>2, BlockIs
<1>4. \A j \in 1 .. Len(b.list) : new.list[j] = IF j = i THEN e ELSE b.list[j]
  BY <1>2, BlockIs
<1>5. new \in Templates!Block
  <2>1. DOMAIN new.list = 1 .. Len(b.list)
    BY <1>3
  <2>2. \A j \in DOMAIN new.list : new.list[j].dom \in new.keys
    BY <1>1, <1>2, <1>4, <2>1, BlockIs
  <2> QED
    BY <1>2, <1>3, <2>2, BlockIs DEF Templates!Block
<1> QED
  BY <1>2, <1>3, <1>4, <1>5 DEF new, e

(* An item removed, with its domain key when that is empty now.              *)
LEMMA RemovedFrom ==
  ASSUME NEW b \in Templates!Block, NEW i \in 1 .. Len(b.list)
  PROVE  LET left == Templates!Without(b, i)
         IN  /\ left \in Templates!Block /\ Len(left.list) = Len(b.list) - 1
             /\ \A j \in 1 .. Len(b.list) - 1 :
                  left.list[j] = IF j < i THEN b.list[j] ELSE b.list[j + 1]
             /\ left.keys = {} => Len(b.list) = 1
<1> DEFINE left == Templates!Without(b, i)
           rest == Templates!RemoveAt(b.list, i)
           d    == b.list[i].dom
           keys == IF \E k \in DOMAIN rest : rest[k].dom = d THEN b.keys ELSE b.keys \ {d}
<1>1. left = [trig |-> b.trig, keys |-> keys, list |-> rest]
  <2>1. b = [trig |-> b.trig, keys |-> b.keys, list |-> b.list]
    BY BlockIs
  <2> HIDE DEF rest
  <2>2. left = [b EXCEPT !.list = rest, !.keys = keys]
    BY DEF Templates!Without, rest
  <2> QED
    BY <2>1, <2>2
<1>2. /\ rest \in Seq(Templates!Entity) /\ Len(rest) = Len(b.list) - 1
      /\ \A j \in 1 .. Len(b.list) - 1 : rest[j] = IF j < i THEN b.list[j] ELSE b.list[j + 1]
  BY BlockIs, RemoveAtShifts
<1> HIDE DEF left, rest, d
<1>3. DOMAIN rest = 1 .. Len(b.list) - 1
  BY <1>2
<1>4. \A j \in DOMAIN rest : rest[j].dom \in b.keys
  <2> SUFFICES ASSUME NEW j \in 1 .. Len(b.list) - 1 PROVE rest[j].dom \in b.keys
    BY <1>3
  <2>1. j \in 1 .. Len(b.list) /\ j + 1 \in 1 .. Len(b.list)
    BY BlockIs
  <2> QED
    BY <1>2, <2>1, BlockIs
<1>5. \A j \in DOMAIN rest : rest[j].dom \in keys
  BY <1>4
<1>6. left \in Templates!Block
  <2>1. keys \in SUBSET EntityDomains
    BY BlockIs
  <2> HIDE DEF keys
  <2> QED
    BY <1>1, <1>2, <1>5, <2>1, BlockIs DEF Templates!Block
<1>7. ASSUME keys = {} PROVE Len(b.list) = 1
  <2>1. DOMAIN rest = {}
    BY <1>5, <1>7
  <2> DEFINE n == Len(b.list)
  <2>2. n \in Nat /\ i \in 1 .. n /\ 1 \notin 1 .. n - 1
    BY <1>3, <2>1, BlockIs
  <2> HIDE DEF n
  <2>3. n = 1
    BY <2>2
  <2> QED
    BY <2>3 DEF n
<1> HIDE DEF keys
<1> QED
  BY <1>1, <1>2, <1>6, <1>7 DEF left

-----------------------------------------------------------------------------
(* Where entities stand                                                      *)

FileOK == tFile \in Seq(Templates!Block) /\ \A g \in DOMAIN tFile : tFile[g].keys # {}

LEMMA SpotIs ==
  ASSUME FileOK
  PROVE  /\ DOMAIN tFile = 1 .. Len(tFile) /\ Len(tFile) \in Nat
         /\ \A g \in 1 .. Len(tFile) : tFile[g] \in Templates!Block
         /\ \A g, i : <<g, i>> \in Templates!Spots
                        <=> g \in 1 .. Len(tFile) /\ i \in 1 .. Len(tFile[g].list)
         /\ \A s \in Templates!Spots :
              /\ s = <<s[1], s[2]>> /\ s[1] \in 1 .. Len(tFile)
              /\ s[2] \in 1 .. Len(tFile[s[1]].list)
<1>1. /\ DOMAIN tFile = 1 .. Len(tFile) /\ Len(tFile) \in Nat
      /\ \A g \in 1 .. Len(tFile) : tFile[g] \in Templates!Block
  BY DEF FileOK
<1>2. \A g \in 1 .. Len(tFile) : DOMAIN tFile[g].list = 1 .. Len(tFile[g].list)
  BY <1>1, BlockIs
<1>3. \A s : s \in Templates!Spots <=> \E g \in 1 .. Len(tFile) : s \in {g} \X (1 .. Len(tFile[g].list))
  BY <1>1, <1>2 DEF Templates!Spots
<1> QED
  BY <1>1, <1>3

LEMMA SpotWillBe ==
  ASSUME FileOK'
  PROVE  /\ DOMAIN tFile' = 1 .. Len(tFile') /\ Len(tFile') \in Nat
         /\ \A g \in 1 .. Len(tFile') : tFile'[g] \in Templates!Block
         /\ \A g, i : <<g, i>> \in Templates!Spots'
                        <=> g \in 1 .. Len(tFile') /\ i \in 1 .. Len(tFile'[g].list)
         /\ \A s \in Templates!Spots' :
              /\ s = <<s[1], s[2]>> /\ s[1] \in 1 .. Len(tFile')
              /\ s[2] \in 1 .. Len(tFile'[s[1]].list)
<1>1. /\ DOMAIN tFile' = 1 .. Len(tFile') /\ Len(tFile') \in Nat
      /\ \A g \in 1 .. Len(tFile') : tFile'[g] \in Templates!Block
  BY DEF FileOK
<1>2. \A g \in 1 .. Len(tFile') : DOMAIN tFile'[g].list = 1 .. Len(tFile'[g].list)
  BY <1>1, BlockIs
<1>3. \A s : s \in Templates!Spots' <=> \E g \in 1 .. Len(tFile') : s \in {g} \X (1 .. Len(tFile'[g].list))
  BY <1>1, <1>2 DEF Templates!Spots
<1> QED
  BY <1>1, <1>3

(* The places of one unique_id.                                              *)
UidSpots(w) == {t \in Templates!Spots : Templates!UidAt(t) = w}

LEMMA UidsStand ==
  ASSUME NEW w
  PROVE  /\ w \in Templates!AllUids <=> UidSpots(w) # {}
         /\ w \in Templates!AllUids' <=> UidSpots(w)' # {}
         /\ Templates!Twice(w) <=> \E s, t \in UidSpots(w) : s # t
         /\ Templates!Twice(w)' <=> \E s, t \in UidSpots(w)' : s # t
<1>1. \A s : s \in Templates!Spots <=> \E g \in DOMAIN tFile : s \in {g} \X DOMAIN tFile[g].list
  BY DEF Templates!Spots
<1>2. \A s : s \in Templates!Spots' <=> \E g \in DOMAIN tFile' : s \in {g} \X DOMAIN tFile'[g].list
  BY DEF Templates!Spots
<1>3. w \in Templates!AllUids <=> \E g \in DOMAIN tFile : \E i \in DOMAIN tFile[g].list : tFile[g].list[i].item.uid = w
  BY DEF Templates!AllUids, Templates!Entries, Templates!EntitiesOf
<1>4. w \in Templates!AllUids' <=> \E g \in DOMAIN tFile' : \E i \in DOMAIN tFile'[g].list : tFile'[g].list[i].item.uid = w
  BY DEF Templates!AllUids, Templates!Entries, Templates!EntitiesOf
<1>5. w \in Templates!AllUids <=> UidSpots(w) # {}
  <2>1. \A g \in DOMAIN tFile : \A i \in DOMAIN tFile[g].list :
          <<g, i>> \in Templates!Spots /\ Templates!UidAt(<<g, i>>) = tFile[g].list[i].item.uid
    BY <1>1 DEF Templates!UidAt, Templates!EntityAt
  <2>2. \A s \in Templates!Spots : s[1] \in DOMAIN tFile /\ s[2] \in DOMAIN tFile[s[1]].list
    BY <1>1
  <2> QED
    BY <1>3, <2>1, <2>2 DEF UidSpots, Templates!UidAt, Templates!EntityAt
<1>6. w \in Templates!AllUids' <=> UidSpots(w)' # {}
  <2>1. \A g \in DOMAIN tFile' : \A i \in DOMAIN tFile'[g].list :
          <<g, i>> \in Templates!Spots' /\ Templates!UidAt(<<g, i>>)' = tFile'[g].list[i].item.uid
    BY <1>2 DEF Templates!UidAt, Templates!EntityAt
  <2>2. \A s \in Templates!Spots' : s[1] \in DOMAIN tFile' /\ s[2] \in DOMAIN tFile'[s[1]].list
    BY <1>2
  <2> QED
    BY <1>4, <2>1, <2>2 DEF UidSpots, Templates!UidAt, Templates!EntityAt
<1> QED
  BY <1>5, <1>6 DEF UidSpots, Templates!Twice

(* A block replaced; what a PUT does to the places, an append, and a DELETE. *)
LEMMA BlockIsReplaced ==
  ASSUME FileOK, NEW g \in 1 .. Len(tFile), NEW new \in Templates!Block, new.keys # {},
         tFile' = [tFile EXCEPT ![g] = new]
  PROVE  /\ tFile' \in Seq(Templates!Block) /\ Len(tFile') = Len(tFile)
         /\ \A h \in 1 .. Len(tFile) : tFile'[h] = IF h = g THEN new ELSE tFile[h]
         /\ FileOK'
<1>1. /\ tFile' \in Seq(Templates!Block) /\ Len(tFile') = Len(tFile)
      /\ \A h \in 1 .. Len(tFile) : tFile'[h] = IF h = g THEN new ELSE tFile[h]
  BY DEF FileOK
<1>2. FileOK'
  BY <1>1 DEF FileOK
<1> QED
  BY <1>1, <1>2

LEMMA PutSpots ==
  ASSUME FileOK, NEW s \in Templates!Spots, NEW item \in Item,
         tFile' = [tFile EXCEPT ![s[1]].list[s[2]].item = item]
  PROVE  /\ FileOK' /\ Templates!Spots' = Templates!Spots
         /\ \A t \in Templates!Spots : Templates!EntityAt(t)' =
              IF t = s THEN [Templates!EntityAt(s) EXCEPT !.item = item] ELSE Templates!EntityAt(t)
<1> DEFINE g == s[1]
           i == s[2]
           b == tFile[g]
           new == [b EXCEPT !.list[i].item = item]
<1>1. s = <<g, i>> /\ g \in 1 .. Len(tFile) /\ i \in 1 .. Len(b.list) /\ b \in Templates!Block
  BY SpotIs
<1>2. /\ new \in Templates!Block /\ new.keys = b.keys /\ Len(new.list) = Len(b.list)
      /\ \A j \in 1 .. Len(b.list) :
           new.list[j] = IF j = i THEN [b.list[i] EXCEPT !.item = item] ELSE b.list[j]
  BY <1>1, ReplacedIn
<1>3. tFile' = [tFile EXCEPT ![g] = new]
  BY <1>1 DEF FileOK
<1>4. b.keys # {}
  BY <1>1 DEF FileOK
<1> HIDE DEF new, g, i
<1>5. /\ tFile' \in Seq(Templates!Block) /\ Len(tFile') = Len(tFile)
      /\ \A h \in 1 .. Len(tFile) : tFile'[h] = IF h = g THEN new ELSE tFile[h]
      /\ FileOK'
  BY <1>1, <1>2, <1>3, <1>4, BlockIsReplaced
<1>6. FileOK'
  BY <1>5
<1> HIDE DEF b
<1>7. \A h \in 1 .. Len(tFile) : Len(tFile'[h].list) = Len(tFile[h].list)
  BY <1>2, <1>5 DEF b
<1>8. Templates!Spots' = Templates!Spots
  <2>1. \A h, j : <<h, j>> \in Templates!Spots' <=> h \in 1 .. Len(tFile) /\ j \in 1 .. Len(tFile'[h].list)
    BY <1>5, <1>6, SpotWillBe
  <2>2. \A h, j : <<h, j>> \in Templates!Spots' <=> <<h, j>> \in Templates!Spots
    BY <1>7, <2>1, SpotIs
  <2>3. \A t \in Templates!Spots' : t = <<t[1], t[2]>>
    BY <1>6, SpotWillBe
  <2>4. \A t \in Templates!Spots : t = <<t[1], t[2]>>
    BY SpotIs
  <2>5. \A t : t \in Templates!Spots' <=> t \in Templates!Spots
    BY <2>2, <2>3, <2>4
  <2> QED
    BY <2>5
<1>9. ASSUME NEW t \in Templates!Spots
      PROVE  tFile'[t[1]].list[t[2]] = IF t = s THEN [b.list[i] EXCEPT !.item = item]
                                                ELSE tFile[t[1]].list[t[2]]
  <2>1. t = <<t[1], t[2]>> /\ t[1] \in 1 .. Len(tFile) /\ t[2] \in 1 .. Len(tFile[t[1]].list)
    BY SpotIs
  <2>2. CASE t[1] # g
    BY <1>1, <1>5, <2>1, <2>2
  <2>3. CASE t[1] = g
    <3>1. t[2] \in 1 .. Len(b.list) /\ tFile'[t[1]] = new /\ tFile[t[1]] = b
      BY <1>5, <2>1, <2>3 DEF b
    <3>2. t = s <=> t[2] = i
      BY <1>1, <2>1, <2>3
    <3> QED
      BY <1>2, <3>1, <3>2
  <2> QED
    BY <2>2, <2>3
<1> QED
  BY <1>6, <1>8, <1>9 DEF Templates!EntityAt, b, g, i

LEMMA PostSpots ==
  ASSUME FileOK, NEW b \in Templates!Block, b.keys # {}, tFile' = Append(tFile, b),
         NEW n, n = Len(tFile) + 1
  PROVE  /\ FileOK' /\ Templates!Spots \subseteq Templates!Spots'
         /\ \A t \in Templates!Spots : Templates!EntityAt(t)' = Templates!EntityAt(t)
         /\ \A i \in 1 .. Len(b.list) : /\ <<n, i>> \in Templates!Spots'
                                        /\ Templates!EntityAt(<<n, i>>)' = b.list[i]
         /\ \A t \in Templates!Spots' \ Templates!Spots :
              \E i \in 1 .. Len(b.list) : t = <<n, i>>
<1>1. /\ tFile' \in Seq(Templates!Block) /\ Len(tFile') = n /\ tFile'[n] = b
      /\ \A g \in 1 .. Len(tFile) : tFile'[g] = tFile[g]
      /\ Len(tFile) \in Nat
  BY DEF FileOK
<1>2. FileOK'
  BY <1>1 DEF FileOK
<1>3. \A t \in Templates!Spots : t \in Templates!Spots' /\ tFile'[t[1]] = tFile[t[1]]
  BY <1>1, <1>2, SpotIs, SpotWillBe
<1>4. \A i \in 1 .. Len(b.list) : <<n, i>> \in Templates!Spots'
  BY <1>1, <1>2, SpotWillBe
<1>5. ASSUME NEW t \in Templates!Spots' \ Templates!Spots
      PROVE  \E i \in 1 .. Len(b.list) : t = <<n, i>>
  <2>1. t = <<t[1], t[2]>> /\ t[1] \in 1 .. n /\ t[2] \in 1 .. Len(tFile'[t[1]].list)
    BY <1>1, <1>2, SpotWillBe
  <2>2. t[1] \notin 1 .. Len(tFile)
    BY <1>1, <2>1, SpotIs
  <2>3. t[1] = n
    BY <1>1, <2>1, <2>2
  <2> QED
    BY <1>1, <2>1, <2>3
<1>6. \A i : Templates!EntityAt(<<n, i>>)' = b.list[i]
  BY <1>1 DEF Templates!EntityAt
<1>7. \A t \in Templates!Spots : Templates!EntityAt(t)' = Templates!EntityAt(t)
  BY <1>3 DEF Templates!EntityAt
<1> QED
  BY <1>2, <1>3, <1>4, <1>5, <1>6, <1>7

(* What stands at the new places stood at old ones, in the same order.        *)
Shifted(f, old, new) ==
  /\ \A t \in new : f[t] \in old /\ Templates!EntityAt(t)' = Templates!EntityAt(f[t])
  /\ \A t \in old : \E x \in new : f[x] = t
  /\ \A x, y \in new : /\ x = y <=> f[x] = f[y]
                       /\ Templates!Before(x, y) <=> Templates!Before(f[x], f[y])

LEMMA RemoveFromBlock ==
  ASSUME FileOK, NEW s \in Templates!Spots,
         LET left == Templates!Without(tFile[s[1]], s[2])
         IN  left.keys # {} /\ tFile' = [tFile EXCEPT ![s[1]] = left]
  PROVE  FileOK' /\ \E f : Shifted(f, Templates!Spots \ {s}, Templates!Spots')
<1> DEFINE g == s[1]
           k == s[2]
           b == tFile[g]
           left == Templates!Without(b, k)
<1>1. s = <<g, k>> /\ g \in 1 .. Len(tFile) /\ k \in 1 .. Len(b.list) /\ b \in Templates!Block
  BY SpotIs
<1>2. /\ left \in Templates!Block /\ Len(left.list) = Len(b.list) - 1
      /\ \A j \in 1 .. Len(b.list) - 1 : left.list[j] = IF j < k THEN b.list[j] ELSE b.list[j + 1]
  BY <1>1, RemovedFrom
<1>3. left.keys # {} /\ tFile' = [tFile EXCEPT ![g] = left]
  OBVIOUS
<1>0. s[1] = g /\ s[2] = k
  OBVIOUS
<1> HIDE DEF left, g, k
<1>4. /\ FileOK' /\ Len(tFile') = Len(tFile)
      /\ \A h \in 1 .. Len(tFile) : tFile'[h] = IF h = g THEN left ELSE tFile[h]
  BY <1>1, <1>2, <1>3, BlockIsReplaced
<1>5. PICK f : f = [t \in Templates!Spots' |-> IF t[1] = g /\ ~(t[2] < k) THEN <<g, t[2] + 1>> ELSE t]
  OBVIOUS
<1>6. \A t \in Templates!Spots' : f[t] = IF t[1] = g /\ ~(t[2] < k) THEN <<g, t[2] + 1>> ELSE t
  BY <1>5
<1> DEFINE n == Len(b.list)
<1>7. n \in Nat
  BY <1>1, BlockIs
<1>8. \A h, i : <<h, i>> \in Templates!Spots' <=>
        h \in 1 .. Len(tFile) /\ i \in 1 .. IF h = g THEN n - 1 ELSE Len(tFile[h].list)
  BY <1>2, <1>4, SpotWillBe
<1>9. \A h, i : <<h, i>> \in Templates!Spots <=>
        h \in 1 .. Len(tFile) /\ i \in 1 .. IF h = g THEN n ELSE Len(tFile[h].list)
  BY SpotIs
<1>10. /\ \A t \in Templates!Spots' : t = <<t[1], t[2]>>
       /\ \A t \in Templates!Spots : t = <<t[1], t[2]>>
  BY <1>4, SpotIs, SpotWillBe
<1>11. \A h \in 1 .. Len(tFile) : Len(tFile[h].list) \in Nat
  BY SpotIs, BlockIs
<1>12. \A j \in 1 .. n - 1 : left.list[j] = IF j < k THEN b.list[j] ELSE b.list[j + 1]
  BY <1>2
<1>13. b = tFile[g] /\ k \in 1 .. n /\ g \in 1 .. Len(tFile)
  BY <1>1
<1> HIDE DEF n, b
<1>14. ASSUME NEW t \in Templates!Spots'
       PROVE  f[t] \in Templates!Spots \ {s} /\ Templates!EntityAt(t)' = Templates!EntityAt(f[t])
  <2>1. t = <<t[1], t[2]>> /\ t[1] \in 1 .. Len(tFile)
        /\ t[2] \in 1 .. IF t[1] = g THEN n - 1 ELSE Len(tFile[t[1]].list)
    BY <1>8, <1>10
  <2>2. Templates!EntityAt(t)' = tFile'[t[1]].list[t[2]]
    BY DEF Templates!EntityAt
  <2>3. CASE t[1] # g
    <3>1. f[t] = t /\ t # s
      BY <1>0, <1>6, <2>3
    <3>2. t \in Templates!Spots
      BY <1>9, <2>1, <2>3
    <3> QED
      BY <1>4, <2>1, <2>2, <2>3, <3>1, <3>2 DEF Templates!EntityAt
  <2>4. CASE t[1] = g
    <3>1. t[2] \in 1 .. n - 1 /\ tFile'[g] = left
      BY <1>4, <1>13, <2>1, <2>4
    <3>2. CASE t[2] < k
      <4>0. t[2] \in 1 .. n /\ t[2] # k
        BY <1>7, <1>13, <3>1, <3>2
      <4>3. f[t] = t
        BY <1>6, <3>2
      <4>4. t \in Templates!Spots
        BY <1>9, <1>13, <2>1, <2>4, <4>0
      <4>1. f[t] = t /\ t # s /\ t \in Templates!Spots
        BY <1>0, <4>0, <4>3, <4>4
      <4>2. left.list[t[2]] = b.list[t[2]]
        BY <1>12, <3>1, <3>2
      <4> QED
        BY <1>13, <2>2, <2>4, <3>1, <4>1, <4>2 DEF Templates!EntityAt
    <3>3. CASE ~(t[2] < k)
      <4>1. f[t] = <<g, t[2] + 1>>
        BY <1>6, <2>4, <3>3
      <4>2. t[2] + 1 \in 1 .. n /\ t[2] + 1 # k
        BY <1>7, <1>13, <3>1, <3>3
      <4>3. <<g, t[2] + 1>> \in Templates!Spots /\ <<g, t[2] + 1>> # s
        BY <1>1, <1>9, <1>13, <4>2
      <4>4. left.list[t[2]] = b.list[t[2] + 1]
        BY <1>12, <3>1, <3>3
      <4> QED
        BY <1>13, <2>2, <2>4, <3>1, <4>1, <4>3, <4>4 DEF Templates!EntityAt
    <3> QED
      BY <3>2, <3>3
  <2> QED
    BY <2>3, <2>4
<1>15. ASSUME NEW t \in Templates!Spots \ {s} PROVE \E x \in Templates!Spots' : f[x] = t
  <2>1. t = <<t[1], t[2]>> /\ t[1] \in 1 .. Len(tFile)
        /\ t[2] \in 1 .. IF t[1] = g THEN n ELSE Len(tFile[t[1]].list)
    BY <1>9, <1>10
  <2>2. CASE t[1] # g
    <3>1. t \in Templates!Spots'
      BY <1>8, <2>1, <2>2
    <3> QED
      BY <1>6, <2>2, <3>1
  <2>3. CASE t[1] = g /\ t[2] < k
    <3>1. t[2] \in 1 .. n - 1
      BY <1>7, <1>13, <2>1, <2>3
    <3>2. t \in Templates!Spots'
      BY <1>8, <1>13, <2>1, <2>3, <3>1
    <3> QED
      BY <1>6, <2>3, <3>2
  <2>4. CASE t[1] = g /\ ~(t[2] < k)
    <3> DEFINE x == <<g, t[2] - 1>>
    <3>1. t[2] # k
      BY <1>1, <2>1, <2>4
    <3>2. t[2] - 1 \in 1 .. n - 1 /\ ~(t[2] - 1 < k) /\ (t[2] - 1) + 1 = t[2]
      BY <1>7, <1>13, <2>1, <2>4, <3>1
    <3>3. x \in Templates!Spots' /\ x[1] = g /\ x[2] = t[2] - 1
      BY <1>8, <1>13, <3>2
    <3> HIDE DEF x
    <3>4. f[x] = t
      BY <1>6, <2>1, <2>4, <3>2, <3>3
    <3> QED
      BY <3>3, <3>4
  <2> QED
    BY <2>2, <2>3, <2>4
<1>16. ASSUME NEW x \in Templates!Spots', NEW y \in Templates!Spots'
       PROVE  /\ x = y <=> f[x] = f[y]
              /\ Templates!Before(x, y) <=> Templates!Before(f[x], f[y])
  <2>1. /\ x = <<x[1], x[2]>> /\ x[1] \in Nat /\ x[2] \in Nat
        /\ y = <<y[1], y[2]>> /\ y[1] \in Nat /\ y[2] \in Nat
    BY <1>4, SpotWillBe
  <2>2. f[x] = IF x[1] = g /\ ~(x[2] < k) THEN <<g, x[2] + 1>> ELSE x
    BY <1>6
  <2>3. f[y] = IF y[1] = g /\ ~(y[2] < k) THEN <<g, y[2] + 1>> ELSE y
    BY <1>6
  <2>4. k \in Nat /\ g \in Nat
    BY <1>7, <1>13
  <2>5. /\ f[x][1] = x[1] /\ f[x][2] = IF x[1] = g /\ ~(x[2] < k) THEN x[2] + 1 ELSE x[2]
        /\ f[x] = <<f[x][1], f[x][2]>>
    BY <2>1, <2>2
  <2>6. /\ f[y][1] = y[1] /\ f[y][2] = IF y[1] = g /\ ~(y[2] < k) THEN y[2] + 1 ELSE y[2]
        /\ f[y] = <<f[y][1], f[y][2]>>
    BY <2>1, <2>3
  <2>7. x = y <=> f[x] = f[y]
    BY <2>1, <2>4, <2>5, <2>6
  <2>8. Templates!Before(x, y) <=> Templates!Before(f[x], f[y])
    BY <2>1, <2>4, <2>5, <2>6 DEF Templates!Before
  <2> QED
    BY <2>7, <2>8
<1> QED
  BY <1>4, <1>14, <1>15, <1>16 DEF Shifted

LEMMA RemoveWholeBlock ==
  ASSUME FileOK, NEW s \in Templates!Spots, Len(tFile[s[1]].list) = 1,
         tFile' = Templates!RemoveAt(tFile, s[1])
  PROVE  FileOK' /\ \E f : Shifted(f, Templates!Spots \ {s}, Templates!Spots')
<1> DEFINE g == s[1]
           n == Len(tFile)
<1>1. s = <<g, 1>> /\ g \in 1 .. n /\ n \in Nat /\ s[1] = g
  <2>1. s = <<g, s[2]>> /\ g \in 1 .. n /\ n \in Nat /\ s[2] \in 1 .. Len(tFile[g].list)
    BY SpotIs
  <2>2. s[2] \in 1 .. 1
    BY <2>1
  <2>3. s[2] = 1
    BY <2>2
  <2> QED
    BY <2>1, <2>3
<1>2. /\ tFile' \in Seq(Templates!Block) /\ Len(tFile') = n - 1
      /\ \A h \in 1 .. n - 1 : tFile'[h] = IF h < g THEN tFile[h] ELSE tFile[h + 1]
  BY <1>1, RemoveAtShifts DEF FileOK
<1>3. Len(tFile[g].list) = 1
  OBVIOUS
<1>4. \A h \in 1 .. n : tFile[h].keys # {}
  BY SpotIs DEF FileOK
<1>0. n \in Nat /\ g \in 1 .. n
  BY <1>1
<1> HIDE DEF g, n
<1>5. FileOK'
  <2>1. ASSUME NEW h \in 1 .. n - 1 PROVE tFile'[h].keys # {}
    <3>1. h \in 1 .. n /\ h + 1 \in 1 .. n
      BY <1>0
    <3> QED
      BY <1>2, <1>4, <3>1
  <2>2. DOMAIN tFile' = 1 .. n - 1
    BY <1>2
  <2> QED
    BY <1>2, <2>1, <2>2 DEF FileOK
<1>6. PICK f : f = [t \in Templates!Spots' |-> IF t[1] < g THEN t ELSE <<t[1] + 1, t[2]>>]
  OBVIOUS
<1>7. \A t \in Templates!Spots' : f[t] = IF t[1] < g THEN t ELSE <<t[1] + 1, t[2]>>
  BY <1>6
<1>8. \A h, i : <<h, i>> \in Templates!Spots' <=>
        h \in 1 .. n - 1 /\ i \in 1 .. Len(tFile[IF h < g THEN h ELSE h + 1].list)
  BY <1>2, <1>5, SpotWillBe
<1>9. \A h, i : <<h, i>> \in Templates!Spots <=> h \in 1 .. n /\ i \in 1 .. Len(tFile[h].list)
  BY SpotIs DEF n
<1>10. /\ \A t \in Templates!Spots' : t = <<t[1], t[2]>>
       /\ \A t \in Templates!Spots : t = <<t[1], t[2]>>
  BY <1>5, SpotIs, SpotWillBe
<1>11. ASSUME NEW t \in Templates!Spots'
       PROVE  f[t] \in Templates!Spots \ {s} /\ Templates!EntityAt(t)' = Templates!EntityAt(f[t])
  <2>1. /\ t = <<t[1], t[2]>> /\ t[1] \in 1 .. n - 1
        /\ t[2] \in 1 .. Len(tFile[IF t[1] < g THEN t[1] ELSE t[1] + 1].list)
    BY <1>8, <1>10
  <2>2. Templates!EntityAt(t)' = tFile'[t[1]].list[t[2]]
    BY DEF Templates!EntityAt
  <2>3. CASE t[1] < g
    <3>1. t[1] \in 1 .. n /\ t[1] # g
      BY <1>0, <2>1, <2>3
    <3>2. f[t] = t /\ t # s
      BY <1>1, <1>7, <2>3, <3>1
    <3>3. t \in Templates!Spots
      BY <1>9, <2>1, <2>3, <3>1
    <3>4. tFile'[t[1]] = tFile[t[1]]
      BY <1>2, <2>1, <2>3
    <3> QED
      BY <2>2, <3>2, <3>3, <3>4 DEF Templates!EntityAt
  <2>4. CASE ~(t[1] < g)
    <3>0. t[1] + 1 \in 1 .. n /\ t[1] + 1 # g
      BY <1>0, <2>1, <2>4
    <3>1. f[t] = <<t[1] + 1, t[2]>> /\ t[1] + 1 \in 1 .. n /\ t[1] + 1 # g
      BY <1>7, <2>4, <3>0
    <3>2. f[t] \in Templates!Spots /\ f[t] # s
      BY <1>1, <1>9, <2>1, <2>4, <3>1
    <3>3. tFile'[t[1]] = tFile[t[1] + 1]
      BY <1>2, <2>1, <2>4
    <3> QED
      BY <2>2, <3>1, <3>2, <3>3 DEF Templates!EntityAt
  <2> QED
    BY <2>3, <2>4
<1>12. ASSUME NEW t \in Templates!Spots \ {s} PROVE \E x \in Templates!Spots' : f[x] = t
  <2>1. t = <<t[1], t[2]>> /\ t[1] \in 1 .. n /\ t[2] \in 1 .. Len(tFile[t[1]].list)
    BY <1>9, <1>10
  <2>2. t[1] # g
    <3> SUFFICES ASSUME t[1] = g PROVE FALSE
      OBVIOUS
    <3>1. t[2] = 1
      BY <1>3, <2>1
    <3> QED
      BY <1>1, <2>1, <3>1
  <2>3. CASE t[1] < g
    <3>1. t \in Templates!Spots'
      BY <1>1, <1>8, <2>1, <2>3
    <3> QED
      BY <1>7, <2>3, <3>1
  <2>4. CASE ~(t[1] < g)
    <3> DEFINE x == <<t[1] - 1, t[2]>>
    <3>1. t[1] - 1 \in 1 .. n - 1 /\ ~(t[1] - 1 < g) /\ (t[1] - 1) + 1 = t[1]
      BY <1>1, <2>1, <2>2, <2>4
    <3>2. x \in Templates!Spots' /\ x[1] = t[1] - 1 /\ x[2] = t[2]
      BY <1>8, <2>1, <3>1
    <3> HIDE DEF x
    <3>3. f[x] = t
      BY <1>7, <2>1, <3>1, <3>2
    <3> QED
      BY <3>2, <3>3
  <2> QED
    BY <2>3, <2>4
<1>13. ASSUME NEW x \in Templates!Spots', NEW y \in Templates!Spots'
       PROVE  /\ x = y <=> f[x] = f[y]
              /\ Templates!Before(x, y) <=> Templates!Before(f[x], f[y])
  <2>1. /\ x = <<x[1], x[2]>> /\ x[1] \in Nat /\ x[2] \in Nat
        /\ y = <<y[1], y[2]>> /\ y[1] \in Nat /\ y[2] \in Nat
    BY <1>5, SpotWillBe
  <2>2. f[x] = IF x[1] < g THEN x ELSE <<x[1] + 1, x[2]>>
    BY <1>7
  <2>3. f[y] = IF y[1] < g THEN y ELSE <<y[1] + 1, y[2]>>
    BY <1>7
  <2>4. g \in Nat
    BY <1>1
  <2>5. /\ f[x][2] = x[2] /\ f[x][1] = IF x[1] < g THEN x[1] ELSE x[1] + 1
        /\ f[x] = <<f[x][1], f[x][2]>>
    BY <2>1, <2>2
  <2>6. /\ f[y][2] = y[2] /\ f[y][1] = IF y[1] < g THEN y[1] ELSE y[1] + 1
        /\ f[y] = <<f[y][1], f[y][2]>>
    BY <2>1, <2>3
  <2>7. x = y <=> f[x] = f[y]
    BY <2>1, <2>4, <2>5, <2>6
  <2>8. Templates!Before(x, y) <=> Templates!Before(f[x], f[y])
    BY <2>1, <2>4, <2>5, <2>6 DEF Templates!Before
  <2> QED
    BY <2>7, <2>8
<1> QED
  BY <1>5, <1>11, <1>12, <1>13 DEF Shifted

LEMMA DeleteSpots ==
  ASSUME FileOK, NEW s \in Templates!Spots,
         LET left == Templates!Without(tFile[s[1]], s[2])
         IN  tFile' = IF left.keys = {} THEN Templates!RemoveAt(tFile, s[1])
                      ELSE [tFile EXCEPT ![s[1]] = left]
  PROVE  FileOK' /\ \E f : Shifted(f, Templates!Spots \ {s}, Templates!Spots')
<1> DEFINE left == Templates!Without(tFile[s[1]], s[2])
<1>1. left.keys = {} => Len(tFile[s[1]].list) = 1
  BY SpotIs, RemovedFrom
<1>2. CASE left.keys = {}
  BY <1>1, <1>2, RemoveWholeBlock
<1>3. CASE left.keys # {}
  BY <1>3, RemoveFromBlock
<1> QED
  BY <1>2, <1>3

-----------------------------------------------------------------------------
(* What callers see                                                          *)

LEMMA BeforeIsStrict ==
  /\ FileOK => \A x, y \in Templates!Spots : ~(Templates!Before(x, y) /\ Templates!Before(y, x))
  /\ FileOK' => \A x, y \in Templates!Spots' : ~(Templates!Before(x, y) /\ Templates!Before(y, x))
<1>1. ASSUME FileOK, NEW x \in Templates!Spots, NEW y \in Templates!Spots
      PROVE  ~(Templates!Before(x, y) /\ Templates!Before(y, x))
  <2>1. x[1] \in Nat /\ x[2] \in Nat /\ y[1] \in Nat /\ y[2] \in Nat
    BY <1>1, SpotIs
  <2> QED
    BY <2>1 DEF Templates!Before
<1>2. ASSUME FileOK', NEW x \in Templates!Spots', NEW y \in Templates!Spots'
      PROVE  ~(Templates!Before(x, y) /\ Templates!Before(y, x))
  <2>1. x[1] \in Nat /\ x[2] \in Nat /\ y[1] \in Nat /\ y[2] \in Nat
    BY <1>2, SpotWillBe
  <2> QED
    BY <2>1 DEF Templates!Before
<1> QED
  BY <1>1, <1>2

Leads(w, t) == t \in UidSpots(w) /\ \A y \in UidSpots(w) : y = t \/ Templates!Before(t, y)

LEMMA ReachedIs ==
  ASSUME NEW w
  PROVE  /\ \A e : e \in Templates!Reached(w) <=> \E t : Leads(w, t) /\ e = Templates!EntityAt(t)
         /\ \A e : e \in Templates!Reached(w)' <=> \E t : Leads(w, t)' /\ e = Templates!EntityAt(t)'
<1>1. \A t : t \in {s \in Templates!Spots : Templates!First(w, s)} <=> Leads(w, t)
  BY DEF Templates!First, Leads, UidSpots
<1>2. \A t : t \in {s \in Templates!Spots : Templates!First(w, s)}' <=> Leads(w, t)'
  BY DEF Templates!First, Leads, UidSpots
<1>3. \A e : e \in Templates!Reached(w) <=>
        \E t \in {t \in Templates!Spots : Templates!First(w, t)} : e = Templates!EntityAt(t)
  BY DEF Templates!Reached
<1>4. \A e : e \in Templates!Reached(w)' <=>
        \E t \in {t \in Templates!Spots : Templates!First(w, t)}' : e = Templates!EntityAt(t)'
  BY DEF Templates!Reached
<1> QED
  BY <1>1, <1>2, <1>3, <1>4

(* The name that a caller uses means what it meant.                          *)
Same(w) == /\ Templates!Reached(w)' = Templates!Reached(w)
           /\ w \in Templates!AllUids' <=> w \in Templates!AllUids

LEMMA ShiftedIsSame ==
  ASSUME NEW w, NEW f,
         \A t \in UidSpots(w)' : /\ f[t] \in UidSpots(w)
                                 /\ Templates!EntityAt(t)' = Templates!EntityAt(f[t]),
         \A t \in UidSpots(w) : \E x \in UidSpots(w)' : f[x] = t,
         \A x, y \in UidSpots(w)' : /\ x = y <=> f[x] = f[y]
                                    /\ Templates!Before(x, y) <=> Templates!Before(f[x], f[y])
  PROVE  Same(w) /\ (Templates!Twice(w)' => Templates!Twice(w))
<1> DEFINE old == UidSpots(w)
           new == UidSpots(w)'
<1>1. \A t \in new : f[t] \in old /\ Templates!EntityAt(t)' = Templates!EntityAt(f[t])
  OBVIOUS
<1>10. \A t \in old : \E x \in new : f[x] = t
  OBVIOUS
<1>11. \A x, y \in new : /\ x = y <=> f[x] = f[y]
                         /\ Templates!Before(x, y) <=> Templates!Before(f[x], f[y])
  OBVIOUS
<1>2. \A t : Leads(w, t) <=> t \in old /\ \A y \in old : y = t \/ Templates!Before(t, y)
  BY DEF Leads
<1>3. \A t : Leads(w, t)' <=> t \in new /\ \A y \in new : y = t \/ Templates!Before(t, y)
  BY DEF Leads
<1> HIDE DEF old, new
<1>12. \A t \in new : f[t] \in old
  BY <1>1
<1>4. (old = {} <=> new = {}) /\ ((\E x, y \in new : x # y) => \E x, y \in old : x # y)
  <2>1. old = {} <=> new = {}
    BY <1>10, <1>12
  <2>2. ASSUME NEW x \in new, NEW y \in new, x # y PROVE \E p, q \in old : p # q
    BY <1>11, <1>12, <2>2
  <2> QED
    BY <2>1, <2>2
<1>5. /\ w \in Templates!AllUids' <=> w \in Templates!AllUids
      /\ Templates!Twice(w)' => Templates!Twice(w)
  BY <1>4, UidsStand DEF old, new
<1>6. ASSUME NEW t, Leads(w, t)' PROVE Leads(w, f[t]) /\ Templates!EntityAt(t)' = Templates!EntityAt(f[t])
  <2>1. t \in new /\ \A y \in new : y = t \/ Templates!Before(t, y)
    BY <1>3, <1>6
  <2>2. ASSUME NEW y \in old PROVE y = f[t] \/ Templates!Before(f[t], y)
    <3>1. PICK x \in new : f[x] = y
      BY <1>1, <1>10, <1>11
    <3> QED
      BY <1>1, <1>10, <1>11, <2>1, <3>1
  <2> QED
    BY <1>1, <1>2, <2>1, <2>2
<1>7. ASSUME NEW t, Leads(w, t)
      PROVE  \E x : Leads(w, x)' /\ Templates!EntityAt(x)' = Templates!EntityAt(t)
  <2>1. t \in old /\ \A y \in old : y = t \/ Templates!Before(t, y)
    BY <1>2, <1>7
  <2>2. PICK x \in new : f[x] = t
    BY <1>10, <2>1
  <2>3. \A y \in new : y = x \/ Templates!Before(x, y)
    <3> SUFFICES ASSUME NEW y \in new PROVE y = x \/ Templates!Before(x, y)
      OBVIOUS
    <3>1. f[y] \in old /\ (f[y] = f[x] \/ Templates!Before(f[x], f[y]))
      BY <1>12, <2>1, <2>2
    <3> QED
      BY <1>11, <2>2, <3>1
  <2> QED
    BY <1>1, <1>3, <2>2, <2>3
<1>8. \A e : e \in Templates!Reached(w)' <=> e \in Templates!Reached(w)
  <2>1. \A e : e \in Templates!Reached(w)' => e \in Templates!Reached(w)
    BY <1>6, ReachedIs
  <2>2. \A e : e \in Templates!Reached(w) => e \in Templates!Reached(w)'
    BY <1>7, ReachedIs
  <2> QED
    BY <2>1, <2>2
<1>9. Templates!Reached(w)' = Templates!Reached(w)
  BY <1>8
<1> QED
  BY <1>5, <1>9 DEF Same

LEMMA UnmovedIsSame ==
  ASSUME NEW w, UidSpots(w)' = UidSpots(w),
         \A t \in UidSpots(w) : Templates!EntityAt(t)' = Templates!EntityAt(t)
  PROVE  Same(w) /\ (Templates!Twice(w)' => Templates!Twice(w))
<1>1. PICK f : f = [t \in UidSpots(w) |-> t]
  OBVIOUS
<1>2. \A t \in UidSpots(w) : f[t] = t
  BY <1>1
<1> QED
  BY <1>2, ShiftedIsSame

(* Shown, the entity under each name.                                        *)
TheOne(S) == CHOOSE e \in S : TRUE

LEMMA ShownIs ==
  /\ Templates!Shown = [u \in Templates!AllUids |-> TheOne(Templates!Reached(u))]
  /\ Templates!Shown' = [u \in Templates!AllUids' |-> TheOne(Templates!Reached(u)')]
  /\ Templates!Callers!Key = Templates!AllUids
  /\ Templates!Callers!Key' = Templates!AllUids'
<1>1. Templates!Shown = [u \in Templates!AllUids |-> TheOne(Templates!Reached(u))]
  BY DEF Templates!Shown, TheOne
<1>2. Templates!Shown' = [u \in Templates!AllUids' |-> TheOne(Templates!Reached(u)')]
  BY DEF Templates!Shown, TheOne
<1> QED
  BY <1>1, <1>2 DEF Templates!Callers!Key

LEMMA OnlyMeans ==
  ASSUME NEW K, \A w : w \notin K => Same(w)
  PROVE  /\ Templates!Callers!Only(K)
         /\ \A w : w \notin K => (w \in Templates!Callers!Key' <=> w \in Templates!Callers!Key)
<1>1. \A w : w \notin K => (w \in Templates!AllUids' <=> w \in Templates!AllUids)
  BY DEF Same
<1>2. Templates!AllUids' \ K = Templates!AllUids \ K
  BY <1>1
<1>3. \A w \in Templates!AllUids \ K : Templates!Shown'[w] = Templates!Shown[w]
  BY <1>2, ShownIs DEF Same
<1>4. Templates!Callers!Only(K)
  BY <1>2, <1>3, ShownIs DEF Templates!Callers!Only, Templates!Callers!Restrict
<1> QED
  BY <1>1, <1>4, ShownIs

LEMMA LeaderIsShown ==
  ASSUME FileOK, NEW u, NEW s, Leads(u, s)
  PROVE  u \in Templates!AllUids /\ Templates!Shown[u] = Templates!EntityAt(s)
<1>1. s \in UidSpots(u) /\ \A y \in UidSpots(u) : y = s \/ Templates!Before(s, y)
  BY DEF Leads
<1>2. \A t : Leads(u, t) => t = s
  BY <1>1, BeforeIsStrict DEF Leads, UidSpots
<1>3. Templates!Reached(u) = {Templates!EntityAt(s)}
  BY <1>2, ReachedIs
<1>4. TheOne({Templates!EntityAt(s)}) = Templates!EntityAt(s)
  BY DEF TheOne
<1> QED
  BY <1>1, <1>3, <1>4, ShownIs, UidsStand

LEMMA LeaderWillBeShown ==
  ASSUME FileOK', NEW u, NEW s, Leads(u, s)'
  PROVE  u \in Templates!AllUids' /\ Templates!Shown'[u] = Templates!EntityAt(s)'
<1>1. s \in UidSpots(u)' /\ \A y \in UidSpots(u)' : y = s \/ Templates!Before(s, y)
  BY DEF Leads
<1>2. \A t : Leads(u, t)' => t = s
  BY <1>1, BeforeIsStrict DEF Leads, UidSpots
<1>3. Templates!Reached(u)' = {Templates!EntityAt(s)'}
  BY <1>2, ReachedIs
<1>4. TheOne({Templates!EntityAt(s)'}) = Templates!EntityAt(s)'
  BY DEF TheOne
<1> QED
  BY <1>1, <1>3, <1>4, ShownIs, UidsStand

LEMMA FirstLeads ==
  ASSUME NEW u, NEW s \in Templates!Spots, Templates!First(u, s)
  PROVE  Leads(u, s) /\ Templates!UidAt(s) = u
  BY DEF Templates!First, Leads, UidSpots

LEMMA SpotTyped ==
  ASSUME FileOK, NEW s \in Templates!Spots
  PROVE  Templates!EntityAt(s) \in Templates!Entity
  BY SpotIs, BlockIs DEF Templates!EntityAt

-----------------------------------------------------------------------------
(* What a request does, under the names it has                               *)

LEMMA PutDoesAsAsked ==
  ASSUME FileOK, NEW r, NEW u, NEW i \in Item, Templates!Put(r, u, i)
  PROVE  /\ FileOK'
         /\ IF i.uid = u THEN Templates!Callers!Update(u, [Templates!Shown[u] EXCEPT !.item = i])
                         ELSE Templates!Callers!Only({u, i.uid})
         /\ \A w : Templates!Twice(w)' => Templates!Twice(w) \/ (i.uid = w /\ u # w)
<1>1. PICK s \in Templates!Spots :
        Templates!First(u, s) /\ tFile' = [tFile EXCEPT ![s[1]].list[s[2]].item = i]
  BY DEF Templates!Put
<1>2. /\ FileOK' /\ Templates!Spots' = Templates!Spots
      /\ \A t \in Templates!Spots : Templates!EntityAt(t)' =
           IF t = s THEN [Templates!EntityAt(s) EXCEPT !.item = i] ELSE Templates!EntityAt(t)
  BY <1>1, PutSpots
<1>3. \A t \in Templates!Spots : Templates!UidAt(t)' = IF t = s THEN i.uid ELSE Templates!UidAt(t)
  BY <1>2, SpotTyped DEF Templates!UidAt, Templates!Entity
<1>4. Leads(u, s) /\ Templates!UidAt(s) = u
  BY <1>1, FirstLeads
<1>5. \A w, t : t \in UidSpots(w)' <=>
        t \in Templates!Spots /\ w = IF t = s THEN i.uid ELSE Templates!UidAt(t)
  BY <1>2, <1>3 DEF UidSpots
<1>6. \A w, t : t \in UidSpots(w) <=> t \in Templates!Spots /\ w = Templates!UidAt(t)
  BY DEF UidSpots
<1>7. ASSUME NEW w, w \notin {u, i.uid} PROVE Same(w) /\ (Templates!Twice(w)' => Templates!Twice(w))
  <2>1. \A t \in UidSpots(w) : t # s
    BY <1>4, <1>6, <1>7
  <2>2. \A t : t \in UidSpots(w)' <=> t \in UidSpots(w)
    BY <1>4, <1>5, <1>6, <1>7
  <2>3. UidSpots(w)' = UidSpots(w)
    BY <2>2
  <2>4. \A t \in UidSpots(w) : Templates!EntityAt(t)' = Templates!EntityAt(t)
    BY <1>2, <1>6, <2>1
  <2> QED
    BY <2>3, <2>4, UnmovedIsSame
<1>8. /\ Templates!Callers!Only({u, i.uid})
      /\ \A w : w \notin {u, i.uid} => (w \in Templates!Callers!Key' <=> w \in Templates!Callers!Key)
  BY <1>7, OnlyMeans
<1>9. ASSUME i.uid = u PROVE Templates!Callers!Update(u, [Templates!Shown[u] EXCEPT !.item = i])
  <2>1. \A t : t \in UidSpots(u)' <=> t \in UidSpots(u)
    BY <1>4, <1>5, <1>6, <1>9
  <2>2. UidSpots(u)' = UidSpots(u)
    BY <2>1
  <2>3. Leads(u, s)'
    BY <1>4, <2>2 DEF Leads
  <2>4. u \in Templates!AllUids' /\ Templates!Shown'[u] = Templates!EntityAt(s)'
    BY <1>2, <2>3, LeaderWillBeShown
  <2>5. u \in Templates!AllUids /\ Templates!Shown[u] = Templates!EntityAt(s)
    BY <1>4, LeaderIsShown
  <2>6. Templates!Shown'[u] = [Templates!Shown[u] EXCEPT !.item = i]
    BY <1>1, <1>2, <2>4, <2>5
  <2>7. {u, i.uid} = {u}
    BY <1>9
  <2>8. u \in Templates!Callers!Key /\ u \in Templates!Callers!Key'
    BY <2>4, <2>5, ShownIs
  <2>9. Templates!Callers!Key' = Templates!Callers!Key
    BY <1>8, <2>7, <2>8
  <2> QED
    BY <1>8, <2>6, <2>7, <2>8, <2>9 DEF Templates!Callers!Update
<1>10. ASSUME NEW w, Templates!Twice(w)', ~(i.uid = w /\ u # w) PROVE Templates!Twice(w)
  <2>1. CASE w \notin {u, i.uid}
    BY <1>7, <1>10, <2>1
  <2>2. CASE w = u
    <3>1. \A t : t \in UidSpots(w)' => t \in UidSpots(w)
      BY <1>4, <1>5, <1>6, <2>2
    <3> QED
      BY <1>10, <3>1, UidsStand
  <2> QED
    BY <1>10, <2>1, <2>2
<1> QED
  BY <1>2, <1>8, <1>9, <1>10

LEMMA LeastOf ==
  ASSUME NEW S, S \subseteq Nat, S # {}
  PROVE  \E m \in S : \A i \in S : m <= i
<1>1. PICK m \in S : \A i \in S : ~(<<i, m>> \in OpToRel(<, Nat))
  BY NatLessThanWellFounded, WFMin
<1>2. \A i \in S : ~(i < m)
  BY <1>1 DEF OpToRel
<1> QED
  BY <1>2

LEMMA PostDoesAsAsked ==
  ASSUME FileOK, NEW b \in Templates!Block, b.keys # {}, tFile' = Append(tFile, b),
         Templates!UidsOf(b) \cap Templates!AllUids = {}
  PROVE  /\ FileOK' /\ Templates!Callers!Create(Templates!UidsOf(b), Templates!EntitiesOf(b))
         /\ \A w : Templates!Twice(w)' =>
              \/ Templates!Twice(w)
              \/ \E i, j \in DOMAIN b.list : /\ i # j /\ b.list[i].item.uid = w
                                             /\ b.list[j].item.uid = w
<1> DEFINE K == Templates!UidsOf(b)
<1>1. PICK n : n = Len(tFile) + 1
  OBVIOUS
<1>2. /\ FileOK' /\ Templates!Spots \subseteq Templates!Spots'
      /\ \A t \in Templates!Spots : Templates!EntityAt(t)' = Templates!EntityAt(t)
      /\ \A i \in 1 .. Len(b.list) : /\ <<n, i>> \in Templates!Spots'
                                     /\ Templates!EntityAt(<<n, i>>)' = b.list[i]
      /\ \A t \in Templates!Spots' \ Templates!Spots : \E i \in 1 .. Len(b.list) : t = <<n, i>>
  BY <1>1, PostSpots
<1>3. /\ DOMAIN b.list = 1 .. Len(b.list) /\ Len(b.list) \in Nat
      /\ \A w : w \in K <=> \E i \in 1 .. Len(b.list) : b.list[i].item.uid = w
      /\ \A i \in 1 .. Len(b.list) : b.list[i] \in Templates!EntitiesOf(b)
  BY BlockIs DEF Templates!UidsOf, Templates!EntitiesOf
<1>4. K \cap Templates!AllUids = {}
  OBVIOUS
<1> HIDE DEF K
<1>5. \A t \in Templates!Spots : Templates!UidAt(t)' = Templates!UidAt(t)
  BY <1>2 DEF Templates!UidAt
<1>6. \A i \in 1 .. Len(b.list) : Templates!UidAt(<<n, i>>)' = b.list[i].item.uid
  BY <1>2 DEF Templates!UidAt
<1>7. ASSUME NEW w, w \notin K PROVE Same(w) /\ (Templates!Twice(w)' => Templates!Twice(w))
  <2>1. \A t : t \in UidSpots(w)' <=> t \in UidSpots(w)
    BY <1>2, <1>3, <1>5, <1>6, <1>7 DEF UidSpots
  <2>2. UidSpots(w)' = UidSpots(w)
    BY <2>1
  <2> QED
    BY <1>2, <2>2, UnmovedIsSame DEF UidSpots
<1>8. ASSUME NEW w \in K, NEW t \in UidSpots(w)'
      PROVE  \E i \in 1 .. Len(b.list) : t = <<n, i>> /\ b.list[i].item.uid = w
  <2>1. UidSpots(w) = {}
    BY <1>4, UidsStand
  <2>2. t \notin Templates!Spots
    BY <1>5, <2>1 DEF UidSpots
  <2>3. t \in Templates!Spots' /\ Templates!UidAt(t)' = w
    BY DEF UidSpots
  <2> QED
    BY <1>2, <1>6, <2>2, <2>3
<1>9. ASSUME NEW w \in K
      PROVE  /\ w \in Templates!AllUids' /\ w \notin Templates!AllUids
             /\ Templates!Shown'[w] \in Templates!EntitiesOf(b)
  <2> DEFINE S == {i \in 1 .. Len(b.list) : b.list[i].item.uid = w}
  <2>0. S \subseteq Nat /\ S # {}
    BY <1>3
  <2>1. PICK m \in S : \A i \in S : m <= i
    <3> HIDE DEF S
    <3> QED
      BY <2>0, LeastOf
  <2>2. <<n, m>> \in UidSpots(w)' /\ Templates!EntityAt(<<n, m>>)' = b.list[m]
    BY <1>2, <1>6 DEF UidSpots
  <2>3. \A t \in UidSpots(w)' : t = <<n, m>> \/ Templates!Before(<<n, m>>, t)
    <3> SUFFICES ASSUME NEW t \in UidSpots(w)' PROVE t = <<n, m>> \/ Templates!Before(<<n, m>>, t)
      OBVIOUS
    <3>1. PICK i \in S : t = <<n, i>>
      BY <1>8
    <3>2. m <= i /\ m \in Nat /\ i \in Nat
      BY <1>3, <2>1
    <3> QED
      BY <3>1, <3>2 DEF Templates!Before
  <2>4. Leads(w, <<n, m>>)'
    BY <2>2, <2>3 DEF Leads
  <2>5. w \in Templates!AllUids' /\ Templates!Shown'[w] = b.list[m]
    BY <1>2, <2>2, <2>4, LeaderWillBeShown
  <2> QED
    BY <1>3, <1>4, <2>5
<1>10. /\ Templates!Callers!Only(K)
       /\ \A w : w \notin K => (w \in Templates!Callers!Key' <=> w \in Templates!Callers!Key)
  BY <1>7, OnlyMeans
<1>11. K \cap Templates!Callers!Key = {} /\ Templates!Callers!Key' = Templates!Callers!Key \cup K
  <2>1. \A w \in K : w \in Templates!Callers!Key' /\ w \notin Templates!Callers!Key
    BY <1>9, ShownIs
  <2> QED
    BY <1>10, <2>1
<1>12. Templates!Callers!Create(K, Templates!EntitiesOf(b))
  BY <1>9, <1>10, <1>11 DEF Templates!Callers!Create
<1>13. ASSUME NEW w \in K, Templates!Twice(w)'
       PROVE  \E i, j \in DOMAIN b.list : /\ i # j /\ b.list[i].item.uid = w
                                         /\ b.list[j].item.uid = w
  <2>1. PICK x \in UidSpots(w)', y \in UidSpots(w)' : x # y
    BY <1>13, UidsStand
  <2>2. PICK i \in 1 .. Len(b.list) : x = <<n, i>> /\ b.list[i].item.uid = w
    BY <1>8
  <2>3. PICK j \in 1 .. Len(b.list) : y = <<n, j>> /\ b.list[j].item.uid = w
    BY <1>8
  <2> QED
    BY <1>3, <2>1, <2>2, <2>3
<1> QED
  BY <1>2, <1>7, <1>12, <1>13 DEF K

LEMMA PostBareDoesAsAsked ==
  ASSUME FileOK, NEW r, NEW i \in Item, Templates!PostBare(r, i)
  PROVE  /\ FileOK'
         /\ Templates!Callers!Create({i.uid}, {[dom |-> i.dom, item |-> i]})
         /\ \A w : Templates!Twice(w)' => Templates!Twice(w)
<1> DEFINE b == Templates!Bare(i)
<1>1. /\ b \in Templates!Block /\ b.keys # {} /\ b.list = <<[dom |-> i.dom, item |-> i]>>
      /\ Templates!EntitiesOf(b) = {[dom |-> i.dom, item |-> i]} /\ Templates!UidsOf(b) = {i.uid}
  BY BareIsABlock
<1>2. tFile' = Append(tFile, b) /\ i.uid \notin Templates!AllUids
  BY DEF Templates!PostBare
<1> HIDE DEF b
<1>3. DOMAIN b.list = {1}
  BY <1>1
<1>4. Templates!UidsOf(b) \cap Templates!AllUids = {}
  BY <1>1, <1>2
<1>5. /\ FileOK' /\ Templates!Callers!Create(Templates!UidsOf(b), Templates!EntitiesOf(b))
      /\ \A w : Templates!Twice(w)' =>
           \/ Templates!Twice(w)
           \/ \E k, j \in DOMAIN b.list : /\ k # j /\ b.list[k].item.uid = w
                                          /\ b.list[j].item.uid = w
  BY <1>1, <1>2, <1>4, PostDoesAsAsked
<1> QED
  BY <1>1, <1>3, <1>5

LEMMA PostBlockDoesAsAsked ==
  ASSUME FileOK, NEW r, NEW b \in Full, Templates!PostBlock(r, b)
  PROVE  /\ FileOK' /\ Templates!Callers!Create(Templates!UidsOf(b), Templates!EntitiesOf(b))
         /\ \A w \in Templates!Uids : Templates!Twice(w)' =>
              Templates!Twice(w) \/ w \in Templates!TwiceIn(b)
<1>1. b \in Templates!Block /\ b.keys # {}
  BY FullAssumption
<1>2. tFile' = Append(tFile, b) /\ Templates!UidsOf(b) \cap Templates!AllUids = {}
  BY DEF Templates!PostBlock
<1> QED
  BY <1>1, <1>2, PostDoesAsAsked DEF Templates!TwiceIn

LEMMA DeleteDoesAsAsked ==
  ASSUME FileOK, NEW r, NEW u, Templates!Delete(r, u)
  PROVE  /\ FileOK'
         /\ IF Templates!Twice(u) THEN Templates!Callers!Only({u}) ELSE Templates!Callers!Delete(u)
         /\ \A w : Templates!Twice(w)' => Templates!Twice(w)
<1>1. PICK s \in Templates!Spots :
        /\ Templates!First(u, s)
        /\ LET left == Templates!Without(tFile[s[1]], s[2])
           IN  tFile' = IF left.keys = {} THEN Templates!RemoveAt(tFile, s[1])
                        ELSE [tFile EXCEPT ![s[1]] = left]
  BY DEF Templates!Delete
<1>2. Leads(u, s) /\ Templates!UidAt(s) = u
  BY <1>1, FirstLeads
<1>3. FileOK' /\ \E f : Shifted(f, Templates!Spots \ {s}, Templates!Spots')
  BY <1>1, DeleteSpots
<1>4. PICK f : Shifted(f, Templates!Spots \ {s}, Templates!Spots')
  BY <1>3
<1>5. /\ \A t \in Templates!Spots' : /\ f[t] \in Templates!Spots \ {s}
                                     /\ Templates!EntityAt(t)' = Templates!EntityAt(f[t])
      /\ \A t \in Templates!Spots \ {s} : \E x \in Templates!Spots' : f[x] = t
      /\ \A x, y \in Templates!Spots' : /\ x = y <=> f[x] = f[y]
                                        /\ Templates!Before(x, y) <=> Templates!Before(f[x], f[y])
  BY <1>4 DEF Shifted
<1>6. \A t \in Templates!Spots' : Templates!UidAt(t)' = Templates!UidAt(f[t])
  BY <1>5 DEF Templates!UidAt
<1>7. ASSUME NEW w, w # u PROVE Same(w) /\ (Templates!Twice(w)' => Templates!Twice(w))
  <2>1. \A t \in UidSpots(w)' : f[t] \in UidSpots(w) /\ Templates!EntityAt(t)' = Templates!EntityAt(f[t])
    BY <1>5, <1>6 DEF UidSpots
  <2>2. \A t \in UidSpots(w) : \E x \in UidSpots(w)' : f[x] = t
    BY <1>2, <1>5, <1>6, <1>7 DEF UidSpots
  <2>3. \A x, y \in UidSpots(w)' : /\ x = y <=> f[x] = f[y]
                                   /\ Templates!Before(x, y) <=> Templates!Before(f[x], f[y])
    BY <1>5 DEF UidSpots
  <2> QED
    BY <2>1, <2>2, <2>3, ShiftedIsSame
<1>8. /\ Templates!Callers!Only({u})
      /\ \A w : w \notin {u} => (w \in Templates!Callers!Key' <=> w \in Templates!Callers!Key)
  BY <1>7, OnlyMeans
<1>9. \A x \in UidSpots(u)' : f[x] \in UidSpots(u) /\ f[x] # s
  BY <1>5, <1>6 DEF UidSpots
<1>10. s \in UidSpots(u)
  BY <1>2 DEF Leads
<1>11. Templates!Twice(u)' => Templates!Twice(u)
  <2> SUFFICES ASSUME NEW x \in UidSpots(u)' PROVE Templates!Twice(u)
    BY UidsStand
  <2> QED
    BY <1>9, <1>10, UidsStand
<1>12. ASSUME ~Templates!Twice(u) PROVE Templates!Callers!Delete(u)
  <2>1. UidSpots(u)' = {}
    BY <1>9, <1>10, <1>12, UidsStand
  <2>2. u \in Templates!Callers!Key /\ u \notin Templates!Callers!Key'
    BY <1>10, <2>1, UidsStand, ShownIs
  <2>3. Templates!Callers!Key' = Templates!Callers!Key \ {u}
    BY <1>8, <2>2
  <2> QED
    BY <1>8, <2>2, <2>3 DEF Templates!Callers!Delete
<1> QED
  BY <1>3, <1>7, <1>8, <1>11, <1>12

-----------------------------------------------------------------------------
(***************************************************************************)
(* The invariant: what runs is in the file, in a block HA takes, or has    *)
(* been touched by a PUT or DELETE since HA last read it; and nothing runs *)
(* beside its own ghost.                                                   *)
(***************************************************************************)

Lit == UNION {Templates!IdsOf(tFile[g]) : g \in {g \in DOMAIN tFile : Templates!Accepted(tFile[g])}}

LiveIsLit   == \A s \in tStates : s.live => Templates!IdOf(s) \in tEdited \cup Lit
NoGhostRuns == \A s, t \in tStates : s.live /\ ~t.live => Templates!IdOf(s) # Templates!IdOf(t)

TemplInv == Templates!TypeOK /\ FileOK /\ LiveIsLit /\ NoGhostRuns

(* The file may change so that what was lit is lit, or was touched.          *)
FileStep == FileOK' /\ Lit \subseteq Lit' \cup tEdited' /\ tEdited \subseteq tEdited'
              /\ tEdited' \subseteq EntityDomains \X Templates!Uids

LEMMA IdsTyped ==
  ASSUME FileOK, NEW g \in 1 .. Len(tFile)
  PROVE  /\ Templates!IdsOf(tFile[g]) \subseteq EntityDomains \X Templates!Uids
         /\ \A e \in Templates!EntitiesOf(tFile[g]) : e \in Templates!Entity
<1>1. \A e \in Templates!EntitiesOf(tFile[g]) : e \in Templates!Entity
  BY SpotIs, BlockIs DEF Templates!EntitiesOf
<1> QED
  BY <1>1, EntityIs DEF Templates!IdsOf

LEMMA WritesAreFileSteps ==
  ASSUME FileOK, tEdited \subseteq EntityDomains \X Templates!Uids, NEW r \in Slots,
         \/ \E u : \E i \in Item : Templates!Put(r, u, i)
         \/ \E u : Templates!Delete(r, u)
         \/ \E b \in Full : Templates!PostBlock(r, b)
         \/ \E i \in Item : Templates!PostBare(r, i)
  PROVE  FileStep
<1>0. DOMAIN tFile = 1 .. Len(tFile) /\ Len(tFile) \in Nat
  BY SpotIs
<1>1. ASSUME NEW u, NEW i \in Item, Templates!Put(r, u, i) PROVE FileStep
  <2>1. PICK s \in Templates!Spots :
          /\ tFile' = [tFile EXCEPT ![s[1]].list[s[2]].item = i]
          /\ tEdited' = tEdited \cup Templates!IdsOf(tFile[s[1]])
    BY <1>1 DEF Templates!Put
  <2>2. PICK g \in 1 .. Len(tFile) : g = s[1]
    BY SpotIs
  <2>3. \A h \in DOMAIN tFile : h # g => tFile'[h] = tFile[h]
    BY <2>1, <2>2
  <2>4. DOMAIN tFile' = DOMAIN tFile
    BY <2>1
  <2>5. Lit \subseteq Lit' \cup Templates!IdsOf(tFile[g])
    BY <1>0, <2>3, <2>4 DEF Lit
  <2>6. FileOK'
    BY <1>1, PutDoesAsAsked
  <2>7. Templates!IdsOf(tFile[g]) \subseteq EntityDomains \X Templates!Uids
    BY IdsTyped
  <2> QED
    BY <2>1, <2>2, <2>5, <2>6, <2>7 DEF FileStep
<1>2. ASSUME NEW u, Templates!Delete(r, u) PROVE FileStep
  <2>1. PICK s \in Templates!Spots :
          /\ LET left == Templates!Without(tFile[s[1]], s[2])
             IN  tFile' = IF left.keys = {} THEN Templates!RemoveAt(tFile, s[1])
                          ELSE [tFile EXCEPT ![s[1]] = left]
          /\ tEdited' = tEdited \cup Templates!IdsOf(tFile[s[1]])
    BY <1>2 DEF Templates!Delete
  <2>2. PICK g \in 1 .. Len(tFile) : g = s[1]
    BY SpotIs
  <2>3. \A h \in DOMAIN tFile : h # g => \E k \in DOMAIN tFile' : tFile'[k] = tFile[h]
    <3>1. CASE tFile' = Templates!RemoveAt(tFile, g)
      <4>1. /\ tFile' \in Seq(Templates!Block) /\ Len(tFile') = Len(tFile) - 1
            /\ \A k \in 1 .. Len(tFile) - 1 : tFile'[k] = IF k < g THEN tFile[k] ELSE tFile[k + 1]
        BY <3>1, RemoveAtShifts DEF FileOK
      <4>2. DOMAIN tFile' = 1 .. Len(tFile) - 1
        BY <4>1
      <4> SUFFICES ASSUME NEW h \in 1 .. Len(tFile), h # g
                   PROVE  \E k \in 1 .. Len(tFile) - 1 : tFile'[k] = tFile[h]
        BY <1>0, <4>2
      <4>3. CASE h < g
        <5>1. h \in 1 .. Len(tFile) - 1
          BY <1>0, <4>3
        <5> QED
          BY <4>1, <4>3, <5>1
      <4>4. CASE ~(h < g)
        <5>1. h - 1 \in 1 .. Len(tFile) - 1 /\ ~(h - 1 < g) /\ (h - 1) + 1 = h
          BY <1>0, <4>4
        <5> QED
          BY <4>1, <5>1
      <4> QED
        BY <4>3, <4>4
    <3>2. ASSUME NEW left, tFile' = [tFile EXCEPT ![g] = left]
          PROVE  \A h \in DOMAIN tFile : h # g => \E k \in DOMAIN tFile' : tFile'[k] = tFile[h]
      BY <3>2
    <3> QED
      BY <2>1, <2>2, <3>1, <3>2
  <2>5. Lit \subseteq Lit' \cup Templates!IdsOf(tFile[g])
    BY <1>0, <2>3 DEF Lit
  <2>6. FileOK'
    BY <1>2, DeleteDoesAsAsked
  <2>7. Templates!IdsOf(tFile[g]) \subseteq EntityDomains \X Templates!Uids
    BY IdsTyped
  <2> QED
    BY <2>1, <2>2, <2>5, <2>6, <2>7 DEF FileStep
<1>3. ASSUME NEW b, tFile' = Append(tFile, b), tEdited' = tEdited, FileOK' PROVE FileStep
  <2>1. DOMAIN tFile \subseteq DOMAIN tFile' /\ \A g \in DOMAIN tFile : tFile'[g] = tFile[g]
    BY <1>0, <1>3 DEF FileOK
  <2>2. Lit \subseteq Lit'
    BY <2>1 DEF Lit
  <2> QED
    BY <1>3, <2>2 DEF FileStep
<1>4. ASSUME NEW b \in Full, Templates!PostBlock(r, b) PROVE FileStep
  BY <1>3, <1>4, PostBlockDoesAsAsked DEF Templates!PostBlock
<1>5. ASSUME NEW i \in Item, Templates!PostBare(r, i) PROVE FileStep
  BY <1>3, <1>5, PostBareDoesAsAsked DEF Templates!PostBare
<1> QED
  BY <1>1, <1>2, <1>4, <1>5

(* What HA may set up.                                                       *)
AllUp == UNION {Templates!Up(tFile[g]) : g \in DOMAIN tFile}

LEMMA UpIsLit ==
  ASSUME FileOK
  PROVE  /\ \A s \in AllUp : s \in Templates!State /\ s.live
         /\ {Templates!IdOf(s) : s \in AllUp} = Lit
<1>0. DOMAIN tFile = 1 .. Len(tFile)
  BY SpotIs
<1> DEFINE As(e) == [dom |-> e.dom, uid |-> e.item.uid, name |-> e.item.name, live |-> TRUE]
<1>1. \A s : s \in AllUp <=> \E g \in DOMAIN tFile : /\ Templates!Accepted(tFile[g])
                                                     /\ \E e \in Templates!EntitiesOf(tFile[g]) : s = As(e)
  BY DEF AllUp, Templates!Up
<1>2. \A g \in DOMAIN tFile : \A e \in Templates!EntitiesOf(tFile[g]) :
        As(e) \in Templates!State /\ As(e).live /\ Templates!IdOf(As(e)) = <<e.dom, e.item.uid>>
  BY <1>0, IdsTyped, EntityIs DEF Templates!State, Templates!IdOf
<1>3. \A x : x \in Lit <=> \E g \in DOMAIN tFile : /\ Templates!Accepted(tFile[g])
                                                   /\ \E e \in Templates!EntitiesOf(tFile[g]) : x = <<e.dom, e.item.uid>>
  BY DEF Lit, Templates!IdsOf
<1> HIDE DEF As
<1>4. \A x : x \in {Templates!IdOf(s) : s \in AllUp} <=> x \in Lit
  <2>1. ASSUME NEW s \in AllUp PROVE Templates!IdOf(s) \in Lit
    <3>1. PICK g \in DOMAIN tFile : /\ Templates!Accepted(tFile[g])
                                    /\ \E e \in Templates!EntitiesOf(tFile[g]) : s = As(e)
      BY <1>1
    <3>2. PICK e \in Templates!EntitiesOf(tFile[g]) : s = As(e)
      BY <3>1
    <3> QED
      BY <1>2, <1>3, <3>1, <3>2
  <2>2. ASSUME NEW x \in Lit PROVE \E s \in AllUp : x = Templates!IdOf(s)
    <3>1. PICK g \in DOMAIN tFile : /\ Templates!Accepted(tFile[g])
                                    /\ \E e \in Templates!EntitiesOf(tFile[g]) : x = <<e.dom, e.item.uid>>
      BY <1>3
    <3>2. PICK e \in Templates!EntitiesOf(tFile[g]) : x = <<e.dom, e.item.uid>>
      BY <3>1
    <3> QED
      BY <1>1, <1>2, <3>1, <3>2
  <2> QED
    BY <2>1, <2>2
<1>5. \A s \in AllUp : s \in Templates!State /\ s.live
  BY <1>1, <1>2
<1> QED
  BY <1>4, <1>5

LEMMA ComesUpIs ==
  ASSUME FileOK, NEW up, Templates!ComesUp(up)
  PROVE  /\ up \subseteq AllUp /\ Lit = {Templates!IdOf(s) : s \in up}
         /\ \A s \in up : s \in Templates!State /\ s.live
<1>1. up \subseteq AllUp /\ {Templates!IdOf(s) : s \in up} = {Templates!IdOf(s) : s \in AllUp}
  BY DEF Templates!ComesUp, AllUp
<1> QED
  BY <1>1, UpIsLit

LEMMA TemplInit == Templates!Init => TemplInv
<1> SUFFICES ASSUME Templates!Init PROVE TemplInv
  OBVIOUS
<1>1. PICK n \in 0 .. MaxBlocks : tFile \in [1 .. n -> Full]
  BY DEF Templates!Init
<1>2. FileOK
  <2>1. \A b \in Full : b \in Templates!Block /\ b.keys # {}
    BY FullAssumption
  <2>2. n \in Nat
    BY <1>1, BoundAssumption
  <2>3. tFile \in Seq(Templates!Block)
    BY <1>1, <2>1, <2>2
  <2> QED
    BY <1>1, <2>1, <2>3 DEF FileOK
<1>3. Templates!ComesUp(tStates) /\ tEdited = {} /\ tReq = [r \in Slots |-> Templates!Idle]
  BY DEF Templates!Init
<1>4. Lit = {Templates!IdOf(s) : s \in tStates} /\ \A s \in tStates : s \in Templates!State /\ s.live
  BY <1>2, <1>3, ComesUpIs
<1>5. Templates!TypeOK
  <2>1. tReq \in [Slots -> Templates!Requests]
    BY <1>3 DEF Templates!Requests
  <2> QED
    BY <1>2, <1>3, <1>4, <2>1 DEF Templates!TypeOK, FileOK
<1>6. LiveIsLit /\ NoGhostRuns
  BY <1>4 DEF LiveIsLit, NoGhostRuns
<1> QED
  BY <1>2, <1>5, <1>6 DEF TemplInv

-----------------------------------------------------------------------------
(* The steps keep the invariant                                              *)

LEMMA ArriveKeepsInv ==
  ASSUME TemplInv, NEW r \in Slots, Templates!Arrive(r)
  PROVE  TemplInv' /\ tStates' = tStates
<1>0. FileOK /\ tEdited \subseteq EntityDomains \X Templates!Uids
  BY DEF TemplInv, Templates!TypeOK
<1>1. CASE \E u \in Templates!Uids : Templates!NotFound(r, u)
  BY <1>1 DEF Templates!NotFound, Templates!vars, TemplInv, Templates!TypeOK, FileOK, LiveIsLit, NoGhostRuns, Lit
<1> DEFINE Writes == \/ \E u : \E i \in Item : Templates!Put(r, u, i)
                     \/ \E u : Templates!Delete(r, u)
                     \/ \E b \in Full : Templates!PostBlock(r, b)
                     \/ \E i \in Item : Templates!PostBare(r, i)
<1>2. ASSUME Writes PROVE TemplInv' /\ tStates' = tStates
  <2>1. FileStep
    BY <1>0, <1>2, WritesAreFileSteps
  <2>2. \E made \in SUBSET Templates!Entity : tReq' = [tReq EXCEPT ![r] = Templates!Reloading(made)]
    <3>1. ASSUME NEW b \in Full, Templates!PostBlock(r, b)
          PROVE  \E made \in SUBSET Templates!Entity : tReq' = [tReq EXCEPT ![r] = Templates!Reloading(made)]
      <4>1. Templates!EntitiesOf(b) \in SUBSET Templates!Entity
        BY FullAssumption, BlockIs DEF Templates!EntitiesOf
      <4> QED
        BY <3>1, <4>1 DEF Templates!PostBlock, Templates!Become
    <3>2. ASSUME NEW i \in Item, Templates!PostBare(r, i)
          PROVE  \E made \in SUBSET Templates!Entity : tReq' = [tReq EXCEPT ![r] = Templates!Reloading(made)]
      <4>1. {[dom |-> i.dom, item |-> i]} \in SUBSET Templates!Entity
        BY BareIsABlock
      <4> QED
        BY <3>2, <4>1 DEF Templates!PostBare, Templates!Become
    <3>3. ASSUME NEW u, NEW i, Templates!Put(r, u, i) \/ Templates!Delete(r, u)
          PROVE  \E made \in SUBSET Templates!Entity : tReq' = [tReq EXCEPT ![r] = Templates!Reloading(made)]
      <4>1. {} \in SUBSET Templates!Entity
        OBVIOUS
      <4> QED
        BY <3>3, <4>1 DEF Templates!Put, Templates!Delete, Templates!Become
    <3> QED
      BY <1>2, <3>1, <3>2, <3>3
  <2>3. tReq' \in [Slots -> Templates!Requests]
    <3>1. \A made \in SUBSET Templates!Entity : Templates!Reloading(made) \in Templates!Requests
      BY DEF Templates!Reloading, Templates!Requests
    <3> QED
      BY <2>2, <3>1 DEF TemplInv, Templates!TypeOK
  <2>4. tStates' = tStates
    BY <1>2 DEF Templates!Put, Templates!Delete, Templates!PostBlock, Templates!PostBare
  <2>5. Templates!TypeOK'
    BY <2>1, <2>3, <2>4 DEF TemplInv, FileStep, FileOK, Templates!TypeOK
  <2>6. LiveIsLit' /\ NoGhostRuns'
    BY <2>1, <2>4 DEF TemplInv, FileStep, LiveIsLit, NoGhostRuns
  <2> QED
    BY <2>1, <2>4, <2>5, <2>6 DEF TemplInv, FileStep
<1>4. (\E u \in Templates!Uids : Templates!NotFound(r, u)) \/ Writes
  BY DEF Templates!Arrive
<1> HIDE DEF Writes
<1>5. ASSUME NEW u, Templates!NotFound(r, u) PROVE tStates' = tStates
  BY <1>5 DEF Templates!NotFound, Templates!vars
<1> QED
  BY <1>1, <1>2, <1>4, <1>5

LEMMA HaReadsKeepsInv ==
  ASSUME TemplInv, Templates!HaReads, tFile' = tFile
  PROVE  /\ FileOK' /\ LiveIsLit' /\ NoGhostRuns'
         /\ tStates' \in SUBSET Templates!State /\ tEdited' = {}
<1> DEFINE Off(s) == [s EXCEPT !.live = FALSE]
<1>1. PICK up : /\ Templates!ComesUp(up) /\ tEdited' = {}
                /\ tStates' = up \cup {Off(s) : s \in {s \in tStates :
                                 \A u \in up : Templates!IdOf(u) # Templates!IdOf(s)}}
  BY DEF Templates!HaReads
<1>2. FileOK /\ FileOK' /\ Lit' = Lit
  BY DEF TemplInv, FileOK, Lit
<1>3. \A s \in up : s \in Templates!State /\ s.live /\ Templates!IdOf(s) \in Lit
  BY <1>1, <1>2, ComesUpIs
<1>4. \A s \in tStates : /\ Off(s) \in Templates!State /\ ~Off(s).live
                        /\ Templates!IdOf(Off(s)) = Templates!IdOf(s)
  BY DEF TemplInv, Templates!TypeOK, Templates!State, Templates!IdOf
<1>5. \A s \in tStates' : \/ s \in up
                          \/ \E x \in tStates : /\ s = Off(x)
                                                /\ \A u \in up : Templates!IdOf(u) # Templates!IdOf(x)
  BY <1>1
<1> HIDE DEF Off
<1>6. tStates' \in SUBSET Templates!State
  <2>1. ASSUME NEW s \in tStates' PROVE s \in Templates!State
    BY <1>3, <1>4, <1>5
  <2> QED
    BY <2>1
<1>7. \A s \in tStates' : s.live => s \in up
  BY <1>4, <1>5
<1>8. \A s \in tStates' : ~s.live => \A u \in up : Templates!IdOf(u) # Templates!IdOf(s)
  BY <1>3, <1>4, <1>5
<1>9. LiveIsLit'
  BY <1>2, <1>3, <1>7 DEF LiveIsLit
<1>10. NoGhostRuns'
  BY <1>7, <1>8 DEF NoGhostRuns
<1> QED
  BY <1>1, <1>2, <1>6, <1>9, <1>10

LEMMA ProceedKeepsInv ==
  ASSUME TemplInv, NEW r \in Slots, Templates!Proceed(r)
  PROVE  /\ TemplInv' /\ tFile' = tFile
         /\ Templates!HaReads \/ (tStates' = tStates /\ tEdited' = tEdited)
<1>0. tReq[r] \in Templates!Requests
  BY DEF TemplInv, Templates!TypeOK
<1>1. ASSUME NEW m \in SUBSET Templates!Entity PROVE Templates!Polling(m) \in Templates!Requests
  <2>1. CASE m = {}
    BY <2>1 DEF Templates!Polling, Templates!Requests
  <2>2. CASE m # {}
    <3>1. m \in (SUBSET Templates!Entity) \ {{}}
      BY <2>2
    <3>2. [pc |-> "polling", made |-> m] \in [pc : {"polling"}, made : (SUBSET Templates!Entity) \ {{}}]
      BY <3>1
    <3> QED
      BY <2>2, <3>2 DEF Templates!Polling, Templates!Requests
  <2> QED
    BY <2>1, <2>2
<1>2. tFile' = tFile
  BY DEF Templates!Proceed, Templates!Reload, Templates!ReloadFails, Templates!PollFinds, Templates!PollGivesUp
<1>3. \E state \in Templates!Requests : tReq' = [tReq EXCEPT ![r] = state]
  <2>1. CASE Templates!Reload(r)
    <3>1. tReq[r].made \in SUBSET Templates!Entity
      BY <1>0, <2>1 DEF Templates!Reload, Templates!Requests, Templates!Idle
    <3> QED
      BY <1>1, <2>1, <3>1 DEF Templates!Reload, Templates!Become
  <2>2. CASE Templates!ReloadFails(r)
    BY <2>2 DEF Templates!ReloadFails, Templates!Become, Templates!Requests
  <2>3. ASSUME NEW e \in tReq[r].made, tReq[r].pc = "polling",
               Templates!PollFinds(r, e) \/ Templates!PollGivesUp(r, e)
        PROVE  \E state \in Templates!Requests : tReq' = [tReq EXCEPT ![r] = state]
    <3>1. tReq[r].made \in SUBSET Templates!Entity
      BY <1>0, <2>3 DEF Templates!Requests, Templates!Idle
    <3>2. tReq[r].made \ {e} \in SUBSET Templates!Entity
      BY <3>1
    <3> QED
      BY <1>1, <2>3, <3>2 DEF Templates!PollFinds, Templates!PollGivesUp, Templates!Become
  <2> QED
    BY <2>1, <2>2, <2>3 DEF Templates!Proceed
<1>4. tReq' \in [Slots -> Templates!Requests]
  BY <1>3 DEF TemplInv, Templates!TypeOK
<1>5. CASE Templates!HaReads
  <2>1. /\ FileOK' /\ LiveIsLit' /\ NoGhostRuns'
        /\ tStates' \in SUBSET Templates!State /\ tEdited' = {}
    BY <1>2, <1>5, HaReadsKeepsInv
  <2>2. Templates!TypeOK'
    BY <1>4, <2>1 DEF Templates!TypeOK, FileOK
  <2> QED
    BY <1>2, <1>5, <2>1, <2>2 DEF TemplInv
<1>6. CASE tStates' = tStates /\ tEdited' = tEdited
  <2>1. FileOK' /\ Lit' = Lit
    BY <1>2 DEF TemplInv, FileOK, Lit
  <2>2. Templates!TypeOK'
    BY <1>2, <1>4, <1>6 DEF TemplInv, Templates!TypeOK
  <2>3. LiveIsLit' /\ NoGhostRuns'
    BY <1>6, <2>1 DEF TemplInv, LiveIsLit, NoGhostRuns
  <2> QED
    BY <1>2, <1>6, <2>1, <2>2, <2>3 DEF TemplInv
<1>7. Templates!HaReads \/ (tStates' = tStates /\ tEdited' = tEdited)
  <2>1. CASE Templates!Reload(r)
    BY <2>1 DEF Templates!Reload
  <2>3. CASE Templates!ReloadFails(r)
    <3>1. Templates!HaReads \/ UNCHANGED <<tStates, tEdited>>
      BY <2>3 DEF Templates!ReloadFails
    <3> QED
      BY <3>1
  <2>2. ASSUME NEW e, Templates!PollFinds(r, e) \/ Templates!PollGivesUp(r, e)
        PROVE  tStates' = tStates /\ tEdited' = tEdited
    BY <2>2 DEF Templates!PollFinds, Templates!PollGivesUp
  <2> QED
    BY <2>1, <2>2, <2>3 DEF Templates!Proceed
<1> QED
  BY <1>2, <1>5, <1>6, <1>7

LEMMA TemplStep == TemplInv /\ [Templates!Next]_Templates!vars => TemplInv'
<1> SUFFICES ASSUME TemplInv, [Templates!Next]_Templates!vars PROVE TemplInv'
  OBVIOUS
<1>1. CASE UNCHANGED Templates!vars
  BY <1>1 DEF Templates!vars, TemplInv, Templates!TypeOK, FileOK, LiveIsLit, NoGhostRuns, Lit
<1> QED
  BY <1>1, ArriveKeepsInv, ProceedKeepsInv DEF Templates!Next

-----------------------------------------------------------------------------
(* The theorems                                                              *)

LEMMA OverlapHasTemplates == OverlapSpec => Templates!Spec
<1>1. OverlapInit => Templates!Init
  <2> SUFFICES ASSUME OverlapInit, TemplRests PROVE Templates!Init
    BY DEF OverlapInit
  <2>1. tFile = <<>> /\ DOMAIN tFile = {}
    BY DEF TemplRests
  <2>2. 0 \in 0 .. MaxBlocks
    BY BoundAssumption
  <2>3. <<>> \in [1 .. 0 -> Full]
    OBVIOUS
  <2>4. tFile \in UNION {[1 .. n -> Full] : n \in 0 .. MaxBlocks}
    BY <2>1, <2>2, <2>3
  <2>5. Templates!ComesUp(tStates)
    BY <2>1 DEF TemplRests, Templates!ComesUp
  <2> QED
    BY <2>1, <2>4, <2>5 DEF TemplRests, Templates!Init
<1>2. [OverlapNext]_allVars => [Templates!Next]_Templates!vars
  BY DEF OverlapNext, allVars, templVars, Templates!vars
<1> QED
  BY <1>1, <1>2, PTL DEF OverlapSpec, Templates!Spec

LEMMA TemplInvariant == OverlapSpec => []TemplInv
  BY OverlapHasTemplates, TemplInit, TemplStep, PTL DEF Templates!Spec

LEMMA TemplRequestsDoAsAsked == TemplInv => Templates!Asked
<1> SUFFICES ASSUME FileOK PROVE Templates!Asked
  BY DEF TemplInv
<1>1. ASSUME NEW r \in Slots, NEW u \in Templates!Uids, NEW i \in Item, NEW b \in Full
      PROVE  /\ Templates!PostBare(r, i) =>
                  Templates!Callers!Create({i.uid}, {[dom |-> i.dom, item |-> i]})
             /\ Templates!PostBlock(r, b) =>
                  Templates!Callers!Create(Templates!UidsOf(b), Templates!EntitiesOf(b))
             /\ Templates!Put(r, u, i) =>
                  IF i.uid = u THEN Templates!Callers!Update(u, [Templates!Shown[u] EXCEPT !.item = i])
                               ELSE Templates!Callers!Only({u, i.uid})
             /\ Templates!Delete(r, u) =>
                  IF Templates!Twice(u) THEN Templates!Callers!Only({u}) ELSE Templates!Callers!Delete(u)
  BY PostBareDoesAsAsked, PostBlockDoesAsAsked, PutDoesAsAsked, DeleteDoesAsAsked
<1> QED
  BY <1>1 DEF Templates!Asked

(* C-14 for templates: seen through unique_ids, a POST adds its entities, a   *)
(* PUT replaces the one it names and a DELETE takes it away - wherever they   *)
(* stand, whatever block, domain key or trigger goes with them, and even when *)
(* a body has brought one unique_id in twice.                                 *)
THEOREM TemplatesImplementCatalog == OverlapSpec => Templates!TemplatesAreACatalog
<1>1. TemplInv => [UNCHANGED Templates!vars \/ Templates!Asked]_Templates!vars
  BY TemplRequestsDoAsAsked
<1> QED
  BY <1>1, TemplInvariant, PTL DEF Templates!TemplatesAreACatalog

(* However blocks are split, shifted and dropped, a unique_id comes to stand  *)
(* twice only by a body that brings it: a PUT to another entity, or a posted  *)
(* block with two of it.                                                      *)
THEOREM TemplateUidsAreUnique == OverlapSpec => Templates!UniqueUids
<1> DEFINE Unique == \A u \in Templates!Uids : Templates!Twice(u)' =>
      \/ Templates!Twice(u)
      \/ \E r \in Slots, v \in Templates!Uids \ {u}, i \in Item : Templates!Put(r, v, i) /\ i.uid = u
      \/ \E r \in Slots, b \in Full : Templates!PostBlock(r, b) /\ u \in Templates!TwiceIn(b)
<1>1. TemplInv /\ [Templates!Next]_Templates!vars => [Unique]_Templates!vars
  <2> SUFFICES ASSUME FileOK, TemplInv, Templates!Next, NEW u \in Templates!Uids, Templates!Twice(u)'
               PROVE  \/ Templates!Twice(u)
                      \/ \E r \in Slots, v \in Templates!Uids \ {u}, i \in Item :
                           Templates!Put(r, v, i) /\ i.uid = u
                      \/ \E r \in Slots, b \in Full : Templates!PostBlock(r, b) /\ u \in Templates!TwiceIn(b)
    BY DEF TemplInv
  <2>1. PICK r \in Slots : Templates!Arrive(r) \/ Templates!Proceed(r)
    BY DEF Templates!Next
  <2>2. CASE tFile' = tFile
    BY <2>2 DEF Templates!Twice, Templates!Spots, Templates!UidAt, Templates!EntityAt
  <2>3. CASE Templates!Proceed(r)
    BY <2>2, <2>3, ProceedKeepsInv
  <2>4. ASSUME NEW v \in Templates!Uids, Templates!Delete(r, v) PROVE Templates!Twice(u)
    BY <2>4, DeleteDoesAsAsked
  <2>5. ASSUME NEW v \in Templates!Uids, Templates!NotFound(r, v) PROVE tFile' = tFile
    BY <2>5 DEF Templates!NotFound, Templates!vars
  <2>6. ASSUME NEW v \in Templates!Uids, NEW i \in Item, Templates!Put(r, v, i)
        PROVE  Templates!Twice(u) \/ (i.uid = u /\ v \in Templates!Uids \ {u})
    BY <2>6, PutDoesAsAsked
  <2>7. ASSUME NEW b \in Full, Templates!PostBlock(r, b)
        PROVE  Templates!Twice(u) \/ u \in Templates!TwiceIn(b)
    BY <2>7, PostBlockDoesAsAsked
  <2>8. ASSUME NEW i \in Item, Templates!PostBare(r, i) PROVE Templates!Twice(u)
    BY <2>8, PostBareDoesAsAsked
  <2> QED
    BY <2>1, <2>2, <2>3, <2>4, <2>5, <2>6, <2>7, <2>8 DEF Templates!Arrive
<1> QED
  BY <1>1, OverlapHasTemplates, TemplInvariant, PTL DEF Templates!Spec, Templates!UniqueUids

(* C-13: what runs goes dark only by a PUT or DELETE on its own block; no     *)
(* create takes down an entity, whatever HA thinks of its block.              *)
THEOREM TemplateCreatesDarkenNobody == OverlapSpec => CreatesDarkenNobody
<1> DEFINE Dark == \A s \in tStates : s.live /\ [s EXCEPT !.live = FALSE] \in tStates'
                     => Templates!IdOf(s) \in tEdited
<1>1. TemplInv /\ [Templates!Next]_Templates!vars => [Dark]_Templates!vars
  <2> SUFFICES ASSUME TemplInv, Templates!Next, NEW s \in tStates, s.live,
                      [s EXCEPT !.live = FALSE] \in tStates'
               PROVE  Templates!IdOf(s) \in tEdited
    OBVIOUS
  <2> DEFINE Off(x) == [x EXCEPT !.live = FALSE]
  <2>1. \A x \in tStates : ~Off(x).live /\ Templates!IdOf(Off(x)) = Templates!IdOf(x)
    BY DEF TemplInv, Templates!TypeOK, Templates!State, Templates!IdOf
  <2>2. CASE tStates' = tStates
    BY <2>1, <2>2 DEF TemplInv, NoGhostRuns
  <2>3. CASE Templates!HaReads
    <3>1. PICK up : /\ Templates!ComesUp(up)
                    /\ tStates' = up \cup {Off(x) : x \in {x \in tStates :
                                     \A u \in up : Templates!IdOf(u) # Templates!IdOf(x)}}
      BY <2>3 DEF Templates!HaReads
    <3>2. Lit = {Templates!IdOf(x) : x \in up} /\ \A x \in up : x.live
      BY <3>1, ComesUpIs DEF TemplInv
    <3>3. Off(s) \in tStates' /\ Off(s) \notin up
      BY <2>1, <3>2
    <3> HIDE DEF Off
    <3>4. PICK x \in tStates : /\ \A u \in up : Templates!IdOf(u) # Templates!IdOf(x)
                              /\ Off(s) = Off(x)
      BY <3>1, <3>3
    <3>5. Templates!IdOf(x) = Templates!IdOf(s)
      BY <2>1, <3>4
    <3> QED
      BY <3>2, <3>4, <3>5 DEF TemplInv, LiveIsLit
  <2>4. Templates!HaReads \/ tStates' = tStates
    BY ArriveKeepsInv, ProceedKeepsInv DEF Templates!Next
  <2> QED
    BY <2>2, <2>3, <2>4
<1> QED
  BY <1>1, OverlapHasTemplates, TemplInvariant, PTL
     DEF Templates!Spec, CreatesDarkenNobody, Templates!CreatesDarkenNobody

-----------------------------------------------------------------------------
(* Both stores                                                               *)

(* The stores keep their types, no template block outlives its last domain    *)
(* key, and the helper routes agree on what is there.                         *)
THEOREM StoresStaySound == OverlapSpec => []StoresAreSound
<1>1. TemplInv => Templates!TypeOK /\ Templates!NoOrphanedBlock
  BY DEF TemplInv, FileOK, Templates!NoOrphanedBlock
<1>2. MapInv => Mappings!TypeOK
  BY DEF MapInv
<1> QED
  BY <1>1, <1>2, TemplInvariant, MapInvariant, ReadsAgreeWithWrites, PTL DEF StoresAreSound

(* C-14: both stores do to the catalog what each request asks and nothing     *)
(* else, unique_ids stay unique, and keyed entries are never spliced.         *)
THEOREM StoresImplementCatalogs == OverlapSpec => StoresAreCatalogs
  BY TemplatesImplementCatalog, TemplateUidsAreUnique, MappingsImplementCatalog, KeyedIsUntouched
     DEF StoresAreCatalogs
=============================================================================
