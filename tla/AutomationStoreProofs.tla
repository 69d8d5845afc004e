----------------------- MODULE AutomationStoreProofs -----------------------
(***************************************************************************)
(* What holds of AutomationStore for every list of automations, every      *)
(* number of requests and whatever names, aliases and ids clash.           *)
(***************************************************************************)
EXTENDS AutomationStore, SequenceTheorems, WellFoundedInduction, TLAPS

(* The list operators *)

\* A non-empty set of positions has a first one.
LEMMA FirstIsIn ==
  ASSUME NEW S \in SUBSET Nat, S # {}
  PROVE  First(S) \in S
<1>1. \E i \in S : \A j \in S : ~ (<<j, i>> \in OpToRel(<, Nat))
  BY NatLessThanWellFounded, WFMin
<1>2. PICK i \in S : \A j \in S : ~ (<<j, i>> \in OpToRel(<, Nat))
  BY <1>1
<1>3. ASSUME NEW j \in S PROVE i <= j
  <2>1. <<j, i>> \in Nat \X Nat
    OBVIOUS
  <2>2. ~ (j < i)
    BY <1>2, <2>1 DEF OpToRel
  <2> QED
    BY <2>2
<1> QED
  BY <1>3 DEF First

LEMMA FirstByIdIsIn ==
  ASSUME NEW d \in Seq(Entry), NEW name, ById(d, name) # {}
  PROVE  First(ById(d, name)) \in DOMAIN d
<1>1. ById(d, name) \in SUBSET Nat
  BY DEF ById
<1>2. First(ById(d, name)) \in ById(d, name)
  BY <1>1, FirstIsIn
<1> QED
  BY <1>2 DEF ById

\* What _find_automation finds is a position of the list it searched.
LEMMA FoundIsIn ==
  ASSUME NEW d \in Seq(Entry), NEW name, Matches(d, name) # {}
  PROVE  Found(d, name) \in DOMAIN d
<1>1. DOMAIN d \subseteq Nat
  OBVIOUS
<1>2. ById(d, name) \in SUBSET Nat /\ ByAlias(d, name) \in SUBSET Nat
  BY <1>1 DEF ById, ByAlias
<1>3. CASE ById(d, name) # {}
  BY <1>2, <1>3, FirstIsIn DEF Found, ById
<1>4. CASE ById(d, name) = {}
  <2>1. ByAlias(d, name) # {}
    BY <1>4 DEF Matches
  <2> QED
    BY <1>2, <1>4, <2>1, FirstIsIn DEF Found, ByAlias
<1> QED
  BY <1>3, <1>4

\* Removing position i shifts the rest: nothing else changes.
LEMMA WithoutProperties ==
  ASSUME NEW d \in Seq(Entry), NEW i \in DOMAIN d
  PROVE  /\ Without(d, i) \in Seq(Entry)
         /\ Len(Without(d, i)) = Len(d) - 1
         /\ \A j \in 1 .. Len(d) - 1 :
              Without(d, i)[j] = IF j < i THEN d[j] ELSE d[j + 1]
<1> DEFINE a == SubSeq(d, 1, i - 1)
           b == SubSeq(d, i + 1, Len(d))
<1>1. i \in 1 .. Len(d) /\ Len(d) \in Nat
  OBVIOUS
<1>2. /\ a \in Seq(Entry)
      /\ Len(a) = i - 1
      /\ \A j \in 1 .. i - 1 : a[j] = d[j]
  BY <1>1, SubSeqProperties
<1>3. /\ b \in Seq(Entry)
      /\ Len(b) = Len(d) - i
      /\ \A j \in 1 .. Len(d) - i : b[j] = d[i + j]
  BY <1>1, SubSeqProperties
<1>4. /\ a \o b \in Seq(Entry)
      /\ Len(a \o b) = Len(a) + Len(b)
      /\ \A j \in 1 .. Len(a) + Len(b) :
           (a \o b)[j] = IF j <= Len(a) THEN a[j] ELSE b[j - Len(a)]
  BY <1>2, <1>3, ConcatProperties
<1>5. Without(d, i) = a \o b
  BY DEF Without
<1> HIDE DEF a, b
<1>6. ASSUME NEW j \in 1 .. Len(d) - 1
      PROVE  (a \o b)[j] = IF j < i THEN d[j] ELSE d[j + 1]
  <2>1. CASE j < i
    BY <1>1, <1>2, <1>3, <1>4, <2>1
  <2>2. CASE ~ (j < i)
    <3>0. j \in 1 .. Len(a) + Len(b) /\ ~ (j <= Len(a)) /\ Len(a) = i - 1
      BY <1>1, <1>2, <1>3, <2>2
    <3>1. (a \o b)[j] = b[j - (i - 1)]
      BY <1>4, <3>0
    <3>2. j - (i - 1) \in 1 .. Len(d) - i /\ i + (j - (i - 1)) = j + 1
      BY <1>1, <2>2
    <3> QED
      BY <1>3, <2>2, <3>1, <3>2
  <2> QED
    BY <2>1, <2>2
<1>7. Len(a \o b) = Len(d) - 1
  BY <1>1, <1>2, <1>3, <1>4
<1> QED
  BY <1>4, <1>5, <1>6, <1>7

-----------------------------------------------------------------------------
(* Type correctness *)

LEMMA InitHasType == Init => TypeOK
<1> SUFFICES ASSUME Init PROVE TypeOK
  OBVIOUS
<1>1. file \in Seq(Entry)
  BY MaxEntriesAssumption DEF Init
<1> QED
  BY <1>1 DEF Init, TypeOK, Live, Requests, Afters

LEMMA StepKeepsType == TypeOK /\ [Next]_vars => TypeOK'
<1> SUFFICES ASSUME TypeOK, [Next]_vars PROVE TypeOK'
  OBVIOUS
<1> USE DEF Become
<1>1. ASSUME NEW r \in Reqs, NEW n \in Ids, NEW e \in Entry, Put(r, n, e)
      PROVE  TypeOK'
  <2>1. First(ById(file, n)) \in DOMAIN file
    BY <1>1, FirstByIdIsIn DEF Put, TypeOK
  <2>2. file' \in Seq(Entry)
    BY <1>1, <2>1, ExceptSeq DEF Put, TypeOK
  <2>3. Reloading(Idle) \in Requests
    BY DEF Reloading, Requests, Reloads, Afters
  <2> QED
    BY <1>1, <2>2, <2>3 DEF Put, TypeOK
<1>2. ASSUME NEW r \in Reqs, NEW e \in Entry, Post(r, e)
      PROVE  TypeOK'
  <2>1. file' \in Seq(Entry)
    BY <1>2, AppendProperties DEF Post, TypeOK
  <2>2. Polling(e.id, 0) \in Polls
    BY AttemptsAssumption DEF Polling, Polls, Ids
  <2>3. Reloading(Polling(e.id, 0)) \in Requests
    BY <2>2 DEF Reloading, Requests, Reloads, Afters
  <2> QED
    BY <1>2, <2>1, <2>3 DEF Post, TypeOK
<1>3. ASSUME NEW r \in Reqs, NEW n \in Names, Delete(r, n)
      PROVE  TypeOK'
  <2>1. file' \in Seq(Entry)
    BY <1>3, FoundIsIn, WithoutProperties DEF Delete, TypeOK
  <2>2. Reloading(Idle) \in Requests
    BY DEF Reloading, Requests, Reloads, Afters
  <2> QED
    BY <1>3, <2>1, <2>2 DEF Delete, TypeOK
<1>4. ASSUME NEW r \in Reqs, NEW n \in Names, DeleteAsks(r, n)
      PROVE  TypeOK'
  <2>1. Resolving(n, file) \in Requests
    BY DEF Resolving, Requests, Lookups, TypeOK
  <2> QED
    BY <1>4, <2>1 DEF DeleteAsks, TypeOK
<1>5. ASSUME NEW r \in Reqs, DeleteResolved(r)
      PROVE  TypeOK'
  <2>1. req[r].data \in Seq(Entry)
    BY <1>5 DEF DeleteResolved, TypeOK, Requests, Afters, Idle, Polls, Lookups, Reloads
  <2>2. file' \in Seq(Entry)
    BY <1>5, <2>1, FoundIsIn, WithoutProperties DEF DeleteResolved
  <2>3. Reloading(Idle) \in Requests
    BY DEF Reloading, Requests, Reloads, Afters
  <2> QED
    BY <1>5, <2>2, <2>3 DEF DeleteResolved, TypeOK
<1>6. ASSUME NEW r \in Reqs, DeleteNotFound(r) \/ ReloadFails(r) \/ PollFinds(r)
      PROVE  TypeOK'
  BY <1>6 DEF DeleteNotFound, ReloadFails, PollFinds, TypeOK, Requests, Afters
<1>7. ASSUME NEW r \in Reqs, HaReloads(r)
      PROVE  TypeOK'
  <2>1. req[r] \in Reloads
    BY <1>7 DEF HaReloads, TypeOK, Requests, Afters, Idle, Polls, Lookups
  <2>2. [req[r] EXCEPT !.pc = "reloaded"] \in Reloads
    BY <2>1 DEF Reloads
  <2>3. req' \in [Reqs -> Requests]
    BY <1>7, <2>2 DEF HaReloads, TypeOK, Requests
  <2> QED
    BY <1>7, <2>3 DEF HaReloads, TypeOK, Live
<1>8. ASSUME NEW r \in Reqs, Reloaded(r)
      PROVE  TypeOK'
  <2>1. req[r].next \in Requests
    BY <1>8 DEF Reloaded, TypeOK, Requests, Afters, Idle, Polls, Lookups, Reloads
  <2> QED
    BY <1>8, <2>1 DEF Reloaded, TypeOK
<1>9. ASSUME NEW r \in Reqs, PollMisses(r)
      PROVE  TypeOK'
  <2>1. req[r] \in Polls
    BY <1>9 DEF PollMisses, TypeOK, Requests, Afters, Idle, Lookups, Reloads
  <2>2. req[r].attempt + 1 < Attempts
          => Polling(req[r].id, req[r].attempt + 1) \in Requests
    BY <2>1, AttemptsAssumption DEF Polls, Polling, Requests, Afters
  <2> QED
    BY <1>9, <2>2 DEF PollMisses, TypeOK, Requests, Afters
<1>10. ASSUME Crash PROVE TypeOK'
  BY <1>10 DEF Crash, TypeOK, Requests, Afters
<1>11. CASE UNCHANGED vars
  BY <1>11 DEF vars, TypeOK
<1> QED
  BY <1>1, <1>2, <1>3, <1>4, <1>5, <1>6, <1>7, <1>8, <1>9, <1>10, <1>11
     DEF Next, Arrive, Proceed

\* The file stays a list of automations and every handler's state well formed,
\* whatever requests overlap.
THEOREM TypeCorrect == Spec => []TypeOK
  BY InitHasType, StepKeepsType, PTL DEF Spec

-----------------------------------------------------------------------------
(* One entry per write *)

Asking(r) == req[r].pc = "resolving"

\* While a DELETE asks Home Assistant nobody else does, and the file is still
\* the list it parsed.
CalmInv ==
  /\ TypeOK
  /\ \A r, q \in Reqs : Asking(r) /\ Asking(q) => r = q
  /\ \A r \in Reqs : Asking(r) => req[r].data = file

\* Where a slot's handler stands after its step, and that the others stay.
LEMMA BecomeMoves ==
  ASSUME TypeOK, NEW r \in Reqs, NEW state, Become(r, state)
  PROVE  req'[r] = state /\ \A q \in Reqs \ {r} : req'[q] = req[q]
  BY DEF Become, TypeOK

LEMMA CalmStep == CalmInv /\ [CalmNext]_vars => CalmInv'
<1> SUFFICES ASSUME CalmInv, [CalmNext]_vars PROVE CalmInv'
  OBVIOUS
<1>0. TypeOK /\ TypeOK'
  BY StepKeepsType DEF CalmInv, CalmNext, Next
<1>1. ASSUME NEW r \in Reqs, NobodyAsks,
             \/ \E n \in Ids, e \in Entry : Put(r, n, e)
             \/ \E e \in Entry : Post(r, e)
             \/ \E n \in Names : Delete(r, n)
      PROVE  CalmInv'
  <2>1. PICK state : Become(r, Reloading(state))
    BY <1>1 DEF Put, Post, Delete
  <2>2. ~Asking(r)' /\ \A q \in Reqs \ {r} : ~Asking(q)'
    BY <1>0, <1>1, <2>1, BecomeMoves DEF Asking, Reloading, NobodyAsks
  <2> QED
    BY <1>0, <2>2 DEF CalmInv
<1>2. ASSUME NEW r \in Reqs, NEW n \in Names, NobodyAsks, DeleteAsks(r, n)
      PROVE  CalmInv'
  <2>1. req'[r].data = file /\ file' = file
    BY <1>0, <1>2, BecomeMoves DEF DeleteAsks, Resolving
  <2>2. \A q \in Reqs \ {r} : ~Asking(q)'
    BY <1>0, <1>2, BecomeMoves DEF DeleteAsks, Asking, NobodyAsks
  <2> QED
    BY <1>0, <2>1, <2>2 DEF CalmInv
<1>3. ASSUME NEW r \in Reqs, DeleteResolved(r)
      PROVE  CalmInv'
  <2>1. Asking(r) /\ ~Asking(r)'
    BY <1>0, <1>3, BecomeMoves DEF DeleteResolved, Asking, Reloading
  <2>2. \A q \in Reqs \ {r} : ~Asking(q)'
    BY <1>0, <1>3, <2>1, BecomeMoves DEF DeleteResolved, Asking, CalmInv
  <2> QED
    BY <1>0, <2>1, <2>2 DEF CalmInv
<1>4. ASSUME NEW r \in Reqs, HaReloads(r)
      PROVE  CalmInv'
  <2>1. ~Asking(r)'
    <3>1. req[r] \in Reloads
      BY <1>0, <1>4 DEF HaReloads, TypeOK, Requests, Afters, Idle, Polls, Lookups
    <3>2. [req[r] EXCEPT !.pc = "reloaded"].pc = "reloaded"
      BY <3>1 DEF Reloads
    <3>3. req'[r] = [req[r] EXCEPT !.pc = "reloaded"]
      BY <1>0, <1>4 DEF HaReloads, TypeOK
    <3>4. req'[r].pc = "reloaded"
      BY <3>2, <3>3
    <3> QED
      BY <3>4 DEF Asking
  <2>2. file' = file /\ \A q \in Reqs \ {r} : req'[q] = req[q]
    BY <1>0, <1>4 DEF HaReloads, TypeOK
  <2> QED
    BY <1>0, <2>1, <2>2 DEF CalmInv, Asking
<1>5. ASSUME NEW r \in Reqs,
             \/ DeleteNotFound(r) \/ Reloaded(r) \/ ReloadFails(r)
             \/ PollFinds(r) \/ PollMisses(r)
      PROVE  CalmInv'
  <2>1. PICK state \in Afters : Become(r, state)
    <3>1. CASE Reloaded(r)
      <4>1. req[r].next \in Afters
        BY <1>0, <3>1 DEF Reloaded, TypeOK, Requests, Afters, Idle, Polls, Lookups, Reloads
      <4> QED
        BY <3>1, <4>1 DEF Reloaded
    <3>2. CASE PollMisses(r)
      <4>1. req[r] \in Polls
        BY <1>0, <3>2 DEF PollMisses, TypeOK, Requests, Afters, Idle, Lookups, Reloads
      <4>2. req[r].attempt + 1 < Attempts
              => Polling(req[r].id, req[r].attempt + 1) \in Afters
        BY <4>1, AttemptsAssumption DEF Polls, Polling, Afters
      <4> QED
        BY <3>2, <4>2 DEF PollMisses, Afters
    <3>3. CASE DeleteNotFound(r) \/ ReloadFails(r) \/ PollFinds(r)
      BY <3>3 DEF DeleteNotFound, ReloadFails, PollFinds, Afters
    <3> QED
      BY <1>5, <3>1, <3>2, <3>3
  <2>2. ~Asking(r)'
    BY <1>0, <2>1, BecomeMoves DEF Asking, Afters, Idle, Polls
  <2>3. file' = file /\ \A q \in Reqs \ {r} : req'[q] = req[q]
    BY <1>0, <1>5, <2>1, BecomeMoves
       DEF DeleteNotFound, Reloaded, ReloadFails, PollFinds, PollMisses
  <2> QED
    BY <1>0, <2>2, <2>3 DEF CalmInv, Asking
<1>6. ASSUME Crash PROVE CalmInv'
  BY <1>0, <1>6 DEF Crash, CalmInv, Asking, Idle
<1>7. CASE UNCHANGED vars
  BY <1>0, <1>7 DEF vars, CalmInv, Asking
<1> QED
  BY <1>1, <1>2, <1>3, <1>4, <1>5, <1>6, <1>7 DEF CalmNext, Arrive, Proceed

\* No list kept over the await is stale.
Fresh == \A r \in Reqs : req[r].pc = "resolving" => req[r].data = file

LEMMA FreshStepWrites == TypeOK /\ Fresh /\ [Next]_vars => [Writes!Next]_file
<1> SUFFICES ASSUME TypeOK, Fresh, [Next]_vars PROVE [Writes!Next]_file
  OBVIOUS
<1>0. TypeOK
  OBVIOUS
<1>1. ASSUME NEW r \in Reqs, NEW n \in Ids, NEW e \in Entry, Put(r, n, e)
      PROVE  Writes!Next
  <2>1. First(ById(file, n)) \in DOMAIN file
    BY <1>0, <1>1, FirstByIdIsIn DEF Put, TypeOK
  <2> QED
    BY <1>1, <2>1 DEF Put, Writes!Next, Writes!Replace
<1>2. ASSUME NEW r \in Reqs, NEW e \in Entry, Post(r, e)
      PROVE  Writes!Next
  BY <1>2 DEF Post, Writes!Next, Writes!Add
<1>3. ASSUME NEW r \in Reqs, NEW n \in Names, Delete(r, n)
      PROVE  Writes!Next
  <2>1. Found(file, n) \in DOMAIN file
    BY <1>0, <1>3, FoundIsIn DEF Delete, TypeOK
  <2>2. Writes!Remove(Found(file, n))
    BY <1>3 DEF Delete, Without, Writes!Remove, Writes!Without
  <2> QED
    BY <2>1, <2>2 DEF Writes!Next
<1>4. ASSUME NEW r \in Reqs, DeleteResolved(r)
      PROVE  Writes!Next
  <2>1. req[r].data = file
    BY <1>4 DEF DeleteResolved, Fresh
  <2>2. PICK e \in Meant(req[r].cand) :
          /\ Matches(file, e.id) # {}
          /\ file' = Without(file, Found(file, e.id))
    BY <1>4, <2>1 DEF DeleteResolved
  <2>3. Found(file, e.id) \in DOMAIN file
    BY <1>0, <2>2, FoundIsIn DEF TypeOK
  <2>4. Writes!Remove(Found(file, e.id))
    BY <2>2 DEF Without, Writes!Remove, Writes!Without
  <2> QED
    BY <2>3, <2>4 DEF Writes!Next
<1>5. ASSUME NEW r \in Reqs,
             \/ \E n \in Names : DeleteAsks(r, n)
             \/ DeleteNotFound(r) \/ HaReloads(r) \/ Reloaded(r)
             \/ ReloadFails(r) \/ PollFinds(r) \/ PollMisses(r)
      PROVE  file' = file
  BY <1>5 DEF DeleteAsks, DeleteNotFound, HaReloads, Reloaded, ReloadFails,
              PollFinds, PollMisses
<1>6. ASSUME Crash \/ UNCHANGED vars PROVE file' = file
  BY <1>6 DEF Crash, vars
<1> QED
  BY <1>1, <1>2, <1>3, <1>4, <1>5, <1>6 DEF Next, Arrive, Proceed

LEMMA CalmWrites == CalmInv /\ [CalmNext]_vars => [Writes!Next]_file
<1>1. CalmInv => TypeOK /\ Fresh
  BY DEF CalmInv, Asking, Fresh
<1>2. [CalmNext]_vars => [Next]_vars
  BY DEF CalmNext, Next
<1> QED
  BY <1>1, <1>2, FreshStepWrites

\* C-14: when nobody writes while a DELETE asks Home Assistant, the routes
\* implement EntryWrites - every step of theirs changes one entry or none.
THEOREM ImplementsEntryWrites == CalmSpec => OneEntryPerWrite
<1>1. Init => CalmInv
  BY InitHasType DEF Init, CalmInv, Asking, Idle
<1>2. CalmInv /\ [CalmNext]_vars => CalmInv'
  BY CalmStep
<1>3. CalmInv /\ [CalmNext]_vars => [Writes!Next]_file
  BY CalmWrites
<1>4. Init => Writes!Init
  BY InitHasType DEF TypeOK, Writes!Init
<1> QED
  BY <1>1, <1>2, <1>3, <1>4, PTL DEF CalmSpec, OneEntryPerWrite, Writes!Spec

\* C-14, whoever overlaps: a stale list written back by a DELETE is the only way
\* a step ever changes more than one entry.
THEOREM StaleDeletesAlone == Spec => OneEntryUnlessStale
<1>1. TypeOK /\ [Next]_vars
        => [(\A r \in Reqs : req[r].pc = "resolving" => req[r].data = file)
              => Writes!Next \/ UNCHANGED file]_vars
  BY FreshStepWrites DEF Fresh
<1> QED
  BY <1>1, TypeCorrect, PTL DEF Spec, OneEntryUnlessStale

-----------------------------------------------------------------------------
(* Unique ids *)

UniqueInv ==
  /\ TypeOK
  /\ UniqueIds(file)
  /\ \A r \in Reqs : Asking(r) => UniqueIds(req[r].data)

LEMMA WithoutKeepsUnique ==
  ASSUME NEW d \in Seq(Entry), UniqueIds(d), NEW i \in DOMAIN d
  PROVE  UniqueIds(Without(d, i))
<1> DEFINE w == Without(d, i)
           Old(j) == IF j < i THEN j ELSE j + 1
<1>1. /\ w \in Seq(Entry) /\ Len(w) = Len(d) - 1
      /\ \A j \in 1 .. Len(d) - 1 : w[j] = IF j < i THEN d[j] ELSE d[j + 1]
  BY WithoutProperties
<1> HIDE DEF w
<1>2. DOMAIN w = 1 .. Len(d) - 1 /\ DOMAIN d = 1 .. Len(d) /\ Len(d) \in Nat
  BY <1>1
<1>3. \A j \in DOMAIN w : Old(j) \in DOMAIN d /\ w[j] = d[Old(j)]
  BY <1>1, <1>2
<1>4. \A j, k \in DOMAIN w : Old(j) = Old(k) => j = k
  BY <1>2
<1>5. ASSUME NEW j \in DOMAIN w, NEW k \in DOMAIN w, w[j].id = w[k].id
      PROVE  j = k
  <2>1. d[Old(j)].id = d[Old(k)].id
    BY <1>3, <1>5
  <2>2. Old(j) = Old(k)
    BY <1>3, <2>1 DEF UniqueIds
  <2> QED
    BY <1>4, <2>2
<1> QED
  BY <1>5 DEF UniqueIds, w

LEMMA AppendKeepsUnique ==
  ASSUME NEW d \in Seq(Entry), UniqueIds(d), NEW e \in Entry, ById(d, e.id) = {}
  PROVE  UniqueIds(Append(d, e))
<1> DEFINE a == Append(d, e)
<1>1. /\ DOMAIN a = 1 .. Len(d) + 1 /\ Len(d) \in Nat
      /\ \A j \in 1 .. Len(d) : a[j] = d[j]
      /\ a[Len(d) + 1] = e
  BY AppendProperties
<1> HIDE DEF a
<1>2. \A j \in 1 .. Len(d) : d[j].id # e.id
  BY DEF ById
<1>3. ASSUME NEW j \in DOMAIN a, NEW k \in DOMAIN a, a[j].id = a[k].id
      PROVE  j = k
  <2>1. CASE j \in 1 .. Len(d) /\ k \in 1 .. Len(d)
    BY <1>1, <1>3, <2>1 DEF UniqueIds
  <2>2. CASE j = Len(d) + 1 /\ k \in 1 .. Len(d)
    BY <1>1, <1>2, <1>3, <2>2
  <2>3. CASE k = Len(d) + 1 /\ j \in 1 .. Len(d)
    BY <1>1, <1>2, <1>3, <2>3
  <2>4. CASE j = Len(d) + 1 /\ k = Len(d) + 1
    BY <2>4
  <2> QED
    BY <1>1, <2>1, <2>2, <2>3, <2>4
<1> QED
  BY <1>3 DEF UniqueIds, a

LEMMA UniqueStep ==
  ASSUME ~MayRename, UniqueInv, [Next]_vars
  PROVE  UniqueInv'
<1>0. TypeOK /\ TypeOK'
  BY StepKeepsType DEF UniqueInv
<1>1. ASSUME NEW r \in Reqs, NEW n \in Ids, NEW e \in Entry, Put(r, n, e)
      PROVE  UniqueIds(file')
  <2> DEFINE i == First(ById(file, n))
  <2>1. i \in DOMAIN file /\ file[i].id = n
    <3>1. ById(file, n) # {} /\ ById(file, n) \in SUBSET Nat
      BY <1>0, <1>1 DEF Put, ById, TypeOK
    <3> QED
      BY <3>1, FirstIsIn DEF ById
  <2>2. file' = [file EXCEPT ![i] = e] /\ e.id = n
    BY <1>1 DEF Put
  <2>3. DOMAIN file' = DOMAIN file
    BY <2>2
  <2>4. \A j \in DOMAIN file : file'[j].id = file[j].id
    BY <2>1, <2>2
  <2> QED
    BY <2>3, <2>4 DEF UniqueInv, UniqueIds
<1>2. ASSUME NEW r \in Reqs, NEW e \in Entry, Post(r, e)
      PROVE  UniqueIds(file')
  BY <1>0, <1>2, AppendKeepsUnique DEF Post, UniqueInv, TypeOK
<1>3. ASSUME NEW r \in Reqs, NEW n \in Names, Delete(r, n)
      PROVE  UniqueIds(file')
  BY <1>0, <1>3, FoundIsIn, WithoutKeepsUnique DEF Delete, UniqueInv, TypeOK
<1>4. ASSUME NEW r \in Reqs, DeleteResolved(r)
      PROVE  UniqueIds(file')
  <2>1. req[r].data \in Seq(Entry)
    BY <1>0, <1>4 DEF DeleteResolved, TypeOK, Requests, Afters, Idle, Polls, Lookups, Reloads
  <2>2. UniqueIds(req[r].data)
    BY <1>4 DEF DeleteResolved, UniqueInv, Asking
  <2> QED
    BY <1>4, <2>1, <2>2, FoundIsIn, WithoutKeepsUnique DEF DeleteResolved
<1>5. UniqueIds(file')
  <2>1. ASSUME NEW r \in Reqs,
               \/ \E n \in Names : DeleteAsks(r, n)
               \/ DeleteNotFound(r) \/ HaReloads(r) \/ Reloaded(r)
               \/ ReloadFails(r) \/ PollFinds(r) \/ PollMisses(r)
        PROVE  file' = file
    BY <2>1 DEF DeleteAsks, DeleteNotFound, HaReloads, Reloaded, ReloadFails,
                PollFinds, PollMisses
  <2>2. ASSUME Crash \/ UNCHANGED vars PROVE file' = file
    BY <2>2 DEF Crash, vars
  <2>3. file' = file => UniqueIds(file')
    BY DEF UniqueInv
  <2> QED
    BY <1>1, <1>2, <1>3, <1>4, <2>1, <2>2, <2>3 DEF Next, Arrive, Proceed
<1>6. ASSUME NEW q \in Reqs, Asking(q)' PROVE UniqueIds(req'[q].data)
  <2>1. CASE \E n \in Names : DeleteAsks(q, n)
    <3>1. req'[q].data = file
      BY <1>0, <2>1, BecomeMoves DEF DeleteAsks, Resolving
    <3> QED
      BY <3>1 DEF UniqueInv
  <2>2. CASE req'[q] = req[q]
    BY <1>6, <2>2 DEF Asking, UniqueInv
  <2>3. ASSUME NEW r \in Reqs,
               \/ \E n \in Ids, e \in Entry : Put(r, n, e)
               \/ \E e \in Entry : Post(r, e)
               \/ \E n \in Names : Delete(r, n)
               \/ DeleteResolved(r)
        PROVE  req'[q] = req[q]
    <3>1. PICK state : Become(r, Reloading(state))
      BY <2>3 DEF Put, Post, Delete, DeleteResolved
    <3> QED
      BY <1>0, <1>6, <3>1, BecomeMoves DEF Reloading, Asking
  <2>4. ASSUME NEW r \in Reqs, NEW n \in Names, DeleteAsks(r, n), r # q
        PROVE  req'[q] = req[q]
    BY <1>0, <2>4, BecomeMoves DEF DeleteAsks
  <2>5. ASSUME NEW r \in Reqs,
               \/ DeleteNotFound(r) \/ ReloadFails(r) \/ PollFinds(r)
        PROVE  req'[q] = req[q]
    BY <1>0, <1>6, <2>5, BecomeMoves
       DEF DeleteNotFound, ReloadFails, PollFinds, Asking, Idle
  <2>6. ASSUME NEW r \in Reqs, Reloaded(r)
        PROVE  req'[q] = req[q]
    <3>1. req[r].next \in Afters
      BY <1>0, <2>6 DEF Reloaded, TypeOK, Requests, Afters, Idle, Polls, Lookups, Reloads
    <3>2. req[r].next.pc # "resolving"
      BY <3>1 DEF Afters, Idle, Polls
    <3> QED
      BY <1>0, <1>6, <2>6, <3>2, BecomeMoves DEF Reloaded, Asking
  <2>7. ASSUME NEW r \in Reqs, PollMisses(r)
        PROVE  req'[q] = req[q]
    BY <1>0, <1>6, <2>7, BecomeMoves DEF PollMisses, Asking, Polling, Idle
  <2>8. ASSUME NEW r \in Reqs, HaReloads(r)
        PROVE  req'[q] = req[q]
    <3>1. req[r] \in Reloads
      BY <1>0, <2>8 DEF HaReloads, TypeOK, Requests, Afters, Idle, Polls, Lookups
    <3>2. [req[r] EXCEPT !.pc = "reloaded"].pc = "reloaded"
      BY <3>1 DEF Reloads
    <3>3. /\ req'[r] = [req[r] EXCEPT !.pc = "reloaded"]
          /\ r # q => req'[q] = req[q]
      BY <1>0, <2>8 DEF HaReloads, TypeOK
    <3> QED
      BY <1>6, <3>2, <3>3 DEF Asking
  <2>9. ASSUME UNCHANGED vars PROVE req'[q] = req[q]
    BY <2>9 DEF vars
  <2>10. ~Crash
    BY <1>6 DEF Crash, Asking, Idle
  <2> QED
    BY <2>1, <2>2, <2>3, <2>4, <2>5, <2>6, <2>7, <2>8, <2>9, <2>10
       DEF Next, Arrive, Proceed
<1> QED
  BY <1>0, <1>5, <1>6 DEF UniqueInv

\* If no PUT carries another id, two automations never share one - overlapping
\* creates, stale deletes and restarts included.
THEOREM IdsAreUnique == ~MayRename => (Spec => []IdsStayUnique)
<1> SUFFICES ASSUME ~MayRename PROVE Spec => []IdsStayUnique
  OBVIOUS
<1>1. Init => UniqueInv
  BY InitHasType DEF Init, UniqueInv, Asking, Idle
<1>2. UniqueInv /\ [Next]_vars => UniqueInv'
  BY UniqueStep
<1>3. UniqueInv => IdsStayUnique
  BY DEF UniqueInv, IdsStayUnique
<1> QED
  BY <1>1, <1>2, <1>3, PTL DEF Spec

-----------------------------------------------------------------------------
(* What Home Assistant runs *)

\* Home Assistant runs the file, or an answer said it does not, or some handler
\* has still to ask for the reload.
LoadedInv ==
  /\ TypeOK
  /\ \/ loaded = Live(file)
     \/ untold
     \/ \E r \in Reqs : req[r].pc = "reloading"

LEMMA LoadedStep == LoadedInv /\ [Next]_vars => LoadedInv'
<1> SUFFICES ASSUME LoadedInv, [Next]_vars PROVE LoadedInv'
  OBVIOUS
<1>0. TypeOK /\ TypeOK'
  BY StepKeepsType DEF LoadedInv
<1>1. ASSUME NEW r \in Reqs,
             \/ \E n \in Ids, e \in Entry : Put(r, n, e)
             \/ \E e \in Entry : Post(r, e)
             \/ \E n \in Names : Delete(r, n)
             \/ DeleteResolved(r)
      PROVE  LoadedInv'
  <2>1. PICK state : Become(r, Reloading(state))
    BY <1>1 DEF Put, Post, Delete, DeleteResolved
  <2>2. req'[r].pc = "reloading"
    BY <1>0, <2>1, BecomeMoves DEF Reloading
  <2> QED
    BY <1>0, <2>2 DEF LoadedInv
<1>2. ASSUME NEW r \in Reqs, HaReloads(r)
      PROVE  LoadedInv'
  BY <1>0, <1>2 DEF HaReloads, LoadedInv, Live
<1>3. ASSUME NEW r \in Reqs, ReloadFails(r)
      PROVE  LoadedInv'
  BY <1>0, <1>3 DEF ReloadFails, LoadedInv
<1>4. ASSUME NEW r \in Reqs,
             \/ \E n \in Names : DeleteAsks(r, n)
             \/ DeleteNotFound(r) \/ Reloaded(r) \/ PollFinds(r) \/ PollMisses(r)
      PROVE  LoadedInv'
  <2>1. UNCHANGED <<file, loaded, untold>> /\ \E state : Become(r, state)
    BY <1>4 DEF DeleteAsks, DeleteNotFound, Reloaded, PollFinds, PollMisses
  <2>2. req[r].pc # "reloading"
    BY <1>4 DEF DeleteAsks, DeleteNotFound, Reloaded, PollFinds, PollMisses, Idle
  <2>3. \A q \in Reqs : req[q].pc = "reloading" => req'[q].pc = "reloading"
    BY <1>0, <2>1, <2>2, BecomeMoves
  <2> QED
    BY <1>0, <2>1, <2>3 DEF LoadedInv, Live
<1>5. ASSUME Crash PROVE LoadedInv'
  BY <1>0, <1>5 DEF Crash, LoadedInv
<1>6. CASE UNCHANGED vars
  BY <1>0, <1>6 DEF vars, LoadedInv, Live
<1> QED
  BY <1>1, <1>2, <1>3, <1>4, <1>5, <1>6 DEF Next, Arrive, Proceed

\* Once nothing is in flight, Home Assistant runs what the file says, or an
\* answer has said that it was not reloaded.
THEOREM UnloadedWasReported == Spec => []UnloadedIsReported
<1>1. Init => LoadedInv
  BY InitHasType DEF Init, LoadedInv
<1>2. LoadedInv /\ [Next]_vars => LoadedInv'
  BY LoadedStep
<1>3. LoadedInv => UnloadedIsReported
  BY DEF LoadedInv, UnloadedIsReported, Idle
<1> QED
  BY <1>1, <1>2, <1>3, PTL DEF Spec

\* What has read the file since its own write, or polls, sees only what the file
\* has held since.
HeldInv ==
  /\ TypeOK
  /\ held \in [Reqs -> SUBSET Entry]
  /\ \A r \in Reqs : req[r].pc \in {"reloaded", "polling"} => loaded \subseteq held[r]

LEMMA HeldStep == HeldInv /\ [Next]_vars => HeldInv'
<1> SUFFICES ASSUME HeldInv, [Next]_vars PROVE HeldInv'
  OBVIOUS
<1>0. TypeOK /\ TypeOK'
  BY StepKeepsType DEF HeldInv
<1>1. CASE UNCHANGED vars
  BY <1>0, <1>1 DEF vars, HeldInv
<1>2. CASE Next
  <2>1. Watch
    BY <1>2 DEF Next
  <2>2. held' \in [Reqs -> SUBSET Entry]
    BY <2>1 DEF Watch, HeldInv, Live
  <2>3. \A q \in Reqs : req'[q] # Idle => /\ held[q] \subseteq held'[q]
                                          /\ Live(file') \subseteq held'[q]
    BY <2>1 DEF Watch
  <2>4. ASSUME NEW q \in Reqs, req'[q].pc \in {"reloaded", "polling"}
        PROVE  loaded' \subseteq held'[q]
    <3>0. req'[q] # Idle
      BY <2>4 DEF Idle
    <3>1. ASSUME NEW r \in Reqs, HaReloads(r) PROVE loaded' \subseteq held'[q]
      <4>1. loaded' = Live(file')
        BY <3>1 DEF HaReloads, Live
      <4> QED
        BY <2>3, <3>0, <4>1
    <3>2. ASSUME loaded' = loaded, req[q].pc \in {"reloaded", "polling"}
          PROVE  loaded' \subseteq held'[q]
      BY <2>3, <3>0, <3>2 DEF HeldInv
    <3>3. ASSUME NEW r \in Reqs,
                 \/ \E n \in Ids, e \in Entry : Put(r, n, e)
                 \/ \E e \in Entry : Post(r, e)
                 \/ \E n \in Names : Delete(r, n)
                 \/ DeleteResolved(r)
          PROVE  loaded' = loaded /\ req[q].pc \in {"reloaded", "polling"}
      <4>1. PICK state : Become(r, Reloading(state))
        BY <3>3 DEF Put, Post, Delete, DeleteResolved
      <4>2. loaded' = loaded
        BY <3>3 DEF Put, Post, Delete, DeleteResolved
      <4> QED
        BY <1>0, <2>4, <4>1, <4>2, BecomeMoves DEF Reloading
    <3>4. ASSUME NEW r \in Reqs,
                 \/ \E n \in Names : DeleteAsks(r, n)
                 \/ DeleteNotFound(r) \/ ReloadFails(r) \/ PollFinds(r)
          PROVE  loaded' = loaded /\ req[q].pc \in {"reloaded", "polling"}
      <4>1. loaded' = loaded
        BY <3>4 DEF DeleteAsks, DeleteNotFound, ReloadFails, PollFinds
      <4>2. \E state : Become(r, state) /\ state.pc \in {"idle", "resolving"}
        <5>1. Idle.pc = "idle" /\ \A n : Resolving(n, file).pc = "resolving"
          BY DEF Idle, Resolving
        <5>2. ASSUME NEW n \in Names, DeleteAsks(r, n) PROVE Become(r, Resolving(n, file))
          BY <5>2 DEF DeleteAsks
        <5>3. ASSUME DeleteNotFound(r) \/ ReloadFails(r) \/ PollFinds(r) PROVE Become(r, Idle)
          BY <5>3 DEF DeleteNotFound, ReloadFails, PollFinds
        <5> QED
          BY <3>4, <5>1, <5>2, <5>3
      <4>3. PICK state : Become(r, state) /\ state.pc \in {"idle", "resolving"}
        BY <4>2
      <4> QED
        BY <1>0, <2>4, <4>1, <4>3, BecomeMoves
    <3>5. ASSUME NEW r \in Reqs, Reloaded(r) \/ PollMisses(r)
          PROVE  loaded' = loaded /\ req[q].pc \in {"reloaded", "polling"}
      <4>1. loaded' = loaded /\ req[r].pc \in {"reloaded", "polling"}
        BY <3>5 DEF Reloaded, PollMisses
      <4>2. \E state : Become(r, state)
        BY <3>5 DEF Reloaded, PollMisses
      <4> QED
        BY <1>0, <2>4, <4>1, <4>2, BecomeMoves
    <3>6. ~Crash
      BY <2>4 DEF Crash, Idle
    <3> QED
      BY <1>2, <3>1, <3>2, <3>3, <3>4, <3>5, <3>6 DEF Next, Arrive, Proceed
  <2> QED
    BY <1>0, <2>2, <2>4 DEF HeldInv
<1> QED
  BY <1>1, <1>2

\* Whatever overlaps, fails or restarts, a POST's poll only ever sees automations
\* that Home Assistant has read from the file since the POST's write.
THEOREM CreatesConfirmTheNew == Spec => []CreatedIsNotOld
<1>1. Init => HeldInv
  BY InitHasType DEF Init, HeldInv, Idle
<1>2. HeldInv /\ [Next]_vars => HeldInv'
  BY HeldStep
<1>3. HeldInv => CreatedIsNotOld
  BY DEF HeldInv, CreatedIsNotOld
<1> QED
  BY <1>1, <1>2, <1>3, PTL DEF Spec
=============================================================================
