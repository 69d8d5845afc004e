--------------------------- MODULE ServicesProofs ---------------------------
(***************************************************************************)
(* Proofs about the monitor loop, text searches and the gate over config   *)
(* PUTs, as Services has them.                                             *)
(***************************************************************************)
EXTENDS Services, FiniteSetTheorems, FunctionTheorems, WellFoundedInduction, TLAPS

Steps == ServicesInit /\ [][ServicesNext]_allVars

LEMMA ServicesSteps == ServicesSpec => Steps
  BY PTL DEF ServicesSpec, Steps

-----------------------------------------------------------------------------
(***************************************************************************)
(* The monitor.  An address in the report is there because the kernel took *)
(* it; for that, what is set is what was looked up.                        *)
(***************************************************************************)

MonitorInv ==
  /\ Monitor!TypeOK /\ Monitor!ResolvedIsPushed
  /\ pc = "setting" => ip \in Addrs

LEMMA PeersAreListed ==
  /\ DOMAIN Peers = 1 .. Len(Peers) /\ Len(Peers) \in Nat \ {0}
  /\ \A i \in DOMAIN Peers : Peers[i] \in Monitor!Peer
  BY PeersAssumption DEF Monitor!Peer, Monitor!Range

LEMMA MonitorInit == Monitor!Init => MonitorInv
  BY PeersAreListed, ScheduleAssumption
     DEF Monitor!Init, MonitorInv, Monitor!TypeOK, Monitor!Report, Monitor!ResolvedIsPushed

LEMMA AdvanceStays ==
  ASSUME at \in DOMAIN Peers, Monitor!Advance
  PROVE  at' \in DOMAIN Peers /\ pc' \in {"ticking", "waiting"}
  BY PeersAreListed DEF Monitor!Advance

(* The report's four fields, one step after the other.                       *)
LEMMA ReportFields ==
  ASSUME status \in Monitor!Report
  PROVE  /\ [status EXCEPT !.in_backoff = TRUE, !.attempt = 1] \in Monitor!Report
         /\ Monitor!Healthy(status) \in Monitor!Report
         /\ Monitor!Healthy(status).resolved = status.resolved
         /\ \A p \in Monitor!Peer : [status EXCEPT !.last_error = p] \in Monitor!Report
         /\ [status EXCEPT !.attempt = IF @ > Schedule THEN @ ELSE @ + 1] \in Monitor!Report
         /\ \A p \in Monitor!Peer, a \in Addrs :
              /\ [status EXCEPT !.resolved[p] = a] \in Monitor!Report
              /\ [status EXCEPT !.resolved[p] = a].resolved = [status.resolved EXCEPT ![p] = a]
<1> USE ScheduleAssumption DEF Monitor!Report
<1>0. /\ status = [in_backoff |-> status.in_backoff, attempt |-> status.attempt,
                   last_error |-> status.last_error, resolved |-> status.resolved]
      /\ status.last_error \in Monitor!Peer \cup {Nobody}
      /\ status.resolved \in [Monitor!Peer -> Addrs \cup {Unknown}]
  OBVIOUS
<1>9. {0, 1} \subseteq 0 .. Schedule + 1
  OBVIOUS
<1>1. [status EXCEPT !.in_backoff = TRUE, !.attempt = 1] \in Monitor!Report
  BY <1>0, <1>9, Zenon
<1>2. /\ Monitor!Healthy(status) \in Monitor!Report
      /\ Monitor!Healthy(status).resolved = status.resolved
  BY <1>0, <1>9, Zenon DEF Monitor!Healthy
<1>3. ASSUME NEW p \in Monitor!Peer
      PROVE  [status EXCEPT !.last_error = p] \in Monitor!Report
  OBVIOUS
<1>4. [status EXCEPT !.attempt = IF @ > Schedule THEN @ ELSE @ + 1] \in Monitor!Report
  OBVIOUS
<1>5. ASSUME NEW p \in Monitor!Peer, NEW a \in Addrs
      PROVE  /\ [status EXCEPT !.resolved[p] = a] \in Monitor!Report
             /\ [status EXCEPT !.resolved[p] = a].resolved = [status.resolved EXCEPT ![p] = a]
  <2>1. [status.resolved EXCEPT ![p] = a] \in [Monitor!Peer -> Addrs \cup {Unknown}]
    BY <1>5
  <2> QED
    BY <1>5, <2>1
<1> QED
  BY <1>1, <1>2, <1>3, <1>4, <1>5

LEMMA TaskKeepsInv ==
  ASSUME MonitorInv, Monitor!Task
  PROVE  MonitorInv'
<1>0. Monitor!TypeOK /\ status \in Monitor!Report /\ at \in DOMAIN Peers
  BY DEF MonitorInv, Monitor!TypeOK
<1>1. ASSUME UNCHANGED <<home, moves, endpoint, fresh>>, ip' = ip, at' \in DOMAIN Peers,
             pc' \in {"healthy", "checking", "ticking", "waiting", "rechecking"},
             status' \in Monitor!Report, status'.resolved = status.resolved
      PROVE  MonitorInv'
  BY <1>0, <1>1 DEF MonitorInv, Monitor!TypeOK, Monitor!ResolvedIsPushed
<1>2. CASE Monitor!Check \/ Monitor!FoundAlive \/ Monitor!Recheck
  <2>1. /\ UNCHANGED <<home, moves, endpoint, fresh>> /\ ip' = ip /\ at' = at /\ status' = status
        /\ pc' \in {"healthy", "checking", "rechecking"}
    BY <1>2 DEF Monitor!Check, Monitor!FoundAlive, Monitor!Recheck, Monitor!world, Monitor!kernel
  <2> QED
    BY <1>0, <1>1, <2>1
<1>3. CASE Monitor!FoundStale
  <2>1. /\ UNCHANGED <<home, moves, endpoint, fresh>> /\ ip' = ip /\ at' = 1 /\ pc' = "ticking"
        /\ status' = [status EXCEPT !.in_backoff = TRUE, !.attempt = 1]
    BY <1>3 DEF Monitor!FoundStale, Monitor!world, Monitor!kernel
  <2>2. status'.resolved = status.resolved
    BY <1>0, <2>1 DEF Monitor!Report
  <2> QED
    BY <1>0, <1>1, <2>1, <2>2, ReportFields, PeersAreListed
<1>4. CASE Monitor!Reconnected
  <2>1. /\ UNCHANGED <<home, moves, endpoint, fresh>> /\ ip' = ip /\ at' = at /\ pc' = "healthy"
        /\ status' = Monitor!Healthy(status)
    BY <1>4 DEF Monitor!Reconnected, Monitor!world, Monitor!kernel
  <2> QED
    BY <1>0, <1>1, <2>1, ReportFields
<1>5. CASE Monitor!Retry
  <2>1. /\ UNCHANGED <<home, moves, endpoint, fresh>> /\ ip' = ip /\ at' = at /\ pc' = "ticking"
        /\ status' = [status EXCEPT !.attempt = IF @ > Schedule THEN @ ELSE @ + 1]
    BY <1>5 DEF Monitor!Retry, Monitor!world, Monitor!kernel
  <2>2. status'.resolved = status.resolved
    BY <1>0, <2>1 DEF Monitor!Report
  <2> QED
    BY <1>0, <1>1, <2>1, <2>2, ReportFields
<1>6. CASE Monitor!LookupFinds
  BY <1>0, <1>6, PeersAreListed
     DEF MonitorInv, Monitor!TypeOK, Monitor!ResolvedIsPushed, Monitor!LookupFinds, Monitor!Current,
         Monitor!world, Monitor!kernel
<1>7. ASSUME UNCHANGED <<home, moves, endpoint, fresh>>, ip' \in Addrs \cup {Unknown}, Monitor!Advance,
             status' = [status EXCEPT !.last_error = Monitor!Current]
      PROVE  MonitorInv'
  <2>1. Monitor!Current \in Monitor!Peer
    BY <1>0, PeersAreListed DEF Monitor!Current
  <2>2. status' \in Monitor!Report /\ status'.resolved = status.resolved
    BY <1>0, <1>7, <2>1, ReportFields DEF Monitor!Report
  <2>3. at' \in DOMAIN Peers /\ pc' \in {"ticking", "waiting"}
    BY <1>0, <1>7, AdvanceStays
  <2> QED
    BY <1>0, <1>7, <2>2, <2>3 DEF MonitorInv, Monitor!TypeOK, Monitor!ResolvedIsPushed
<1>8. CASE Monitor!LookupFails \/ Monitor!SetFails
  BY <1>0, <1>7, <1>8
     DEF Monitor!LookupFails, Monitor!SetFails, Monitor!TypeOK, Monitor!world, Monitor!kernel
<1>9. CASE Monitor!SetWorks
  <2> DEFINE p == Monitor!Current
  <2>1. p \in Monitor!Peer
    BY <1>0, PeersAreListed DEF Monitor!Current
  <2>2. /\ endpoint' = [endpoint EXCEPT ![p] = ip] /\ status' = [status EXCEPT !.resolved[p] = ip]
        /\ ip' = Unknown /\ UNCHANGED <<home, moves, fresh>> /\ ip \in Addrs
    BY <1>9 DEF Monitor!SetWorks, MonitorInv, Monitor!world
  <2>3. at' \in DOMAIN Peers /\ pc' \in {"ticking", "waiting"}
    BY <1>0, <1>9, AdvanceStays DEF Monitor!SetWorks
  <2> HIDE DEF p
  <2>4. status' \in Monitor!Report /\ status'.resolved = [status.resolved EXCEPT ![p] = ip]
    BY <1>0, <2>1, <2>2, ReportFields
  <2>5. Monitor!TypeOK'
    BY <1>0, <2>1, <2>2, <2>3, <2>4 DEF Monitor!TypeOK
  <2>6. status.resolved \in [Monitor!Peer -> Addrs \cup {Unknown}] /\ endpoint \in [Monitor!Peer -> Addrs]
    BY <1>0 DEF Monitor!Report, Monitor!TypeOK
  <2>7. Monitor!ResolvedIsPushed'
    BY <2>1, <2>2, <2>4, <2>6 DEF MonitorInv, Monitor!ResolvedIsPushed
  <2> QED
    BY <2>3, <2>5, <2>7 DEF MonitorInv
<1> QED
  BY <1>2, <1>3, <1>4, <1>5, <1>6, <1>8, <1>9 DEF Monitor!Task

LEMMA OutsideKeepsInv ==
  ASSUME MonitorInv, Monitor!Outside
  PROVE  MonitorInv'
<1> USE DEF MonitorInv, Monitor!TypeOK, Monitor!ResolvedIsPushed, Monitor!world, Monitor!kernel
<1>1. ASSUME NEW p \in Monitor!Peer, Monitor!Move(p) PROVE MonitorInv'
  BY <1>1, ScheduleAssumption DEF Monitor!Move
<1>2. ASSUME NEW p \in Monitor!Peer, Monitor!Handshake(p) PROVE MonitorInv'
  BY <1>2 DEF Monitor!Handshake
<1>3. ASSUME NEW p \in Monitor!Peer, Monitor!Expire(p) PROVE MonitorInv'
  BY <1>3 DEF Monitor!Expire
<1> QED
  BY <1>1, <1>2, <1>3 DEF Monitor!Outside

(* What the status route reports of a peer's address is what the kernel was   *)
(* told, whatever DNS, wg and the peers do between two commands.              *)
THEOREM ReportIsTheKernels == ServicesSpec => []MonitorIsSound
<1> DEFINE Inv == focus = "monitor" => MonitorInv
<1>1. ServicesInit => Inv
  BY MonitorInit DEF ServicesInit
<1>2. Inv /\ [ServicesNext]_allVars => Inv'
  <2> SUFFICES ASSUME Inv, [ServicesNext]_allVars, focus' = "monitor" PROVE MonitorInv'
    OBVIOUS
  <2>1. focus = "monitor" /\ MonitorInv
    BY DEF ServicesNext, allVars
  <2>2. CASE Monitor!Next
    BY <2>1, <2>2, TaskKeepsInv, OutsideKeepsInv DEF Monitor!Next
  <2>3. CASE UNCHANGED monitorVars
    BY <2>1, <2>3 DEF monitorVars, MonitorInv, Monitor!TypeOK, Monitor!ResolvedIsPushed
  <2> QED
    BY <2>1, <2>2, <2>3 DEF ServicesNext, allVars
<1>3. Inv => MonitorIsSound
  BY DEF MonitorInv, MonitorIsSound
<1> QED
  BY <1>1, <1>2, <1>3, ServicesSteps, PTL DEF Steps

-----------------------------------------------------------------------------
(***************************************************************************)
(* Text searches.  First what summarise computes, for any set of matches.  *)
(***************************************************************************)

LEMMA SameSets ==
  /\ \A S : Grep!Cardinality(S) = Cardinality(S) /\ Config!Cardinality(S) = Cardinality(S)
  BY DEF Grep!Cardinality, Config!Cardinality, Cardinality

\* A non-empty set of numbers has a least one...
LEMMA LeastIn ==
  ASSUME NEW S \in SUBSET Nat, S # {}
  PROVE  \E i \in S : \A j \in S : i <= j
<1>1. PICK i \in S : \A j \in S : ~ (<<j, i>> \in OpToRel(<, Nat))
  BY NatLessThanWellFounded, WFMin
<1>2. ASSUME NEW j \in S PROVE i <= j
  <2>1. <<j, i>> \in Nat \X Nat
    OBVIOUS
  <2>2. ~ (j < i)
    BY <1>1, <2>1 DEF OpToRel
  <2> QED
    BY <2>2
<1> QED
  BY <1>2

\* ... and a finite one a greatest one: the smallest set without one would have
\* one without any element of it.
LEMMA GreatestIn ==
  ASSUME NEW S \in SUBSET Nat, S # {}, IsFiniteSet(S)
  PROVE  \E i \in S : \A j \in S : j <= i
<1> DEFINE Topped(T) == T # {} => \E i \in T : \A j \in T : j <= i
           Sizes     == {Cardinality(T) : T \in {U \in SUBSET S : ~Topped(U)}}
<1>1. \A T \in SUBSET S : IsFiniteSet(T) /\ Cardinality(T) \in Nat
  BY FS_Subset, FS_CardinalityType
<1>2. SUFFICES ASSUME ~Topped(S) PROVE FALSE
  OBVIOUS
<1>3. Sizes \in SUBSET Nat /\ Sizes # {}
  BY <1>1, <1>2
<1>4. PICK k \in Sizes : \A n \in Sizes : k <= n
  <2> HIDE DEF Sizes
  <2> QED
    BY <1>3, LeastIn
<1>5. PICK T \in SUBSET S : ~Topped(T) /\ Cardinality(T) = k
  BY <1>4
<1>6. PICK t \in T : TRUE
  BY <1>5
<1> DEFINE R == T \ {t}
<1>7. R \in SUBSET S /\ Cardinality(R) < k
  <2>1. Cardinality(R) = Cardinality(T) - 1
    BY <1>1, <1>6, FS_RemoveElement
  <2> QED
    BY <1>1, <1>5, <2>1
<1>8. Topped(R)
  <2>1. CASE ~Topped(R)
    <3>1. Cardinality(R) \in Sizes
      BY <1>7, <2>1
    <3>2. k <= Cardinality(R)
      BY <1>4, <3>1
    <3> QED
      BY <1>1, <1>3, <1>4, <1>7, <3>2
  <2> QED
    BY <2>1
<1>9. T = R \cup {t} /\ T \subseteq Nat
  BY <1>6
<1>10. CASE R = {}
  <2>1. T = {t}
    BY <1>9, <1>10
  <2> QED
    BY <1>5, <1>9, <2>1
<1>11. CASE R # {}
  <2>1. PICK m \in R : \A j \in R : j <= m
    BY <1>8, <1>11
  <2>2. CASE t <= m
    <3>1. m \in T /\ \A j \in T : j <= m
      BY <1>9, <2>1, <2>2
    <3> QED
      BY <1>5, <3>1
  <2>3. CASE ~(t <= m)
    <3>1. \A j \in T : j <= t
      BY <1>9, <2>1, <2>3
    <3> QED
      BY <1>5, <1>6, <3>1
  <2> QED
    BY <2>2, <2>3
<1> QED
  BY <1>10, <1>11

Below(S, i) == {j \in S : j < i}

(* sorted(...)[:HIT_CAP]: the first Cap, or all when there are no more.       *)
LEMMA FirstOfIsFirst ==
  ASSUME NEW S \in SUBSET Nat, IsFiniteSet(S)
  PROVE  /\ Grep!FirstOf(S) \subseteq S
         /\ \A i \in Grep!FirstOf(S), j \in S \ Grep!FirstOf(S) : i < j
         /\ Cardinality(Grep!FirstOf(S)) <= Cap
         /\ Grep!FirstOf(S) # S => Cardinality(Grep!FirstOf(S)) = Cap
<1> DEFINE F == {i \in S : Cardinality(Below(S, i)) < Cap}
<1>1. Grep!FirstOf(S) = F
  BY SameSets DEF Grep!FirstOf, Below
<1>2. \A i \in S : Below(S, i) \in SUBSET S /\ Below(S, i) \subseteq Nat
  BY DEF Below
<1>3. \A T \in SUBSET S : IsFiniteSet(T) /\ Cardinality(T) \in Nat
  BY FS_Subset, FS_CardinalityType
<1>4. Cap \in Nat \ {0}
  BY TermsAssumption
<1>5. ASSUME NEW i \in F, NEW j \in S \ F PROVE i < j
  <2> SUFFICES ASSUME ~(i < j) PROVE FALSE
    OBVIOUS
  <2>1. Below(S, j) \in SUBSET Below(S, i) /\ IsFiniteSet(Below(S, i))
    BY <1>2, <1>3 DEF Below
  <2>2. Cardinality(Below(S, j)) <= Cardinality(Below(S, i))
    BY <2>1, FS_Subset
  <2>3. Cardinality(Below(S, j)) \in Nat /\ Cardinality(Below(S, i)) \in Nat
    BY <1>2, <1>3
  <2> QED
    BY <1>4, <2>2, <2>3
<1>6. Cardinality(F) <= Cap
  <2>1. CASE F = {}
    BY <1>4, <2>1, FS_EmptySet
  <2>2. CASE F # {}
    <3>1. PICK m \in F : \A j \in F : j <= m
      BY <1>3, <2>2, GreatestIn
    <3>2. F \in SUBSET (Below(S, m) \cup {m})
      <4> SUFFICES ASSUME NEW i \in F, i # m PROVE i \in Below(S, m)
        OBVIOUS
      <4>1. i \in S /\ i \in Nat /\ m \in Nat /\ i <= m
        BY <3>1
      <4> QED
        BY <4>1 DEF Below
    <3>3. IsFiniteSet(Below(S, m)) /\ m \notin Below(S, m)
      BY <1>2, <1>3 DEF Below
    <3>4. /\ IsFiniteSet(Below(S, m) \cup {m})
          /\ Cardinality(Below(S, m) \cup {m}) = Cardinality(Below(S, m)) + 1
      BY <3>3, FS_AddElement
    <3>5. Cardinality(F) <= Cardinality(Below(S, m)) + 1
      BY <3>2, <3>4, FS_Subset
    <3> QED
      BY <1>2, <1>3, <1>4, <3>1, <3>5
  <2> QED
    BY <2>1, <2>2
<1>7. ASSUME F # S PROVE Cardinality(F) = Cap
  <2>1. PICK n \in S \ F : \A j \in S \ F : n <= j
    BY <1>7, LeastIn
  <2>2. F = Below(S, n)
    <3>1. ASSUME NEW i \in F PROVE i \in Below(S, n)
      BY <1>5, <2>1 DEF Below
    <3>2. ASSUME NEW i \in Below(S, n) PROVE i \in F
      <4>1. i \in S /\ i < n /\ i \in Nat /\ n \in Nat
        BY <2>1 DEF Below
      <4>2. i \notin S \ F
        <5> HIDE DEF F
        <5> QED
          BY <2>1, <4>1
      <4> QED
        BY <4>1, <4>2
    <3> QED
      BY <3>1, <3>2
  <2>3. ~(Cardinality(F) < Cap)
    BY <2>1, <2>2
  <2> QED
    BY <1>3, <1>4, <1>6, <2>3
<1> QED
  BY <1>1, <1>5, <1>6, <1>7

(* The counts per file add up to the number of matches: pair the matches of   *)
(* each file with the marks under it.                                         *)
MatchesIn(S, f) == {i \in S : Location[i] = f}
MarksOf(S, f)   == 1 .. Cardinality(MatchesIn(S, f))
FilesOf(S)      == {Location[i] : i \in S}
Pairs(S, f, b)  == /\ b \in [MatchesIn(S, f) -> MarksOf(S, f)]
                   /\ \A i, j \in MatchesIn(S, f) : b[i] = b[j] => i = j
                   /\ \A n \in MarksOf(S, f) : \E i \in MatchesIn(S, f) : b[i] = n

LEMMA PairsExist ==
  ASSUME NEW S, IsFiniteSet(S), NEW f
  PROVE  \E b : Pairs(S, f, b)
<1>1. MatchesIn(S, f) \in SUBSET S
  BY DEF MatchesIn
<1>2. ExistsBijection(MarksOf(S, f), MatchesIn(S, f))
  BY <1>1, FS_Subset, FS_CardinalityType DEF MarksOf
<1>3. PICK b : b \in Bijection(MatchesIn(S, f), MarksOf(S, f))
  BY <1>2, Fun_ExistsBijSymmetric DEF ExistsBijection
<1> QED
  BY <1>3, Fun_BijectionProperties DEF Pairs

LEMMA CountsAddUp ==
  ASSUME NEW S, IsFiniteSet(S)
  PROVE  Cardinality(Grep!Tally(Grep!CountIn(S))) = Cardinality(S)
<1> DEFINE T == Grep!Tally(Grep!CountIn(S))
           b == [f \in FilesOf(S) |-> CHOOSE B : Pairs(S, f, B)]
           h == [i \in S |-> <<Location[i], b[Location[i]][i]>>]
<1>1. \A t : t \in T <=> \E f \in FilesOf(S) : \E n \in MarksOf(S, f) : t = <<f, n>>
  <2>1. Grep!CountIn(S) = [f \in FilesOf(S) |-> Cardinality(MatchesIn(S, f))]
    BY SameSets DEF Grep!CountIn, FilesOf, MatchesIn
  <2>2. T = UNION {{f} \X MarksOf(S, f) : f \in FilesOf(S)}
    BY <2>1 DEF Grep!Tally, MarksOf
  <2> HIDE DEF T
  <2> QED
    BY <2>2
<1>2. ASSUME NEW f \in FilesOf(S) PROVE Pairs(S, f, b[f])
  BY PairsExist
<1> HIDE DEF T, b
<1>3. ASSUME NEW i \in S PROVE Location[i] \in FilesOf(S) /\ i \in MatchesIn(S, Location[i])
  BY DEF FilesOf, MatchesIn
<1>4. h \in [S -> T]
  <2> SUFFICES ASSUME NEW i \in S PROVE <<Location[i], b[Location[i]][i]>> \in T
    OBVIOUS
  <2>1. b[Location[i]][i] \in MarksOf(S, Location[i])
    BY <1>2, <1>3 DEF Pairs
  <2> QED
    BY <1>1, <1>3, <2>1
<1>5. ASSUME NEW i \in S, NEW j \in S, h[i] = h[j] PROVE i = j
  <2>1. <<Location[i], b[Location[i]][i]>> = <<Location[j], b[Location[j]][j]>>
    BY <1>5
  <2>2. Location[i] = Location[j] /\ b[Location[i]][i] = b[Location[i]][j]
    BY <2>1
  <2> QED
    BY <1>2, <1>3, <2>2 DEF Pairs
<1>6. ASSUME NEW t \in T PROVE \E i \in S : h[i] = t
  <2>1. PICK f \in FilesOf(S) : \E n \in MarksOf(S, f) : t = <<f, n>>
    BY <1>1
  <2>2. PICK n \in MarksOf(S, f) : t = <<f, n>>
    BY <2>1
  <2>3. PICK i \in MatchesIn(S, f) : b[f][i] = n
    BY <1>2 DEF Pairs
  <2>4. i \in S /\ Location[i] = f
    BY DEF MatchesIn
  <2> QED
    BY <2>2, <2>3, <2>4
<1> HIDE DEF h
<1>7. h \in Bijection(S, T)
  BY <1>4, <1>5, <1>6, Fun_IsBij
<1>8. ExistsBijection(S, T)
  BY <1>7 DEF ExistsBijection
<1>9. Cardinality(T) = Cardinality(S)
  BY <1>8, FS_Bijection
<1> QED
  BY <1>9 DEF T

-----------------------------------------------------------------------------
(***************************************************************************)
(* The requests.  A child that was not waited for is on its way out, and   *)
(* what is answered is the summary of all the matches.                     *)
(***************************************************************************)

GrepTypes ==
  /\ gTerm \in [Reqs -> Terms]
  /\ gPc \in [Reqs -> Grep!Over \cup {"asked", "communicating", "reaping", "reaping_gone"}]
  /\ gChild \in [Reqs -> {"none", "running", "done", "broken", "dying", "killed"}]
  /\ gAnswer \in [Reqs -> {Grep!NoAnswer} \cup {Grep!Summarise(t.hits) : t \in Terms}]

ReqSound(r) ==
  /\ gPc[r] = "asked" => gChild[r] = "none"
  /\ gPc[r] \in {"reaping", "reaping_gone"} => gChild[r] \in {"dying", "killed"}
  /\ gPc[r] \in Grep!Over => gChild[r] # "running"
  /\ gPc[r] = "ok" => /\ gChild[r] \in {"none", "done"}
                      /\ gAnswer[r] = Grep!Summarise(gTerm[r].hits)

GrepInv == GrepTypes /\ \A r \in Reqs : ReqSound(r)

LEMMA TermsHaveHits ==
  ASSUME NEW t \in Terms
  PROVE  t.hits \in SUBSET Nat /\ IsFiniteSet(t.hits)
  BY TermsAssumption

LEMMA GrepInvIsSound == GrepInv => GrepIsSound
<1> SUFFICES ASSUME GrepInv PROVE GrepIsSound
  OBVIOUS
<1>1. \A t \in Terms : Grep!Summarise(t.hits).hits = Grep!FirstOf(t.hits)
  BY DEF Grep!Summarise
<1>2. ASSUME NEW r \in Reqs PROVE Grep!Cardinality(gAnswer[r].hits) <= Cap
  <2>1. CASE gAnswer[r] = Grep!NoAnswer
    <3>1. Cardinality({}) <= Cap
      BY FS_EmptySet, TermsAssumption
    <3> QED
      BY <2>1, <3>1, SameSets DEF Grep!NoAnswer
  <2>2. CASE \E t \in Terms : gAnswer[r] = Grep!Summarise(t.hits)
    BY <2>2, <1>1, TermsHaveHits, FirstOfIsFirst, SameSets
  <2> QED
    BY <2>1, <2>2 DEF GrepInv, GrepTypes
<1>3. Grep!TypeOK
  BY <1>2 DEF GrepInv, GrepTypes, Grep!TypeOK
<1>4. Grep!NoChildLeft
  BY DEF GrepInv, ReqSound, Grep!NoChildLeft
<1>5. Grep!AnswersAreWhole
  <2> SUFFICES ASSUME NEW r \in Reqs, gPc[r] = "ok"
               PROVE  LET S == gTerm[r].hits  a == gAnswer[r] IN
                        /\ gChild[r] \in {"none", "done"}
                        /\ a.total = Grep!Cardinality(S)
                        /\ a.hits \subseteq S
                        /\ \A i \in a.hits, j \in S \ a.hits : i < j
                        /\ a.total = Grep!Cardinality(Grep!Tally(a.sources))
                        /\ a.hits # S => Grep!Cardinality(a.hits) = Cap
    BY DEF Grep!AnswersAreWhole
  <2> DEFINE S == gTerm[r].hits
  <2>1. gChild[r] \in {"none", "done"} /\ gAnswer[r] = Grep!Summarise(S)
    BY DEF GrepInv, ReqSound
  <2>2. S \in SUBSET Nat /\ IsFiniteSet(S)
    BY TermsHaveHits DEF GrepInv, GrepTypes
  <2> HIDE DEF S
  <2>3. /\ gAnswer[r].total = Cardinality(S) /\ gAnswer[r].hits = Grep!FirstOf(S)
        /\ gAnswer[r].sources = Grep!CountIn(S)
    BY <2>1, SameSets DEF Grep!Summarise
  <2>4. Cardinality(Grep!Tally(Grep!CountIn(S))) = Cardinality(S)
    BY <2>2, CountsAddUp
  <2> QED
    BY <2>1, <2>2, <2>3, <2>4, FirstOfIsFirst, SameSets DEF S
<1> QED
  BY <1>3, <1>4, <1>5 DEF GrepIsSound

LEMMA GrepStarts == Grep!Init \/ GrepRests => GrepInv
<1>1. (CHOOSE t \in Terms : TRUE) \in Terms
  BY TermsAssumption
<1> QED
  BY <1>1 DEF Grep!Init, GrepRests, GrepInv, GrepTypes, ReqSound, Grep!Over

\* A step of one request leaves the others as they are.
LEMMA OneRequestSteps ==
  ASSUME GrepInv, NEW r \in Reqs, GrepTypes', ReqSound(r)',
         \A q \in Reqs \ {r} : /\ gPc'[q] = gPc[q] /\ gChild'[q] = gChild[q]
                               /\ gAnswer'[q] = gAnswer[q] /\ gTerm'[q] = gTerm[q]
  PROVE  GrepInv'
<1>1. ASSUME NEW q \in Reqs \ {r} PROVE ReqSound(q)'
  BY DEF GrepInv, ReqSound
<1> QED
  BY <1>1 DEF GrepInv

LEMMA GrepKeepsInv ==
  ASSUME GrepInv, Grep!Next
  PROVE  GrepInv'
<1>1. CASE Grep!AllOver
  BY <1>1 DEF Grep!AllOver, Grep!vars, GrepInv, GrepTypes, ReqSound
<1>2. ASSUME NEW r \in Reqs, Grep!Handle(r) \/ Grep!HangUp(r) \/ Grep!ChildEnds(r) \/ Grep!ChildDies(r)
      PROVE  GrepInv'
  <2> USE DEF GrepInv, GrepTypes, Grep!Over, Grep!Goto
  <2>0. GrepTypes /\ ReqSound(r)
    OBVIOUS
  <2>1. ASSUME Grep!Give(r), gTerm' = gTerm
        PROVE  /\ gAnswer' \in [Reqs -> {Grep!NoAnswer} \cup {Grep!Summarise(t.hits) : t \in Terms}]
               /\ gAnswer'[r] = Grep!Summarise(gTerm[r].hits)
               /\ \A q \in Reqs \ {r} : gAnswer'[q] = gAnswer[q]
    BY <2>1 DEF Grep!Give
  <2> DEFINE Stays == \A q \in Reqs \ {r} :
                        /\ gPc'[q] = gPc[q] /\ gChild'[q] = gChild[q]
                        /\ gAnswer'[q] = gAnswer[q] /\ gTerm'[q] = gTerm[q]
  <2>2. CASE Grep!Refuse(r)
    <3>1. GrepTypes' /\ ReqSound(r)' /\ Stays
      BY <2>0, <2>2 DEF Grep!Refuse, ReqSound
    <3> QED
      BY <3>1, OneRequestSteps
  <2>3. CASE Grep!MatchLiteral(r)
    <3>1. GrepTypes' /\ ReqSound(r)' /\ Stays
      BY <2>0, <2>1, <2>3 DEF Grep!MatchLiteral, ReqSound
    <3> QED
      BY <3>1, OneRequestSteps
  <2>4. CASE Grep!Spawn(r)
    <3>1. GrepTypes' /\ ReqSound(r)' /\ Stays
      BY <2>0, <2>4 DEF Grep!Spawn, ReqSound
    <3> QED
      BY <3>1, OneRequestSteps
  <2>5. CASE Grep!Collect(r)
    <3>1. GrepTypes' /\ ReqSound(r)' /\ Stays
      BY <2>0, <2>1, <2>5 DEF Grep!Collect, ReqSound
    <3> QED
      BY <3>1, OneRequestSteps
  <2>6. CASE Grep!Deadline(r)
    <3>1. GrepTypes' /\ ReqSound(r)' /\ Stays
      BY <2>0, <2>6 DEF Grep!Deadline, Grep!KillAnd, ReqSound
    <3> QED
      BY <3>1, OneRequestSteps
  <2>7. CASE Grep!Reaped(r)
    <3>1. GrepTypes' /\ ReqSound(r)' /\ Stays
      BY <2>0, <2>7 DEF Grep!Reaped, ReqSound
    <3> QED
      BY <3>1, OneRequestSteps
  <2>8. CASE Grep!HangUp(r)
    <3>1. GrepTypes' /\ ReqSound(r)' /\ Stays
      BY <2>0, <2>8 DEF Grep!HangUp, Grep!KillAnd, ReqSound
    <3> QED
      BY <3>1, OneRequestSteps
  <2>9. CASE Grep!ChildEnds(r)
    <3>1. GrepTypes' /\ ReqSound(r)' /\ Stays
      BY <2>0, <2>9 DEF Grep!ChildEnds, ReqSound
    <3> QED
      BY <3>1, OneRequestSteps
  <2>10. CASE Grep!ChildDies(r)
    <3>1. GrepTypes' /\ ReqSound(r)' /\ Stays
      BY <2>0, <2>10 DEF Grep!ChildDies, ReqSound
    <3> QED
      BY <3>1, OneRequestSteps
  <2> QED
    BY <1>2, <2>2, <2>3, <2>4, <2>5, <2>6, <2>7, <2>8, <2>9, <2>10 DEF Grep!Handle
<1> QED
  BY <1>1, <1>2 DEF Grep!Next

(* A request that is over leaves no child spinning, however it ended; and an  *)
(* answer counts all the matches, shows the first ones, and shows fewer than   *)
(* there are only when it shows HIT_CAP of them.                              *)
THEOREM SearchesAreSound == ServicesSpec => []GrepIsSound
<1>1. ServicesInit => GrepInv
  BY GrepStarts DEF ServicesInit
<1>2. GrepInv /\ [ServicesNext]_allVars => GrepInv'
  <2> SUFFICES ASSUME GrepInv, [ServicesNext]_allVars PROVE GrepInv'
    OBVIOUS
  <2>1. CASE Grep!Next
    BY <2>1, GrepKeepsInv
  <2>2. CASE UNCHANGED grepVars
    BY <2>2 DEF grepVars, GrepInv, GrepTypes, ReqSound
  <2> QED
    BY <2>1, <2>2 DEF ServicesNext, allVars
<1> QED
  BY <1>1, <1>2, GrepInvIsSound, ServicesSteps, PTL DEF Steps

-----------------------------------------------------------------------------
(***************************************************************************)
(* The gate over config PUTs one at a time: what a PUT replaced is in its  *)
(* backup, and with it in place HA accepts the configuration.              *)
(***************************************************************************)

Undone(r) == [cDisk EXCEPT ![cReq[r].file] = cReq[r].before]

\* A PUT that waits for its verdict can be taken back exactly.
CanBeUndone(r) ==
  /\ cReq[r].existed <=> cReq[r].before # Absent
  /\ cReq[r].existed => cBaks[cReq[r].file][cReq[r].stamp] = cReq[r].before
  /\ Undone(r) \in Valid
  /\ cReq[r].pc = "ok" => cDisk \in Valid

OnePut         == \A r, q \in Reqs : Config!InFlight(r) /\ Config!InFlight(q) => r = q
NoFutureBackup == \A f \in Files, s \in Config!Seconds : cBaks[f][s] # Absent => s <= cNow

ConfigInv ==
  /\ Config!TypeOK
  /\ OnePut
  /\ NoFutureBackup
  /\ \A r \in Reqs : Config!InFlight(r) => CanBeUndone(r)
  /\ Config!QuiescentValid

USE DEF Config!Image, Config!Seconds, Config!Phases

LEMMA InFlightIsRequest ==
  ASSUME Config!TypeOK, NEW r \in Reqs, Config!InFlight(r)
  PROVE  cReq[r] \in Config!Request
  BY DEF Config!TypeOK, Config!InFlight, Config!Idle

LEMMA NewestIsKept ==
  ASSUME NEW b \in [Config!Seconds -> Config!Image], NEW t \in Config!Seconds,
         \A s \in Config!Seconds : b[s] # Absent => s <= t
  PROVE  /\ Config!Pruned(b) \in [Config!Seconds -> Config!Image]
         /\ Config!Pruned(b)[t] = b[t]
         /\ \A s \in Config!Seconds : Config!Pruned(b)[s] # Absent => s <= t
<1>1. Config!Newer(b, t) = {}
  BY ConfigAssumption DEF Config!Newer
<1>2. Config!Cardinality(Config!Newer(b, t)) < MaxBackups
  BY <1>1, FS_EmptySet, SameSets, ConfigAssumption
<1> QED
  BY <1>2 DEF Config!Pruned

LEMMA BackupIsMade ==
  ASSUME Config!TypeOK, NoFutureBackup, NEW f \in Files
  PROVE  /\ Config!BackedUp(f) \in [Config!Seconds -> Config!Image]
         /\ cDisk[f] # Absent => Config!BackedUp(f)[cNow] = cDisk[f]
         /\ \A s \in Config!Seconds : Config!BackedUp(f)[s] # Absent => s <= cNow
<1> DEFINE nb == [cBaks[f] EXCEPT ![cNow] = cDisk[f]]
<1>1. cNow \in Config!Seconds /\ cBaks[f] \in [Config!Seconds -> Config!Image] /\ cDisk[f] \in Config!Image
  BY DEF Config!TypeOK
<1>2. nb \in [Config!Seconds -> Config!Image] /\ nb[cNow] = cDisk[f]
  BY <1>1
<1>3. \A s \in Config!Seconds : nb[s] # Absent => s <= cNow
  BY <1>1, ConfigAssumption DEF NoFutureBackup
<1>4. /\ Config!Pruned(nb) \in [Config!Seconds -> Config!Image]
      /\ Config!Pruned(nb)[cNow] = cDisk[f]
      /\ \A s \in Config!Seconds : Config!Pruned(nb)[s] # Absent => s <= cNow
  <2> HIDE DEF nb
  <2> QED BY <1>1, <1>2, <1>3, NewestIsKept
<1> QED
  BY <1>1, <1>4 DEF Config!BackedUp, NoFutureBackup

LEMMA ConfigStarts == Config!Init => ConfigInv
<1> SUFFICES ASSUME Config!Init PROVE ConfigInv
  OBVIOUS
<1>1. Config!TypeOK
  BY ConfigAssumption DEF Config!Init, Config!TypeOK
<1>2. \A r \in Reqs : ~Config!InFlight(r)
  BY DEF Config!Init, Config!InFlight, Config!Idle
<1> QED
  BY <1>1, <1>2 DEF ConfigInv, OnePut, NoFutureBackup, Config!Init, Config!QuiescentValid

LEMMA PutKeepsInv ==
  ASSUME ConfigInv, NEW r \in Reqs, NEW f \in Files, NEW c \in Bodies,
         \A q \in Reqs : ~Config!InFlight(q), Config!Put(r, f, c)
  PROVE  ConfigInv'
<1> USE DEF ConfigInv
<1>1. cDisk \in Valid /\ cDisk \in [Files -> Config!Image] /\ cNow \in Config!Seconds
  BY DEF Config!QuiescentValid, Config!TypeOK
<1>2. /\ cDisk' = [cDisk EXCEPT ![f] = c] /\ cNow' = cNow
      /\ cBaks' = [cBaks EXCEPT ![f] = Config!BackedUp(f)]
      /\ cReq' = [cReq EXCEPT ![r] = [pc |-> "checking", file |-> f, body |-> c,
                    existed |-> cDisk[f] # Absent, stamp |-> cNow,
                    before |-> cDisk[f], saw |-> Absent]]
  BY DEF Config!Put
<1>3. /\ Config!BackedUp(f) \in [Config!Seconds -> Config!Image]
      /\ cDisk[f] # Absent => Config!BackedUp(f)[cNow] = cDisk[f]
      /\ \A s \in Config!Seconds : Config!BackedUp(f)[s] # Absent => s <= cNow
  BY BackupIsMade
<1>4. Config!TypeOK'
  BY <1>1, <1>2, <1>3 DEF Config!TypeOK, Config!Put, Config!Observe, Config!Request
<1>5. /\ cReq'[r].pc = "checking" /\ cReq'[r].file = f /\ cReq'[r].stamp = cNow
      /\ cReq'[r].existed = (cDisk[f] # Absent) /\ cReq'[r].before = cDisk[f]
      /\ \A q \in Reqs \ {r} : cReq'[q] = cReq[q]
  BY <1>2 DEF Config!TypeOK
<1>6. Config!InFlight(r)' /\ \A q \in Reqs \ {r} : ~Config!InFlight(q)'
  BY <1>5 DEF Config!InFlight
<1>7. NoFutureBackup'
  BY <1>1, <1>2, <1>3 DEF NoFutureBackup, Config!TypeOK
<1>8. CanBeUndone(r)'
  <2>1. Undone(r)' = cDisk
    BY <1>1, <1>2, <1>5 DEF Undone
  <2>2. cBaks'[f] = Config!BackedUp(f)
    BY <1>2 DEF Config!TypeOK
  <2> QED
    BY <1>1, <1>3, <1>5, <2>1, <2>2 DEF CanBeUndone
<1> QED
  BY <1>4, <1>6, <1>7, <1>8 DEF OnePut, Config!QuiescentValid

LEMMA VerdictKeepsInv ==
  ASSUME ConfigInv, NEW r \in Reqs, Config!HaChecks(r) \/ Config!CheckUnavailable(r)
  PROVE  ConfigInv'
<1> USE DEF ConfigInv
<1>1. /\ Config!InFlight(r) /\ UNCHANGED <<cDisk, cBaks, cNow, cCommitted, cOrphaned>>
      /\ \A q \in Reqs \ {r} : cReq'[q] = cReq[q]
  BY DEF Config!HaChecks, Config!CheckUnavailable, Config!TypeOK, Config!InFlight
<1>2. cReq[r] \in Config!Request
  BY <1>1, InFlightIsRequest
<1>3. PICK v \in {"ok", "invalid", "unavailable"}, s \in Config!Image :
        /\ cReq' = [cReq EXCEPT ![r] = [cReq[r] EXCEPT !.pc = v, !.saw = s]]
        /\ v = "ok" => cDisk \in Valid
  <2>1. CASE Config!HaChecks(r)
    <3> DEFINE v == IF cDisk \in Valid THEN "ok" ELSE "invalid"
    <3>1. cDisk[cReq[r].file] \in Config!Image
      BY <1>2 DEF Config!TypeOK, Config!Request
    <3>2. cReq' = [cReq EXCEPT ![r] = [cReq[r] EXCEPT !.pc = v, !.saw = cDisk[cReq[r].file]]]
      BY <2>1 DEF Config!HaChecks
    <3> QED
      BY <3>1, <3>2
  <2>2. CASE Config!CheckUnavailable(r)
    <3>1. cReq' = [cReq EXCEPT ![r] = [cReq[r] EXCEPT !.pc = "unavailable", !.saw = cReq[r].saw]]
      BY <1>2, <2>2 DEF Config!CheckUnavailable, Config!Request
    <3>2. cReq[r].saw \in Config!Image
      BY <1>2 DEF Config!Request
    <3> QED
      BY <3>1, <3>2
  <2> QED
    BY <2>1, <2>2
<1>4. /\ cReq'[r] \in Config!Request /\ cReq'[r].pc = v
      /\ cReq'[r].file = cReq[r].file /\ cReq'[r].before = cReq[r].before
      /\ cReq'[r].existed = cReq[r].existed /\ cReq'[r].stamp = cReq[r].stamp
  BY <1>2, <1>3 DEF Config!TypeOK, Config!Request
<1>5. \A q \in Reqs : Config!InFlight(q)' <=> Config!InFlight(q)
  BY <1>1, <1>4 DEF Config!InFlight
<1>6. Config!TypeOK'
  BY <1>1, <1>3, <1>4 DEF Config!TypeOK
<1>7. CanBeUndone(r)'
  BY <1>1, <1>3, <1>4 DEF CanBeUndone, Undone
<1>8. \A q \in Reqs \ {r} : ~Config!InFlight(q)
  BY <1>1 DEF OnePut
<1> QED
  BY <1>1, <1>5, <1>6, <1>7, <1>8 DEF OnePut, NoFutureBackup, Config!QuiescentValid

LEMMA AnswerKeepsInv ==
  ASSUME ConfigInv, NEW r \in Reqs, Config!Accept(r) \/ Config!Reject(r)
  PROVE  ConfigInv'
<1> USE DEF ConfigInv
<1>1. /\ Config!InFlight(r) /\ UNCHANGED <<cBaks, cNow, cOrphaned>>
      /\ cReq' = [cReq EXCEPT ![r] = Config!Idle]
  BY DEF Config!Accept, Config!Reject, Config!InFlight
<1>2. cReq[r] \in Config!Request /\ cReq[r].file \in Files /\ CanBeUndone(r)
  BY <1>1, InFlightIsRequest DEF Config!Request
<1>3. \A q \in Reqs : ~Config!InFlight(q)'
  BY <1>1 DEF OnePut, Config!InFlight, Config!Idle, Config!TypeOK
<1>4. cDisk' \in Valid
  <2>1. CASE Config!Accept(r)
    BY <1>2, <2>1 DEF Config!Accept, CanBeUndone
  <2>2. CASE Config!Reject(r)
    <3>1. Config!RolledBack(r) = cReq[r].before
      BY <1>2 DEF Config!RolledBack, CanBeUndone
    <3> QED
      BY <1>2, <2>2, <3>1 DEF Config!Reject, CanBeUndone, Undone
  <2> QED
    BY <2>1, <2>2
<1>5. cCommitted' \in [Files -> Config!Image]
  BY <1>2 DEF Config!Accept, Config!Reject, Config!TypeOK, Config!Request
<1>6. Config!TypeOK'
  BY <1>1, <1>4, <1>5, ConfigAssumption DEF Config!TypeOK
<1> QED
  BY <1>1, <1>3, <1>4, <1>6 DEF OnePut, NoFutureBackup, Config!QuiescentValid

(* Whenever no PUT is in flight, HA accepts what is on disk, also when one     *)
(* file is only right with another.                                           *)
THEOREM QuiescentStaysValid == ServicesSpec => []QuiescentValid
<1>1. ServicesInit => ConfigInv
  BY ConfigStarts DEF ServicesInit, ConfigRests
<1>2. ConfigInv /\ [ServicesNext]_allVars => ConfigInv'
  <2> SUFFICES ASSUME ConfigInv, [ServicesNext]_allVars PROVE ConfigInv'
    OBVIOUS
  <2>1. CASE Config!GatedNext
    <3>1. CASE Config!Tick
      <4>1. /\ UNCHANGED <<cDisk, cBaks, cReq, cCommitted, cOrphaned>>
            /\ cNow \in Nat /\ cNow' = cNow + 1 /\ cNow' \in Config!Seconds
        BY <3>1, ConfigAssumption DEF Config!Tick, ConfigInv, Config!TypeOK
      <4>2. NoFutureBackup'
        BY <4>1, ConfigAssumption DEF ConfigInv, NoFutureBackup
      <4> QED
        BY <4>1, <4>2
           DEF ConfigInv, Config!TypeOK, OnePut, CanBeUndone, Undone, Config!InFlight,
               Config!QuiescentValid
    <3> QED
      BY <2>1, <3>1, PutKeepsInv, VerdictKeepsInv, AnswerKeepsInv DEF Config!GatedNext
  <2>2. CASE UNCHANGED configVars
    BY <2>2 DEF configVars, ConfigInv, Config!TypeOK, OnePut, NoFutureBackup, CanBeUndone, Undone,
                Config!InFlight, Config!QuiescentValid
  <2> QED
    BY <2>1, <2>2 DEF ServicesNext, allVars
<1>3. ConfigInv => QuiescentValid
  BY DEF ConfigInv, QuiescentValid
<1> QED
  BY <1>1, <1>2, <1>3, ServicesSteps, PTL DEF Steps

=============================================================================
