---------------------------- MODULE RefScanProofs ----------------------------
(***************************************************************************)
(* What holds of scans and renames over every graph of files, however they *)
(* include each other.                                                     *)
(***************************************************************************)
EXTENDS RefScan, TLAPS

(* Type correctness *)

LEMMA InitHasType == Init => TypeOK
  BY NodesAssumption DEF Init, TypeOK, Phases, Modes

LEMMA FollowedAreFiles == ASSUME NEW n PROVE Followed(n) \subseteq Files
  BY DEF Followed

LEMMA LostAreSkips ==
  ASSUME NEW n \in Node
  PROVE  Lost(n) \subseteq Targets \X {"missing", "unreadable", "unparseable"}
  BY ListingAssumption DEF Lost, Targets, Node

LEMMA StepKeepsType == TypeOK /\ [Next]_vars => TypeOK'
<1> SUFFICES ASSUME TypeOK, [Next]_vars PROVE TypeOK'
  OBVIOUS
<1> USE DEF TypeOK, Phases
<1>1. ASSUME NEW m \in Modes, Begin(m) PROVE TypeOK'
  BY <1>1, EntryAssumption DEF Begin
<1>2. ASSUME NEW f \in Files, Again(f) PROVE TypeOK'
  BY <1>2 DEF Again
<1>3. ASSUME NEW f \in Files, Missing(f) PROVE TypeOK'
  BY <1>3 DEF Missing, Reason, Targets
<1>4. ASSUME NEW f \in Files, Irrelevant(f) PROVE TypeOK'
  BY <1>4 DEF Irrelevant, New
<1>5. ASSUME NEW f \in Files, Unread(f) PROVE TypeOK'
  <2>1. Reason[disk[f].kind] \in {"unreadable", "unparseable"}
    BY <1>5 DEF Unread, Reason
  <2> QED
    BY <1>5, <2>1 DEF Unread, New, Targets
<1>6. ASSUME NEW f \in Files, Breaks(f) PROVE TypeOK'
  BY <1>6 DEF Breaks, New
<1>7. ASSUME NEW f \in Files, Read(f) PROVE TypeOK'
  <2>1. queue' \subseteq Files
    BY <1>7, FollowedAreFiles DEF Read
  <2>2. skipped' \subseteq Targets \X {"missing", "unreadable", "unparseable"}
    <3>1. disk[f] \in Node
      OBVIOUS
    <3> QED
      BY <1>7, <3>1, LostAreSkips DEF Read
  <2>3. hits' \subseteq Files /\ writes' \subseteq hits'
    BY <1>7 DEF Read
  <2> QED
    BY <1>7, <2>1, <2>2, <2>3 DEF Read, New
<1>8. ASSUME NEW f \in Files, WriteFile(f) PROVE TypeOK'
  <2>1. [disk[f] EXCEPT !.holds = FALSE] \in Node
    <3>1. disk[f] \in Node
      OBVIOUS
    <3> QED
      BY <3>1 DEF Node
  <2> QED
    BY <1>8, <2>1 DEF WriteFile, walk
<1>9. ASSUME NEW f \in Files, WriteFails(f) PROVE TypeOK'
  <2>1. disk[f] \in Node
    OBVIOUS
  <2>2. disk[f].incl \subseteq Targets
    BY <2>1 DEF Node
  <2>3. ASSUME NEW n \in Torn(disk[f]) PROVE n \in Node
    <3>1. PICK k \in {"plain", "broken"}, i \in SUBSET disk[f].incl :
            n = [kind |-> k, incl |-> i, hint |-> TRUE, holds |-> FALSE]
      BY DEF Torn
    <3> QED
      BY <2>2, <3>1 DEF Node, Kinds
  <2> QED
    BY <1>9, <2>3 DEF WriteFails, walk
<1>10. ASSUME EndWalk \/ EndWrite \/ Crash PROVE TypeOK'
  BY <1>10 DEF EndWalk, EndWrite, Crash, walk
<1>11. CASE UNCHANGED vars
  BY <1>11 DEF vars, walk
<1> QED
  BY <1>1, <1>2, <1>3, <1>4, <1>5, <1>6, <1>7, <1>8, <1>9, <1>10, <1>11
     DEF Next, Step, Visit

\* Every part of a request keeps its type, whatever fails or stops it.
THEOREM TypeCorrect == Spec => []TypeOK
  BY InitHasType, StepKeepsType, PTL DEF Spec

-----------------------------------------------------------------------------
(* The files of the configuration *)

LEMMA ConfigHasEntry == Entry \in Config
  BY EntryAssumption DEF Config

LEMMA ConfigIsClosed ==
  ASSUME NEW f \in Config, disk[f].kind = "plain"
  PROVE  Followed(disk[f]) \subseteq Config
  BY FollowedAreFiles DEF Config, Closed

LEMMA ConfigIsLeast ==
  ASSUME NEW S \in SUBSET Files, Entry \in S, Closed(S)
  PROVE  Config \subseteq S
  BY DEF Config

\* The configuration depends on the kinds of the files and on what they include.
LEMMA ConfigStays ==
  ASSUME \A f \in Files : disk'[f].kind = disk[f].kind /\ disk'[f].incl = disk[f].incl
  PROVE  Config' = Config
<1>1. \A f \in Files : Followed(disk'[f]) = Followed(disk[f])
  BY DEF Followed, Named
<1>2. ASSUME NEW S \in SUBSET Files PROVE Closed(S)' <=> Closed(S)
  BY <1>1 DEF Closed
<1> QED
  BY <1>2 DEF Config

\* A rewrite only takes the literal out of a file.
LEMMA RewriteKeepsGraph ==
  ASSUME TypeOK, NEW f \in Files, disk' = [disk EXCEPT ![f].holds = FALSE]
  PROVE  \A g \in Files : /\ disk'[g].kind = disk[g].kind
                          /\ disk'[g].incl = disk[g].incl
                          /\ disk'[g].hint = disk[g].hint
                          /\ disk'[g].holds = (g # f /\ disk[g].holds)
<1>1. \A g \in Files : disk[g] \in Node
  BY DEF TypeOK
<1> QED
  BY <1>1 DEF TypeOK, Node

-----------------------------------------------------------------------------
(* The walk: an inductive invariant *)

Answering == pc \in {"walking", "writing", "done"}

\* What the walk has dealt with or still has in front of it.
Reached ==
  seen \cup queue
    \cup {f \in Files : disk[f].kind = "missing" /\ <<f, "missing">> \in skipped}

HintsTold == \A f \in Files : Hinted(disk[f])

\* The walk never leaves the configuration ...
WalkInside == queue \subseteq Config /\ seen \subseteq Config

\* ... and never loses a part of it.
WalkOnward ==
  /\ Entry \in Reached
  /\ \A f \in seen : disk[f].kind = "plain" => Followed(disk[f]) \subseteq Reached

SeenAreThere ==
  \A f \in seen : disk[f].kind # "missing" /\ (disk[f].kind = "broken" => ~Relevant(f))

Found == {f \in seen : disk[f].kind = "plain" /\ disk[f].holds}

FoundTold ==
  /\ pc = "walking" \/ mode # "rename" => hits = Found
  /\ mode = "rename" => writes = Found

SkipsTold ==
  /\ skipped \subseteq Uncovered
  /\ \A f \in seen :
       /\ Withheld(f) => <<f, Reason[disk[f].kind]>> \in skipped
       /\ disk[f].kind = "plain" => Lost(disk[f]) \subseteq skipped

PhasesInOrder ==
  /\ pc # "walking" => queue = {}
  /\ pc = "writing" => mode = "rename"
  /\ pc = "done" /\ mode = "rename" => writes = {}

Told ==
  WalkInside /\ WalkOnward /\ SeenAreThere /\ FoundTold /\ SkipsTold /\ PhasesInOrder

WalkInv == HintsTold /\ (Answering => Told)

\* A file dropped by the prefilter neither includes nor holds anything.
LEMMA IrrelevantIsEmpty ==
  ASSUME TypeOK, HintsTold, NEW f \in Files, disk[f].kind = "plain", ~Relevant(f)
  PROVE  ~disk[f].holds /\ Followed(disk[f]) = {} /\ Lost(disk[f]) = {}
<1>1. ~disk[f].hint /\ disk[f] \in Node
  BY DEF Relevant, TypeOK
<1>2. ~disk[f].holds /\ disk[f].incl = {}
  BY <1>1 DEF HintsTold, Hinted, Node
<1> QED
  BY <1>2 DEF Followed, Named, Lost

\* What an answer does not cover, file by file.
LEMMA UncoveredOf ==
  ASSUME TypeOK, NEW f \in Config
  PROVE  /\ Withheld(f) => <<f, Reason[disk[f].kind]>> \in Uncovered
         /\ disk[f].kind = "plain" => Lost(disk[f]) \subseteq Uncovered
<1>1. Withheld(f) => <<f, Reason[disk[f].kind]>> \in Uncovered
  BY DEF Uncovered
<1>2. ASSUME disk[f].kind = "plain" PROVE Lost(disk[f]) \subseteq Uncovered
  <2>1. \A t \in Named(disk[f]) \cap Elsewhere : <<t, "unreadable">> \in Uncovered
    BY <1>2 DEF Uncovered
  <2>2. \A d \in disk[f].incl \cap Gone : <<d, "missing">> \in Uncovered
    BY <1>2 DEF Uncovered
  <2> QED
    BY <2>1, <2>2 DEF Lost
<1> QED
  BY <1>1, <1>2

LEMMA UncoveredWithin ==
  ASSUME TypeOK, NEW p \in Uncovered
  PROVE  \/ \E f \in Config : Withheld(f) /\ p = <<f, Reason[disk[f].kind]>>
         \/ \E f \in Config : disk[f].kind = "plain" /\ p \in Lost(disk[f])
  BY DEF Uncovered, Lost

\* What the answers are measured by depends on the graph of the files only.
LEMMA SameGraph ==
  ASSUME mode' = mode,
         \A f \in Files : /\ disk'[f].kind = disk[f].kind
                          /\ disk'[f].incl = disk[f].incl
                          /\ disk'[f].hint = disk[f].hint
  PROVE  /\ Config' = Config /\ Uncovered' = Uncovered
         /\ \A f \in Files : (Relevant(f)' <=> Relevant(f)) /\ (Withheld(f)' <=> Withheld(f))
<1>1. Config' = Config
  BY ConfigStays
<1>2. \A f \in Files : (Relevant(f)' <=> Relevant(f)) /\ (Withheld(f)' <=> Withheld(f))
  BY DEF Relevant, Withheld
<1>3. Uncovered' = Uncovered
  <2>1. {g \in Config : Withheld(g)}' = {g \in Config : Withheld(g)}
    BY <1>1, <1>2 DEF Config
  <2>2. \A g \in Config : Named(disk'[g]) = Named(disk[g])
    BY DEF Named, Config
  <2> QED
    BY <1>1, <2>1, <2>2 DEF Uncovered, Config
<1> QED
  BY <1>1, <1>2, <1>3

LEMMA SameFiles ==
  ASSUME disk' = disk, mode' = mode
  PROVE  /\ Config' = Config /\ Uncovered' = Uncovered
         /\ HintsTold' = HintsTold
         /\ \A f \in Files : (Relevant(f)' <=> Relevant(f)) /\ (Withheld(f)' <=> Withheld(f))
  BY SameGraph DEF HintsTold, Hinted

LEMMA InitIsTold == Init => WalkInv
  BY NodesAssumption DEF Init, WalkInv, Answering, HintsTold

LEMMA BeginKeeps ==
  ASSUME TypeOK, WalkInv, NEW m \in Modes, Begin(m)
  PROVE  WalkInv'
<1>1. HintsTold' /\ Entry \in Config'
  BY ConfigHasEntry, ConfigStays DEF Begin, WalkInv, HintsTold, Hinted
<1>2. WalkInside' /\ WalkOnward' /\ SeenAreThere' /\ PhasesInOrder'
  BY <1>1 DEF Begin, WalkInside, WalkOnward, Reached, SeenAreThere, PhasesInOrder
<1>3. FoundTold' /\ SkipsTold'
  BY DEF Begin, FoundTold, Found, SkipsTold
<1> QED
  BY <1>1, <1>2, <1>3 DEF WalkInv, Told

LEMMA AgainKeeps ==
  ASSUME TypeOK, WalkInv, NEW f \in Files, Again(f)
  PROVE  WalkInv'
<1>1. Told /\ Config' = Config /\ Uncovered' = Uncovered /\ HintsTold'
  BY SameFiles DEF WalkInv, Answering, Again, Take
<1>2. Reached' = Reached
  BY DEF Again, Reached
<1>3. WalkInside' /\ WalkOnward' /\ SeenAreThere' /\ PhasesInOrder'
  BY <1>1, <1>2 DEF Again, Take, Told, WalkInside, WalkOnward, SeenAreThere,
                    PhasesInOrder, Relevant
<1>4. FoundTold' /\ SkipsTold'
  BY <1>1 DEF Again, Told, FoundTold, Found, SkipsTold, Withheld, Relevant
<1> QED
  BY <1>1, <1>3, <1>4 DEF WalkInv, Told

LEMMA MissingKeeps ==
  ASSUME TypeOK, WalkInv, NEW f \in Files, Missing(f)
  PROVE  WalkInv'
<1>1. Told /\ Config' = Config /\ Uncovered' = Uncovered /\ HintsTold'
  BY SameFiles DEF WalkInv, Answering, Missing, Take
<1>2. Reached' = Reached
  BY DEF Missing, Take, Reached, Reason
<1>3. WalkInside' /\ WalkOnward' /\ SeenAreThere' /\ PhasesInOrder'
  BY <1>1, <1>2 DEF Missing, Take, Told, WalkInside, WalkOnward, SeenAreThere,
                    PhasesInOrder, Relevant
<1>4. FoundTold'
  BY <1>1 DEF Missing, Told, FoundTold, Found
<1>5. <<f, "missing">> \in Uncovered
  <2>1. f \in Config /\ Withheld(f) /\ Reason[disk[f].kind] = "missing"
    BY <1>1 DEF Missing, Take, Told, WalkInside, Withheld, Reason
  <2> QED
    BY <2>1, UncoveredOf
<1>6. SkipsTold'
  <2>1. skipped' = skipped \cup {<<f, "missing">>}
    BY DEF Missing, Reason
  <2> QED
    BY <1>1, <1>5, <2>1 DEF Missing, Told, SkipsTold, Withheld, Relevant
<1> QED
  BY <1>1, <1>3, <1>4, <1>6 DEF WalkInv, Told

\* Steps that take a file off the queue and read nothing from it.
LEMMA DropKeeps ==
  ASSUME TypeOK, WalkInv, NEW f \in Files, Irrelevant(f) \/ Unread(f)
  PROVE  WalkInv'
<1>1. /\ pc = "walking" /\ pc' = pc /\ f \in queue /\ queue' = queue \ {f}
      /\ disk' = disk /\ mode' = mode /\ seen' = seen \cup {f}
      /\ hits' = hits /\ writes' = writes
  BY DEF Irrelevant, Unread, New, Take
<1>2. /\ Told /\ HintsTold /\ Config' = Config /\ Uncovered' = Uncovered /\ HintsTold'
      /\ \A g \in Files : (Relevant(g)' <=> Relevant(g)) /\ (Withheld(g)' <=> Withheld(g))
  BY <1>1, SameFiles DEF WalkInv, Answering
<1>3. disk[f].kind # "missing" /\ (disk[f].kind = "broken" => ~Relevant(f))
  BY DEF Irrelevant, Unread, New
<1>4. ASSUME disk[f].kind = "plain"
      PROVE  ~disk[f].holds /\ Followed(disk[f]) = {} /\ Lost(disk[f]) = {}
  BY <1>2, <1>4, IrrelevantIsEmpty DEF Irrelevant, Unread
<1>5. Reached \subseteq Reached'
  BY <1>1 DEF Irrelevant, Unread, Reached
<1>6. WalkInside' /\ SeenAreThere' /\ PhasesInOrder'
  BY <1>1, <1>2, <1>3 DEF TypeOK, Told, WalkInside, SeenAreThere, PhasesInOrder
<1>7. WalkOnward'
  BY <1>1, <1>2, <1>4, <1>5 DEF Told, WalkOnward
<1>8. FoundTold'
  <2>1. Found' = Found
    BY <1>1, <1>4 DEF Found
  <2> QED
    BY <1>1, <1>2, <2>1 DEF Told, FoundTold
<1>9. SkipsTold'
  <2>1. skipped' \subseteq Uncovered
    <3>1. f \in Config
      BY <1>1, <1>2 DEF Told, WalkInside
    <3>2. \/ skipped' = skipped
          \/ Withheld(f) /\ skipped' = skipped \cup {<<f, Reason[disk[f].kind]>>}
      BY DEF Irrelevant, Unread, Withheld
    <3> QED
      BY <1>2, <3>1, <3>2, UncoveredOf DEF Told, SkipsTold
  <2>2. Withheld(f) => <<f, Reason[disk[f].kind]>> \in skipped'
    BY <1>3 DEF Withheld, Irrelevant, Unread
  <2>3. skipped \subseteq skipped'
    BY DEF Irrelevant, Unread
  <2> QED
    BY <1>1, <1>2, <1>4, <2>1, <2>2, <2>3 DEF TypeOK, Told, SkipsTold
<1> QED
  BY <1>2, <1>6, <1>7, <1>8, <1>9 DEF WalkInv, Told

LEMMA ReadKeeps ==
  ASSUME TypeOK, WalkInv, NEW f \in Files, Read(f)
  PROVE  WalkInv'
<1>1. /\ pc = "walking" /\ pc' = pc /\ f \in queue /\ f \notin seen
      /\ queue' = (queue \ {f}) \cup Followed(disk[f])
      /\ disk' = disk /\ mode' = mode /\ seen' = seen \cup {f}
      /\ skipped' = skipped \cup Lost(disk[f]) /\ disk[f].kind = "plain"
  BY DEF Read, New, Take
<1>2. /\ Told /\ HintsTold /\ Config' = Config /\ Uncovered' = Uncovered /\ HintsTold'
      /\ \A g \in Files : (Relevant(g)' <=> Relevant(g)) /\ (Withheld(g)' <=> Withheld(g))
  BY <1>1, SameFiles DEF WalkInv, Answering
<1>3. f \in Config
  BY <1>1, <1>2 DEF Told, WalkInside
<1>4. WalkInside'
  BY <1>1, <1>2, <1>3, ConfigIsClosed DEF Told, WalkInside
<1>5. Reached \subseteq Reached' /\ Followed(disk[f]) \subseteq Reached'
  BY <1>1 DEF Reached
<1>6. WalkOnward'
  BY <1>1, <1>2, <1>5 DEF Told, WalkOnward
<1>7. SeenAreThere' /\ PhasesInOrder'
  BY <1>1, <1>2 DEF TypeOK, Told, SeenAreThere, PhasesInOrder
<1>8. FoundTold'
  <2>1. Found' = IF disk[f].holds THEN Found \cup {f} ELSE Found
    BY <1>1 DEF Found
  <2>2. hits' = Found'
    BY <1>1, <1>2, <2>1 DEF Told, FoundTold, Read
  <2> QED
    BY <1>1, <2>2 DEF FoundTold, Read
<1>9. SkipsTold'
  <2>1. Lost(disk[f]) \subseteq Uncovered
    BY <1>1, <1>3, UncoveredOf
  <2>2. ~Withheld(f)
    BY <1>1 DEF Withheld
  <2> QED
    BY <1>1, <1>2, <2>1, <2>2 DEF TypeOK, Told, SkipsTold
<1> QED
  BY <1>2, <1>4, <1>6, <1>7, <1>8, <1>9 DEF WalkInv, Told

LEMMA WriteKeeps ==
  ASSUME TypeOK, WalkInv, NEW f \in Files, WriteFile(f)
  PROVE  WalkInv'
<1>1. /\ pc = "writing" /\ pc' = pc /\ mode' = mode /\ walk' = walk
      /\ disk' = [disk EXCEPT ![f].holds = FALSE] /\ writes' = writes \ {f}
  BY DEF WriteFile
<1>2. \A g \in Files : /\ disk'[g].kind = disk[g].kind
                       /\ disk'[g].incl = disk[g].incl
                       /\ disk'[g].hint = disk[g].hint
                       /\ disk'[g].holds = (g # f /\ disk[g].holds)
  BY <1>1, RewriteKeepsGraph
<1>3. /\ Told /\ HintsTold /\ Config' = Config /\ Uncovered' = Uncovered
      /\ \A g \in Files : (Relevant(g)' <=> Relevant(g)) /\ (Withheld(g)' <=> Withheld(g))
  BY <1>1, <1>2, SameGraph DEF WalkInv, Answering
<1>4. \A g \in Files : /\ Followed(disk'[g]) = Followed(disk[g])
                       /\ Lost(disk'[g]) = Lost(disk[g])
  BY <1>2 DEF Followed, Lost, Named
<1>5. HintsTold'
  BY <1>2, <1>3 DEF HintsTold, Hinted
<1>6. WalkInside' /\ WalkOnward' /\ SeenAreThere'
  <2>1. Reached' = Reached
    BY <1>1, <1>2 DEF walk, Reached
  <2> QED
    BY <1>1, <1>2, <1>3, <1>4, <2>1
       DEF TypeOK, walk, Told, WalkInside, WalkOnward, SeenAreThere
<1>7. FoundTold' /\ PhasesInOrder'
  <2>1. mode = "rename" /\ writes = Found
    BY <1>1, <1>3 DEF Told, PhasesInOrder, FoundTold
  <2>2. Found' = Found \ {f}
    BY <1>1, <1>2 DEF TypeOK, walk, Found
  <2> QED
    BY <1>1, <1>3, <2>1, <2>2 DEF walk, Told, FoundTold, PhasesInOrder
<1>8. SkipsTold'
  BY <1>1, <1>2, <1>3, <1>4 DEF TypeOK, walk, Told, SkipsTold
<1> QED
  BY <1>3, <1>5, <1>6, <1>7, <1>8 DEF WalkInv, Told

LEMMA EndKeeps ==
  ASSUME TypeOK, WalkInv, EndWalk \/ EndWrite
  PROVE  WalkInv'
<1>1. disk' = disk /\ mode' = mode /\ walk' = walk /\ writes' = writes
  BY DEF EndWalk, EndWrite
<1>2. /\ Told /\ Config' = Config /\ Uncovered' = Uncovered /\ HintsTold'
      /\ \A g \in Files : (Relevant(g)' <=> Relevant(g)) /\ (Withheld(g)' <=> Withheld(g))
  BY <1>1, SameFiles DEF WalkInv, Answering, EndWalk, EndWrite
<1>3. WalkInside' /\ WalkOnward' /\ SeenAreThere' /\ SkipsTold'
  <2>1. Reached' = Reached
    BY <1>1 DEF walk, Reached
  <2> QED
    BY <1>1, <1>2, <2>1 DEF TypeOK, walk, Told, WalkInside, WalkOnward, SeenAreThere, SkipsTold
<1>4. FoundTold' /\ PhasesInOrder'
  BY <1>1, <1>2 DEF walk, Told, FoundTold, Found, PhasesInOrder, EndWalk, EndWrite
<1> QED
  BY <1>2, <1>3, <1>4 DEF WalkInv, Told

\* A request that fails answers for nothing.
LEMMA FailureKeeps ==
  ASSUME TypeOK, WalkInv, NEW f \in Files, Breaks(f) \/ WriteFails(f) \/ Crash
  PROVE  WalkInv'
<1>1. /\ pc' = "failed"
      /\ disk' = disk \/ \E n \in Torn(disk[f]) : disk' = [disk EXCEPT ![f] = n]
  BY DEF Breaks, New, WriteFails, Crash
<1>2. HintsTold'
  BY <1>1 DEF TypeOK, WalkInv, HintsTold, Hinted, Torn
<1> QED
  BY <1>1, <1>2 DEF WalkInv, Answering

LEMMA StepKeepsTold == TypeOK /\ WalkInv /\ [Next]_vars => WalkInv'
<1> SUFFICES ASSUME TypeOK, WalkInv, [Next]_vars PROVE WalkInv'
  OBVIOUS
<1>1. ASSUME NEW m \in Modes, Begin(m) PROVE WalkInv'
  BY <1>1, BeginKeeps
<1>2. ASSUME NEW f \in Files, Visit(f) PROVE WalkInv'
  BY <1>2, AgainKeeps, MissingKeeps, DropKeeps, ReadKeeps, FailureKeeps DEF Visit
<1>3. ASSUME NEW f \in Files, WriteFile(f) \/ WriteFails(f) PROVE WalkInv'
  BY <1>3, WriteKeeps, FailureKeeps
<1>4. ASSUME EndWalk \/ EndWrite PROVE WalkInv'
  BY <1>4, EndKeeps
<1>5. ASSUME Crash PROVE WalkInv'
  BY <1>5, EntryAssumption, FailureKeeps
<1>6. CASE UNCHANGED vars
  <2>1. UNCHANGED <<disk, pc, mode, queue, seen, skipped, hits, writes>>
    BY <1>6 DEF vars, walk
  <2>2. Config' = Config /\ Uncovered' = Uncovered /\ HintsTold' = HintsTold
    BY <2>1, SameFiles
  <2>3. Reached' = Reached /\ Found' = Found
    BY <2>1 DEF Reached, Found
  <2>4. WalkInside' = WalkInside /\ WalkOnward' = WalkOnward /\ PhasesInOrder' = PhasesInOrder
    BY <2>1, <2>2, <2>3 DEF WalkInside, WalkOnward, PhasesInOrder
  <2>5. FoundTold' = FoundTold /\ SkipsTold' = SkipsTold /\ SeenAreThere' = SeenAreThere
    BY <2>1, <2>2, <2>3 DEF FoundTold, SkipsTold, SeenAreThere, Withheld, Relevant
  <2> QED
    BY <2>1, <2>2, <2>4, <2>5 DEF WalkInv, Told, Answering
<1> QED
  BY <1>1, <1>2, <1>3, <1>4, <1>5, <1>6 DEF Next, Step

LEMMA WalkInvariance == Spec => [](TypeOK /\ WalkInv)
  BY InitHasType, InitIsTold, StepKeepsType, StepKeepsTold, PTL DEF Spec

-----------------------------------------------------------------------------
(* What the answers say *)

\* When nothing is left to visit, the whole configuration has been visited.
LEMMA WholeWalk ==
  ASSUME TypeOK, Told, queue = {}
  PROVE  \A f \in Config :
           f \in seen \/ (disk[f].kind = "missing" /\ <<f, "missing">> \in skipped)
<1>1. Reached \subseteq Files
  BY DEF TypeOK, Reached
<1>2. Closed(Reached)
  BY DEF Told, WalkOnward, Reached, Closed
<1>3. Config \subseteq Reached
  BY <1>1, <1>2, ConfigIsLeast DEF Told, WalkOnward
<1> QED
  BY <1>3 DEF Reached

LEMMA FoundIsHolding ==
  ASSUME TypeOK, Told, queue = {}
  PROVE  Found = Holding
<1>1. Found \subseteq Holding
  BY DEF Told, WalkInside, Found, Holding
<1>2. Holding \subseteq Found
  BY WholeWalk DEF Holding, Found
<1> QED
  BY <1>1, <1>2

LEMMA DoneIsExact == TypeOK /\ WalkInv => HitsAreExact /\ RenameIsComplete
<1> SUFFICES ASSUME TypeOK, WalkInv, pc = "done"
             PROVE  /\ mode # "rename" => hits = Holding
                    /\ mode = "rename" => Holding = {}
  BY DEF HitsAreExact, RenameIsComplete
<1>1. Told /\ queue = {}
  BY DEF WalkInv, Answering, Told, PhasesInOrder
<1>2. Found = Holding
  BY <1>1, FoundIsHolding
<1> QED
  BY <1>1, <1>2 DEF Told, FoundTold, PhasesInOrder

LEMMA SkipsAreExact == TypeOK /\ WalkInv => SkippedIsExact
<1> SUFFICES ASSUME TypeOK, WalkInv, pc = "done" PROVE skipped = Uncovered
  BY DEF SkippedIsExact
<1>1. Told /\ queue = {}
  BY DEF WalkInv, Answering, Told, PhasesInOrder
<1>2. ASSUME NEW p \in Uncovered PROVE p \in skipped
  <2>1. CASE \E f \in Config : Withheld(f) /\ p = <<f, Reason[disk[f].kind]>>
    <3>1. PICK f \in Config : Withheld(f) /\ p = <<f, Reason[disk[f].kind]>>
      BY <2>1
    <3>2. CASE f \in seen
      BY <1>1, <3>1, <3>2 DEF Told, SkipsTold
    <3>3. CASE disk[f].kind = "missing" /\ <<f, "missing">> \in skipped
      BY <3>1, <3>3 DEF Reason
    <3> QED
      BY <1>1, <3>2, <3>3, WholeWalk
  <2>2. CASE \E f \in Config : disk[f].kind = "plain" /\ p \in Lost(disk[f])
    <3>1. PICK f \in Config : disk[f].kind = "plain" /\ p \in Lost(disk[f])
      BY <2>2
    <3>2. f \in seen
      BY <1>1, <3>1, WholeWalk
    <3> QED
      BY <1>1, <3>1, <3>2 DEF Told, SkipsTold
  <2> QED
    BY <1>2, <2>1, <2>2, UncoveredWithin
<1> QED
  BY <1>1, <1>2 DEF Told, SkipsTold

\* A scan that is answered found every occurrence in the configuration, for
\* every graph of files, cyclic or not, and whatever requests failed before.
THEOREM ScansAreExact == Spec => []HitsAreExact
  BY WalkInvariance, DoneIsExact, PTL

\* A rename that is answered left no occurrence in the files it could read,
\* also when it completes what earlier renames left half done.
THEOREM RenamesAreComplete == Spec => []RenameIsComplete
  BY WalkInvariance, DoneIsExact, PTL

\* The skip log of an answer is exactly what the answer does not cover.
THEOREM SkipLogIsExact == Spec => []SkippedIsExact
  BY WalkInvariance, SkipsAreExact, PTL

LEMMA OnlyWritesChangeFiles ==
  ASSUME [Next]_vars, disk' # disk
  PROVE  \E f \in Files : WriteFile(f) \/ WriteFails(f)
  BY DEF Next, Step, Visit, Begin, Again, Missing, Irrelevant, Unread, Breaks, Read, New,
         EndWalk, EndWrite, Crash, vars

\* No file is rewritten before every file of the configuration has been read.
THEOREM RewritesComeLast == Spec => WritesFollowWholeWalk
<1>1. ASSUME TypeOK, WalkInv, [Next]_vars, disk' # disk
      PROVE  \A f \in Config : f \in seen \/ disk[f].kind = "missing"
  <2>1. pc = "writing"
    BY <1>1, OnlyWritesChangeFiles DEF WriteFile, WriteFails
  <2>2. Told /\ queue = {}
    BY <1>1, <2>1 DEF WalkInv, Answering, Told, PhasesInOrder
  <2> QED
    BY <1>1, <2>2, WholeWalk
<1>2. TypeOK /\ WalkInv /\ [Next]_vars
        => [disk' # disk => \A f \in Config : f \in seen \/ disk[f].kind = "missing"]_vars
  BY <1>1
<1> QED
  BY <1>2, WalkInvariance, PTL DEF Spec, WritesFollowWholeWalk

\* Nothing is overwritten that no backup holds, whether the write succeeds or not.
THEOREM RewritesAreBackedUp == Spec => OverwrittenHasBackup
<1>1. ASSUME TypeOK, [Next]_vars, NEW g \in Files, disk'[g] # disk[g]
      PROVE  disk[g] \in baks'[g]
  <2>1. PICK f \in Files : WriteFile(f) \/ WriteFails(f)
    BY <1>1, OnlyWritesChangeFiles
  <2>2. g = f
    BY <1>1, <2>1 DEF TypeOK, WriteFile, WriteFails
  <2> QED
    BY <1>1, <2>1, <2>2 DEF TypeOK, WriteFile, WriteFails
<1>2. TypeOK /\ [Next]_vars
        => [\A f \in Files : disk'[f] # disk[f] => disk[f] \in baks'[f]]_vars
  BY <1>1
<1> QED
  BY <1>2, WalkInvariance, PTL DEF Spec, OverwrittenHasBackup
=============================================================================
