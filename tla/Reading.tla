------------------------------ MODULE Reading ------------------------------
(***************************************************************************)
(* Reading and rewriting a configuration: requests of RefScan and, in the  *)
(* same state space, the functions of a file or a configuration, case by   *)
(* case.  A behaviour is either a request or one case, which nothing       *)
(* happens to.                                                             *)
(***************************************************************************)
EXTENDS RefScan, Sequences

CONSTANTS
  Path, Key, Keys, Conventional, Outside, Members, Configures, ByName, \* Wiring
  PairLimit,                                                   \* Registries
  Cases \* Cases[m]: the cases of the module called m

VARIABLES of, case \* which module's case, and the case

Wi == INSTANCE Wiring
Lv == INSTANCE Leaves
Sp == INSTANCE Splice
Rg == INSTANCE Registries

ASSUME CasesAssumption ==
  /\ {"wiring", "leaves", "splice"} \subseteq DOMAIN Cases
  /\ Cases["wiring"] \subseteq Wi!Configuration
  /\ Cases["leaves"] \subseteq Lv!File
  /\ Cases["splice"] \subseteq Sp!Case

\* A configuration.yaml that the guard refuses is none; what lies in a refused
\* directory is refused with it.
ASSUME WiringAssumption ==
  /\ Members \in [Path -> Seq(Path)] /\ Configures \in [Path -> Seq(Key)]
  /\ Wi!Main \notin Outside
  /\ \A d \in Path \cap Outside : \A i \in DOMAIN Members[d] : Members[d][i] \in Outside

-----------------------------------------------------------------------------

Rests == /\ disk = [f \in Files |-> [kind |-> "missing", incl |-> {}, hint |-> FALSE, holds |-> FALSE]]
         /\ baks = [f \in Files |-> {}] /\ pc = "failed" /\ mode = "scan"
         /\ queue = {} /\ seen = {} /\ skipped = {} /\ hits = {} /\ writes = {}

ReadingInit ==
  \/ Init /\ of = "refscan" /\ case = ""
  \/ Rests /\ of \in DOMAIN Cases /\ case \in Cases[of]

ReadingNext ==
  /\ UNCHANGED <<of, case>>
  /\ \/ of = "refscan" /\ Next
     \/ of # "refscan" /\ UNCHANGED vars

ReadingSpec == ReadingInit /\ [][ReadingNext]_<<vars, of, case>> /\ WF_vars(Step)

-----------------------------------------------------------------------------
(* The functions' properties, for the case at hand *)

\* C-10, C-15: a create goes where HA reads, reads look where HA looks, and
\* nothing is read twice.
WiringFollowsHa ==
  of = "wiring" =>
    Wi!TargetIsRead(case) /\ Wi!ReadsWhatHaReads(case) /\ Wi!NoPlaceTwice(case)

\* C-14: a rename changes the target in values and nothing else, and a plain file
\* that can hold the replacement is not dumped whole.
RenameTouchesValues ==
  of = "leaves" => Lv!OnlyValuesChange(case) /\ Lv!PlainIsSpliced(case)

\* C-14: the file written parses to what was meant, no line of another entry and
\* no comment moves, and a plain file, its entries on lines of their own, is never
\* written anew.
SpliceTouchesOneEntry ==
  of = "splice" =>
    /\ Sp!ContentIsMeant(case.file, case.edit) /\ Sp!OthersKeepTheirLines(case.file, case.edit)
    /\ Sp!PlainIsSurgical(case.file, case.edit)
=============================================================================
