------------------------------ MODULE RefScan ------------------------------
(***************************************************************************)
(* Reference scans and renames over the graph of configuration files.      *)
(*                                                                         *)
(* Every scan walks the !include graph from configuration.yaml, one parsed *)
(* file at a time.  A rename walks it too, works out every file's new      *)
(* content, and only then writes them, one after another.  A walk gives    *)
(* way to no other handler; it can still die at any point.                 *)
(*                                                                         *)
(* Abstracted: a file is what it includes and whether one of its leaves    *)
(* holds the literal searched for; the queue is a set, since no answer     *)
(* depends on the order of the walk.                                       *)
(***************************************************************************)
CONSTANTS
  Files,     \* paths inside the config directory
  Entry,     \* configuration.yaml
  Dirs,      \* include directories
  Gone,      \* those that are not there
  Elsewhere, \* include targets outside of the config directory
  Listing,   \* Listing[d]: the files under include directory d
  Nodes      \* the contents the files may start with

Targets == Files \cup Dirs \cup Elsewhere

\* "denied": refused by the path guard or the OS; "unparseable": a value that
\* cannot be constructed; "broken": no YAML, or an include tag nobody knows.
Kinds == {"plain", "missing", "denied", "unparseable", "broken"}

Node == [kind  : Kinds,
         incl  : SUBSET Targets, \* the targets its !include tags name
         hint  : BOOLEAN,        \* _may_contain: the raw text may matter
         holds : BOOLEAN]        \* a leaf holds the literal

\* The literal and "!include" show in the raw text if they are in the tree: no
\* file spells them with character escapes.
Hinted(n) == n.kind = "plain" /\ (n.holds \/ n.incl # {}) => n.hint

ASSUME EntryAssumption   == Entry \in Files
ASSUME TargetsAssumption == Files \cap Dirs = {} /\ (Files \cup Dirs) \cap Elsewhere = {}
ASSUME ListingAssumption == /\ Gone \subseteq Dirs
                            /\ Listing \in [Dirs -> SUBSET (Files \cup Elsewhere)]
                            /\ \A d \in Gone : Listing[d] = {}
ASSUME NodesAssumption   == Nodes \subseteq Node /\ \A n \in Nodes : Hinted(n)

VARIABLES
  disk,    \* disk[f]: the content of f
  baks,    \* baks[f]: the contents of f that have a backup
  pc,      \* where the request is: see Phases
  mode,    \* what it does: see Modes
  queue,   \* files still to be visited
  seen,    \* files that were there when visited
  skipped, \* the SkipLog: pairs of a target and a reason
  hits,    \* files whose leaves hold the literal: hits, or changes
  writes   \* renamed files still to be written

walk == <<queue, seen, skipped, hits>>
vars == <<disk, baks, pc, mode, walk, writes>>

Phases == {"idle", "walking", "writing", "done", "failed"}

\* "scan" filters by raw text; "survey" - the entities, the grep and the dry
\* run of a rename - parses every file.
Modes == {"scan", "survey", "rename"}

TypeOK ==
  /\ disk \in [Files -> Node]
  /\ baks \in [Files -> SUBSET Node]
  /\ pc \in Phases
  /\ mode \in Modes
  /\ queue \subseteq Files
  /\ seen \subseteq Files
  /\ skipped \subseteq Targets \X {"missing", "unreadable", "unparseable"}
  /\ hits \subseteq Files
  /\ writes \subseteq hits

Init ==
  /\ disk \in [Files -> Nodes]
  /\ \A d \in Dirs : \A f \in Listing[d] \cap Files : disk[f].kind # "missing"
  /\ baks = [f \in Files |-> {}]
  /\ pc = "idle" /\ mode = "scan"
  /\ queue = {} /\ seen = {} /\ skipped = {} /\ hits = {} /\ writes = {}

Running == pc \in {"walking", "writing"}

-----------------------------------------------------------------------------
(* What an include names *)

\* _include_targets: a directory stands for the files under it.
Named(n) == (n.incl \ Dirs) \cup UNION {Listing[d] : d \in n.incl \cap Dirs}

\* _enqueue_includes: what is inside the config directory is followed ...
Followed(n) == Named(n) \cap Files

\* Mutant of Lost: a directory that is not there looks like an empty one.
LostButDirs(n) == {<<t, "unreadable">> : t \in Named(n) \cap Elsewhere}

\* ... and what cannot be followed is recorded.
Lost(n) == {<<t, "unreadable">> : t \in Named(n) \cap Elsewhere}
             \cup {<<d, "missing">> : d \in n.incl \cap Gone}

\* Why a file was not read.
Reason == [missing |-> "missing", denied |-> "unreadable", unparseable |-> "unparseable"]

-----------------------------------------------------------------------------
(* iter_config_trees, and the same loop in replace_yaml_literal *)

\* Mutant of Begin: the writes of a request that failed are not forgotten.
BeginKeepsWrites(m) ==
  /\ ~Running
  /\ pc' = "walking" /\ mode' = m
  /\ queue' = {Entry}
  /\ seen' = {} /\ skipped' = {} /\ hits' = {}
  /\ UNCHANGED <<disk, baks, writes>>

\* A request starts with a log, a queue and a list of writes of its own.
Begin(m) ==
  /\ ~Running
  /\ pc' = "walking" /\ mode' = m
  /\ queue' = {Entry}
  /\ seen' = {} /\ skipped' = {} /\ hits' = {} /\ writes' = {}
  /\ UNCHANGED <<disk, baks>>

\* One turn of the loop takes f off the queue.
Take(f) == pc = "walking" /\ f \in queue

Again(f) ==
  /\ Take(f)
  /\ f \in seen
  /\ queue' = queue \ {f}
  /\ UNCHANGED <<disk, baks, pc, mode, seen, skipped, hits, writes>>

Missing(f) ==
  /\ Take(f)
  /\ f \notin seen
  /\ disk[f].kind = "missing"
  /\ queue' = queue \ {f}
  /\ skipped' = skipped \cup {<<f, Reason["missing"]>>}
  /\ UNCHANGED <<disk, baks, pc, mode, seen, hits, writes>>

\* Mutant of New: a file is not marked as seen.
NewUnmarked(f) ==
  /\ Take(f)
  /\ f \notin seen
  /\ disk[f].kind # "missing"
  /\ UNCHANGED <<disk, baks, mode, seen>>

\* A file that is there is marked as seen before it is read.
New(f) ==
  /\ Take(f)
  /\ f \notin seen
  /\ disk[f].kind # "missing"
  /\ seen' = seen \cup {f}
  /\ UNCHANGED <<disk, baks, mode>>

\* The prefilter of the literal scan: skipped on the evidence of its text.
Relevant(f) == mode = "scan" => disk[f].hint

Irrelevant(f) ==
  /\ New(f)
  /\ ~Relevant(f)
  /\ queue' = queue \ {f}
  /\ UNCHANGED <<pc, skipped, hits, writes>>

\* _load_or_skip
Unread(f) ==
  /\ New(f)
  /\ Relevant(f)
  /\ disk[f].kind \in {"denied", "unparseable"}
  /\ skipped' = skipped \cup {<<f, Reason[disk[f].kind]>>}
  /\ queue' = queue \ {f}
  /\ UNCHANGED <<pc, hits, writes>>

\* YAMLError and UnknownIncludeTagError end the request.
Breaks(f) ==
  /\ New(f)
  /\ Relevant(f)
  /\ disk[f].kind = "broken"
  /\ pc' = "failed"
  /\ UNCHANGED <<queue, skipped, hits, writes>>

\* Mutant of Read: an include already on the queue stops the rest.
ReadFirstInclude(f) ==
  /\ New(f)
  /\ Relevant(f)
  /\ disk[f].kind = "plain"
  /\ queue' \in {(queue \ {f}) \cup {g} : g \in Followed(disk[f])}
                  \cup {q \in {queue \ {f}} : Followed(disk[f]) = {}}
  /\ skipped' = skipped \cup Lost(disk[f])
  /\ hits' = IF disk[f].holds THEN hits \cup {f} ELSE hits
  /\ writes' = IF mode = "rename" THEN hits' ELSE {}
  /\ UNCHANGED pc

\* The file is scanned - for a rename, its new content is worked out - and
\* what it includes goes on the queue.
Read(f) ==
  /\ New(f)
  /\ Relevant(f)
  /\ disk[f].kind = "plain"
  /\ queue' = (queue \ {f}) \cup Followed(disk[f])
  /\ skipped' = skipped \cup Lost(disk[f])
  /\ hits' = IF disk[f].holds THEN hits \cup {f} ELSE hits
  /\ writes' = IF mode = "rename" THEN hits' ELSE {}
  /\ UNCHANGED pc

\* Mutant of EndWalk: a rename starts to write while files are unread.
EndWalkEarly ==
  /\ pc = "walking"
  /\ queue = {} \/ writes # {}
  /\ pc' = IF mode = "rename" THEN "writing" ELSE "done"
  /\ UNCHANGED <<disk, baks, mode, walk, writes>>

EndWalk ==
  /\ pc = "walking"
  /\ queue = {}
  /\ pc' = IF mode = "rename" THEN "writing" ELSE "done"
  /\ UNCHANGED <<disk, baks, mode, walk, writes>>

-----------------------------------------------------------------------------
(* The write phase of replace_yaml_literal *)

\* What may be left of n after a write that failed: the beginning of its new
\* text, which may be empty and may or may not be YAML.
Torn(n) ==
  {[kind |-> k, incl |-> i, hint |-> TRUE, holds |-> FALSE] :
     k \in {"plain", "broken"}, i \in SUBSET n.incl}

\* Mutant of WriteFile: the backup is made of the file as written.
WriteFileFirst(f) ==
  /\ pc = "writing"
  /\ f \in writes
  /\ disk' = [disk EXCEPT ![f].holds = FALSE]
  /\ baks' = [baks EXCEPT ![f] = @ \cup {disk'[f]}]
  /\ writes' = writes \ {f}
  /\ UNCHANGED <<pc, mode, walk>>

WriteFile(f) ==
  /\ pc = "writing"
  /\ f \in writes
  /\ baks' = [baks EXCEPT ![f] = @ \cup {disk[f]}]
  /\ disk' = [disk EXCEPT ![f].holds = FALSE]
  /\ writes' = writes \ {f}
  /\ UNCHANGED <<pc, mode, walk>>

\* No backup could be made, the file could not be opened, or the write failed
\* after that had emptied it: a 500.
WriteFails(f) ==
  /\ pc = "writing"
  /\ f \in writes
  /\ \/ UNCHANGED <<disk, baks>>
     \/ /\ baks' = [baks EXCEPT ![f] = @ \cup {disk[f]}]
        /\ \/ UNCHANGED disk
           \/ \E n \in Torn(disk[f]) : disk' = [disk EXCEPT ![f] = n]
  /\ pc' = "failed"
  /\ UNCHANGED <<mode, walk, writes>>

\* Mutant of EndWrite: the answer does not wait for the last file.
EndWriteEarly ==
  /\ pc = "writing"
  /\ pc' = "done"
  /\ UNCHANGED <<disk, baks, mode, walk, writes>>

EndWrite ==
  /\ pc = "writing"
  /\ writes = {}
  /\ pc' = "done"
  /\ UNCHANGED <<disk, baks, mode, walk, writes>>

\* The container stops between two steps.
Crash ==
  /\ Running
  /\ pc' = "failed"
  /\ UNCHANGED <<disk, baks, mode, walk, writes>>

Visit(f) ==
  \/ Again(f) \/ Missing(f) \/ Irrelevant(f) \/ Unread(f) \/ Breaks(f) \/ Read(f)

Step ==
  \/ \E f \in Files : Visit(f) \/ WriteFile(f) \/ WriteFails(f)
  \/ EndWalk
  \/ EndWrite

Next ==
  \/ \E m \in Modes : Begin(m)
  \/ Step
  \/ Crash

Spec == Init /\ [][Next]_vars

\* The walk holds the event loop: it goes on until it ends.
FairSpec == Spec /\ WF_vars(Step)

-----------------------------------------------------------------------------
(* Properties *)

Closed(S) == \A f \in S : disk[f].kind = "plain" => Followed(disk[f]) \subseteq S

\* The files of the configuration: the least set with configuration.yaml that
\* is closed under !include.
Config == {f \in Files : \A S \in SUBSET Files : Entry \in S /\ Closed(S) => f \in S}

Holding == {f \in Config : disk[f].kind = "plain" /\ disk[f].holds}

\* scan_yaml_for_literal: the hits are every occurrence in the files Home
\* Assistant reads - cycles, diamonds and the prefilter change nothing - and the
\* dry run announces exactly what the rename will rewrite.
HitsAreExact == pc = "done" /\ mode # "rename" => hits = Holding

\* replace_yaml_literal: a rename answered "applied" leaves no occurrence in any
\* file it could read, whatever earlier attempts left half done.
RenameIsComplete == pc = "done" /\ mode = "rename" => Holding = {}

\* What an answer does not cover: files that could not be read, directories
\* that are not there and targets that lie outside.
Withheld(f) ==
  \/ disk[f].kind = "missing"
  \/ disk[f].kind \in {"denied", "unparseable"} /\ Relevant(f)

Uncovered ==
  LET read == {f \in Config : disk[f].kind = "plain"}
  IN  {<<f, Reason[disk[f].kind]>> : f \in {g \in Config : Withheld(g)}}
        \cup {<<t, "unreadable">> : t \in {u \in Elsewhere : \E f \in read : u \in Named(disk[f])}}
        \cup {<<d, "missing">> : d \in {e \in Gone : \E f \in read : e \in disk[f].incl}}

\* SkipLog: an answer names exactly the parts of the configuration it does not
\* cover, so that an absent "skipped" certifies that it covers everything.
SkippedIsExact == pc = "done" => skipped = Uncovered

\* "Every file is read, rewritten and verified above before any is written
\* here": when a file changes, the whole configuration has been read.
WritesFollowWholeWalk ==
  [][disk' # disk => \A f \in Config : f \in seen \/ disk[f].kind = "missing"]_vars

\* INVARIANTS.md C-5: whatever a rename overwrites is in a backup, also when the
\* write fails or the process dies between two files.
OverwrittenHasBackup ==
  [][\A f \in Files : disk'[f] # disk[f] => disk[f] \in baks'[f]]_vars

\* Every walk ends, however the files include each other.
EveryWalkEnds == Running ~> ~Running
=============================================================================
