-------------------------- MODULE AutomationStore --------------------------
(***************************************************************************)
(* The automation routes: a YAML list rewritten entry by entry, and the    *)
(* Home Assistant that is told to reload it.                               *)
(*                                                                         *)
(* A route parses the file, changes the parsed list and writes it back     *)
(* without giving way, with one exception: a DELETE that finds no match    *)
(* asks Home Assistant which automation was meant, and goes on with the    *)
(* list it parsed before.                                                  *)
(***************************************************************************)
EXTENDS Naturals, Sequences

CONSTANTS
  Reqs,       \* request slots
  Entry,      \* automations: [id, alias: names, ok: does HA's schema accept it]
  Entity,     \* Entity[alias]: the entity_id HA derives from an alias
  MaxEntries, \* bound: the longest list
  Attempts,   \* _poll_automation_entity_id's attempts
  MayRename   \* PUT bodies may carry another id than the one they replace

ASSUME MaxEntriesAssumption == MaxEntries \in Nat
ASSUME AttemptsAssumption   == Attempts \in Nat \ {0}
ASSUME RenameAssumption     == MayRename \in BOOLEAN

Ids     == {e.id : e \in Entry}
Aliases == {e.alias : e \in Entry}
Names   == Ids \cup Aliases \cup {Entity[a] : a \in Aliases}

VARIABLES
  file,   \* the list in automations.yaml
  loaded, \* the automations HA runs
  req,    \* req[r]: the handler in slot r
  untold, \* observation: since HA last read the file, an answer said
          \* "reloaded": false, or a handler vanished before it could
  held    \* observation: held[r] is what HA would run of any content the file
          \* has had since r's request began to wait

vars == <<file, loaded, req, untold, held>>

Idle == [pc |-> "idle"]

Resolving(cand, data) == [pc |-> "resolving", cand |-> cand, data |-> data]
Reloading(next)       == [pc |-> "reloading", next |-> next]
Polling(id, attempt)  == [pc |-> "polling", id |-> id, attempt |-> attempt]

Polls    == [pc : {"polling"}, id : Ids, attempt : 0 .. Attempts - 1]
Afters   == {Idle} \cup Polls
Lookups  == [pc : {"resolving"}, cand : Names, data : Seq(Entry)]
Reloads  == [pc : {"reloading", "reloaded"}, next : Afters]
Requests == Afters \cup Lookups \cup Reloads

TypeOK ==
  /\ file \in Seq(Entry)
  /\ loaded \in SUBSET Entry
  /\ req \in [Reqs -> Requests]
  /\ untold \in BOOLEAN

\* HA drops, one by one, the entries its schema refuses.
Live(d) == {e \in Entry : e.ok /\ \E i \in DOMAIN d : d[i] = e}

UniqueIds(d) == \A i, j \in DOMAIN d : d[i].id = d[j].id => i = j

Init ==
  /\ \E n \in 0 .. MaxEntries : file \in [1 .. n -> Entry]
  /\ UniqueIds(file)
  /\ loaded = Live(file)
  /\ req = [r \in Reqs |-> Idle]
  /\ untold = FALSE
  /\ held = [r \in Reqs |-> {}]

Become(r, state) == req' = [req EXCEPT ![r] = state]

-----------------------------------------------------------------------------
(* _find_automation: by id, else by alias, the first one *)

ById(d, name)    == {i \in DOMAIN d : d[i].id = name}
ByAlias(d, name) == {i \in DOMAIN d : d[i].alias = name}
Matches(d, name) == ById(d, name) \cup ByAlias(d, name)
First(S)         == CHOOSE i \in S : \A j \in S : i <= j

Found(d, name) ==
  First(IF ById(d, name) # {} THEN ById(d, name) ELSE ByAlias(d, name))

Without(d, i) == SubSeq(d, 1, i - 1) \o SubSeq(d, i + 1, Len(d))

-----------------------------------------------------------------------------
(* The routes *)

\* Mutant of Put: nothing is reloaded after the write.
PutNoReload(r, name, e) ==
  /\ req[r] = Idle
  /\ e.id = name \/ MayRename
  /\ ById(file, name) # {}
  /\ file' = [file EXCEPT ![First(ById(file, name))] = e]
  /\ UNCHANGED <<loaded, req, untold>>

\* put_automation, dry_run=false: by id only, and the new id is not looked at.
Put(r, name, e) ==
  /\ req[r] = Idle
  /\ e.id = name \/ MayRename
  /\ ById(file, name) # {}
  /\ file' = [file EXCEPT ![First(ById(file, name))] = e]
  /\ Become(r, Reloading(Idle))
  /\ UNCHANGED <<loaded, untold>>

\* Mutants of Post: a duplicate is looked for by alias; the list is replaced.
PostAliasCheck(r, e) ==
  /\ req[r] = Idle
  /\ Len(file) < MaxEntries
  /\ ByAlias(file, e.alias) = {}
  /\ file' = Append(file, e)
  /\ Become(r, Reloading(Polling(e.id, 0)))
  /\ UNCHANGED <<loaded, untold>>
PostFirst(r, e) ==
  /\ req[r] = Idle
  /\ Len(file) < MaxEntries
  /\ ById(file, e.id) = {}
  /\ file' = <<e>> \o file
  /\ Become(r, Reloading(Polling(e.id, 0)))
  /\ UNCHANGED <<loaded, untold>>

\* post_automation: an id already there is a 409.
Post(r, e) ==
  /\ req[r] = Idle
  /\ Len(file) < MaxEntries
  /\ ById(file, e.id) = {}
  /\ file' = Append(file, e)
  /\ Become(r, Reloading(Polling(e.id, 0)))
  /\ UNCHANGED <<loaded, untold>>

\* delete_automation, the file knows the name...
Delete(r, name) ==
  /\ req[r] = Idle
  /\ Matches(file, name) # {}
  /\ file' = Without(file, Found(file, name))
  /\ Become(r, Reloading(Idle))
  /\ UNCHANGED <<loaded, untold>>

\* ... or it does not: ask HA, and keep what was parsed.
DeleteAsks(r, name) ==
  /\ req[r] = Idle
  /\ Matches(file, name) = {}
  /\ Become(r, Resolving(name, file))
  /\ UNCHANGED <<file, loaded, untold>>

\* _resolve_automation_id_via_states, against what HA runs now.
Meant(name) == {e \in loaded : Entity[e.alias] = name \/ e.id = name}

\* A state matched: its config id is looked up like any name, in the old data.
DeleteResolved(r) ==
  /\ req[r].pc = "resolving"
  /\ \E e \in Meant(req[r].cand) :
       /\ Matches(req[r].data, e.id) # {}
       /\ file' = Without(req[r].data, Found(req[r].data, e.id))
  /\ Become(r, Reloading(Idle))
  /\ UNCHANGED <<loaded, untold>>

\* 404: no state matched, HA could not be asked, or the id is not in the file.
DeleteNotFound(r) ==
  /\ req[r].pc = "resolving"
  /\ Become(r, Idle)
  /\ UNCHANGED <<file, loaded, untold>>

-----------------------------------------------------------------------------
(* reload_domain and the poll *)

\* HA reads the file (external)...
HaReloads(r) ==
  /\ req[r].pc = "reloading"
  /\ loaded' = Live(file)
  /\ untold' = FALSE
  /\ req' = [req EXCEPT ![r].pc = "reloaded"]
  /\ UNCHANGED file

\* ... and its answer arrives,
Reloaded(r) ==
  /\ req[r].pc = "reloaded"
  /\ Become(r, req[r].next)
  /\ UNCHANGED <<file, loaded, untold>>

\* Mutants of ReloadFails: a call that failed is reported as a success; a POST
\* looks for its automation all the same.
ReloadFailsSilently(r) ==
  /\ req[r].pc \in {"reloading", "reloaded"}
  /\ Become(r, Idle)
  /\ UNCHANGED <<file, loaded, untold>>
ReloadFailsPolls(r) ==
  /\ req[r].pc \in {"reloading", "reloaded"}
  /\ untold' = TRUE
  /\ Become(r, req[r].next)
  /\ UNCHANGED <<file, loaded>>

\* or it does not, whether HA read the file or not: "reloaded": false.
ReloadFails(r) ==
  /\ req[r].pc \in {"reloading", "reloaded"}
  /\ untold' = TRUE
  /\ Become(r, Idle)
  /\ UNCHANGED <<file, loaded>>

\* _poll_automation_entity_id: one look at the states finds the new id...
PollFinds(r) ==
  /\ req[r].pc = "polling"
  /\ \E e \in loaded : e.id = req[r].id
  /\ Become(r, Idle)
  /\ UNCHANGED <<file, loaded, untold>>

\* Mutant of PollMisses: the attempts are not counted.
PollMissesForever(r) ==
  /\ req[r].pc = "polling"
  /\ UNCHANGED <<file, loaded, req, untold>>

\* ... or not, or gets no states; after the last attempt the answer is null.
PollMisses(r) ==
  /\ req[r].pc = "polling"
  /\ Become(r, IF req[r].attempt + 1 < Attempts
                 THEN Polling(req[r].id, req[r].attempt + 1)
                 ELSE Idle)
  /\ UNCHANGED <<file, loaded, untold>>

\* The add-on restarts: handlers vanish, saved entries may stay unloaded.
Crash ==
  /\ \E r \in Reqs : req[r] # Idle
  /\ req' = [r \in Reqs |-> Idle]
  /\ untold' = TRUE
  /\ UNCHANGED <<file, loaded>>

Arrive(r) ==
  \/ \E n \in Ids, e \in Entry : Put(r, n, e)
  \/ \E e \in Entry : Post(r, e)
  \/ \E n \in Names : Delete(r, n)
  \/ \E n \in Names : DeleteAsks(r, n)

Proceed(r) ==
  \/ DeleteResolved(r) \/ DeleteNotFound(r)
  \/ HaReloads(r) \/ Reloaded(r) \/ ReloadFails(r)
  \/ PollFinds(r) \/ PollMisses(r)

\* The observation: what the file holds is noted for every request that waits.
Watch ==
  held' = [r \in Reqs |-> IF req'[r] = Idle THEN {} ELSE held[r] \cup Live(file')]

Next ==
  \/ \E r \in Reqs : Arrive(r) /\ Watch
  \/ \E r \in Reqs : Proceed(r) /\ Watch
  \/ Crash /\ Watch

Spec == Init /\ [][Next]_vars

\* Every call to HA ends, by its own timeout if need be, and the loop goes on.
Fairness == \A r \in Reqs : WF_vars(Proceed(r) /\ Watch)
FairSpec == Spec /\ Fairness

\* Callers that leave the file alone while a DELETE asks HA.
NobodyAsks == \A r \in Reqs : req[r].pc # "resolving"

CalmNext ==
  \/ NobodyAsks /\ \E r \in Reqs : Arrive(r) /\ Watch
  \/ \E r \in Reqs : Proceed(r) /\ Watch
  \/ Crash /\ Watch

CalmSpec == Init /\ [][CalmNext]_vars

-----------------------------------------------------------------------------
(* Properties *)

Writes == INSTANCE EntryWrites WITH entries <- file

\* INVARIANTS.md C-14: POST, PUT and DELETE "change one entry's lines in the
\* file and leave every other byte exactly as it was".
OneEntryPerWrite == Writes!Spec

\* The same, step by step, for every caller: whoever overlaps, a step changes one
\* entry unless a DELETE saves a list that others have changed meanwhile.
OneEntryUnlessStale ==
  [][(\A r \in Reqs : req[r].pc = "resolving" => req[r].data = file)
       => Writes!Next \/ UNCHANGED file]_vars

\* The id names one automation, so a read, PUT or DELETE by id has one meaning.
IdsStayUnique == UniqueIds(file)

\* An automation saved and accepted by HA's schema runs, and a removed one does
\* not, once nothing is in flight - or an answer said it was not reloaded.
UnloadedIsReported ==
  (\A r \in Reqs : req[r] = Idle) /\ loaded # Live(file) => untold

\* An automation that HA still runs from before - its DELETE was not reloaded -
\* is never taken for the one a POST has just written under its id: while the
\* poll looks, HA has read all it runs from the file after the POST's write.
CreatedIsNotOld ==
  \A r \in Reqs : req[r].pc = "polling" => loaded \subseteq held[r]

\* Every request is answered, however the calls to HA end.
EveryRequestAnswered == \A r \in Reqs : req[r] # Idle ~> req[r] = Idle
=============================================================================
