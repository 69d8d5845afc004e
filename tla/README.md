# hactl-companion in TLA+

A specification of the hactl companion add-on: an aiohttp server
(`src/src/companion/`, called *the code* below; paths are relative to it) that
runs beside Home Assistant (HA).  It edits HA's YAML configuration, asks HA to
check or reload it, answers questions about it, and runs a WireGuard tunnel.

Contents: [the system](#the-system) · [how it is modelled](#how-it-is-modelled) ·
[the modules](#the-modules) · [the runs](#the-runs) · [findings](#findings) ·
[the proofs](#the-proofs) · [what is not modelled](#what-is-not-modelled) ·
[the plan](#the-plan)

## The system

One process, one asyncio event loop, no threads that touch shared state, and no
locks.  State lives in four places: the files under `/config` (which survive
everything), the container's own files and interfaces (lost with the container),
module-level registries of running tasks (lost with the process), and Home
Assistant, which runs what it last loaded.  Whatever goes wrong goes wrong
between these four: a handler that `await`s gives way to every other handler, a
call to HA or to `wg` may fail, time out, or succeed and lose its answer, and the
add-on may be stopped at any point.

| component (code) | state | operations | what makes it correct |
|---|---|---|---|
| Config file writes (`routes/config.py`, `backups.py`) | config files, `.hactl_backups` | PUT with backup, check, rollback; retention | a refused write leaves no trace (C-6), what is overwritten can be recovered (C-5), "validated" is true |
| Automation routes (`routes/automations.py`, `core_api.py`) | `automations.yaml`, what HA has loaded | create, replace, delete by id, alias or entity_id; reload; poll | one entry per write (C-14), ids unique, what was not loaded is reported |
| Template routes (`routes/templates.py`) | a file of blocks, what HA has up | create a block or one item, replace, delete; reload; poll by name | a unique_id stands twice only when a body brings it twice, a create darkens nobody (C-13), "created" is about the entity declared |
| Script, helper routes (`routes/scripts.py`, `routes/helpers.py`) | mappings in files the user wires, HA's storage | create, replace, delete by slug | writes go where HA reads (C-10), a write touches the entry it names, reads and writes agree |
| Wiring (`wiring.py`) | none (reads the configuration) | which file a create may extend, which places a read must look at | both follow HA (C-10, C-15) |
| Splice (`surgical.py`) | none (text of one file) | splice one entry, or dump the file | the spliced text parses to what was meant |
| Related entities (`routes/related.py`) | none (registries, configuration) | who refers to an entity | every automation that would break is named, and nothing that does not mention the entity |
| Reference scan, replace (`refscan.py`, `routes/refscan.py`) | the graph of files | find a literal, list entities, rename | an answer covers the configuration or says what it skipped; a rename is complete, recoverable |
| Text search (`refgrep.py`) | a child process per request | search with a deadline | the child never outlives the request |
| Include resolution (`yaml_resolver.py`) | the files being resolved | resolve a file recursively | cycles end, diamonds are allowed |
| Tunnel (`routes/wireguard.py`, `wg_supervisor.py`) | two configuration files, interface | configure, start, stop, reconcile at boot | what comes up is what was saved; what is stopped is quiet |
| Monitor (`wg_monitor.py`) | registry of tasks | start, stop, health check, re-resolve, back off | one task per tunnel, it never gives up, the status is true |
| Forward (`ha_forward.py`) | registry of listeners | start, stop, relay | closed before the tunnel goes down (C-16) |
| Configuration text (`wg.py`) | none | normalize, validate, parse dumps | the parsers agree |
| Pipeline, auth, containment (`server.py`, `auth.py`, `pathguard.py`) | none | per request decisions | nothing runs unauthenticated or outside `/config` |
| Log buffer (`logbuffer.py`) | a bounded deque | append, filter | bounded, in order |

The routes interact through the files (two routes may write one file), through
HA (a reload loads every route's writes), and through the registries (start and
stop of one tunnel).  `PROJECT.json` lists all components, and the hazards of
each at the line where they bite.

## How it is modelled

**One action is the code between two awaits.**  The event loop runs a handler
without interruption until it awaits something that is not ready; so a
read-modify-write without an `await` in it is one action, and a handler with *n*
suspensions is *n + 1* actions, between which any other action may happen.  File
I/O is synchronous here and never a suspension.  Each handler's position is a
field of its request slot (`req[r].pc`, `pc[r]`), and what it carries over the
suspension (a parsed list, a configuration text, a backup's name) is carried in
the model too, because that is what goes stale.

**External parties** are HA's check and reload, the Supervisor, `wg` and
`wg-quick`, DNS, the clock and the container.  They are actions of their own,
with every outcome the code's error handling distinguishes: success, refusal,
failure before or after the effect, a timeout.

**Data** is abstract: a content is a model value; a configuration is *valid* if
it is in a constant set; an automation is an id, an alias and whether HA accepts
it; a file of the include graph is what it includes and whether it holds the
literal.  Variables and fields that only observe (`committed`, `orphaned`,
`before`, `saw`, `untold`, `edited`, `made`, and `held` in `AutomationStore` and
`WgTunnel`) are marked so where they are declared; no guard reads them.

**Functions** without state (`Wiring`, `Resolver`, `Splice`, `Leaves`,
`Related`, `Registries`) are modelled as operators and held against a definition
of what they are for, written from HA's or YAML's rules and not from the code.
TLC takes every case of a bounded set: a case is an initial state to which
nothing happens.  For `Wiring`, `Leaves`, `Splice` and `Registries` the proofs
take every case there is; these modules say *where* in a list or a text a thing
stands (a set of positions, or a function from them) instead of building the
list, since nobody can prove about a fold what it computes for every input.

**Mutants.**  Beside some actions stands an altered form (`PutTornFirst`,
`RecordNothing`, `EndWalkEarly` ...), commented as a mutant of it: the bug one
would make there.  Nothing uses them.  Putting the mutant in the place of the
original makes TLC report the property `PROJECT.json` pairs it with, so each
property is known to tell the code from a wrong version of it.

## The modules

### ConfigWrite, MCConfigWrite, ConfigWriteProofs

`PUT /v1/config/file` and the backups (`routes/config.py:169-270`,
`backups.py`).  `disk[f]` is a file, `baks[f][s]` the backup whose name carries
second `s`, `now` the clock in that unit, `req[r]` the handler in slot `r`.

| action | code |
|---|---|
| `Put` | the handler up to `await check_config`: backup, prune, write |
| `HaChecks`, `CheckUnavailable`, `CheckRaises` | what the await ends with: a verdict on the files *as they are then*, `CoreAPIUnavailableError`, any other exception |
| `Accept`, `Reject` | the rest of the handler: 200, or rollback and 400/503 |
| `RestoreFails` | the rollback's copy or unlink raising, the copy with the file half written |
| `PutUnsupervised` | no `SUPERVISOR_TOKEN`: the check is skipped and nothing suspends |
| `PutTorn` | `write_text` raising after the file was truncated |
| `SaveEntry` | a write by another route through `surgical.save_entry` |
| `Tick`, `ClockBack`, `Crash` | time, a clock that is corrected, the container stopping |

Three specifications restrict *callers*, not the code: `PerFileSpec` (no
overlapping writes of one file, and a clock that is not set back), `GatedSpec`
(one PUT at a time and no other writer), `SpacedSpec` (overlapping, never twice
in one second).  `Spec` is unrestricted.
The guarantees hold under the first two; the findings show that they do not
under the others.  What only an overlap can break, `RollbackErasesOnlyItsOwn`, is
asked under `SpacedSpec` alone.  Bounds: `MaxSecond` seconds, `MaxBackups` 1 or 2 in the place
of 10, so that retention does prune.

### EntryWrites, AutomationStore, MCAutomationStore, AutomationStoreProofs

The automation routes (`routes/automations.py`) with `_find_automation`,
`reload_domain` and `_poll_automation_entity_id`.  `file` is the list in
`automations.yaml`, `loaded` what HA runs, `req[r]` the handler.

| action | code |
|---|---|
| `Put`, `Post`, `Delete` | parse, look up, change one entry, save; up to `await reload_domain` |
| `DeleteAsks` | no match in the file: up to the await on HA's states, keeping the parsed list |
| `DeleteResolved`, `DeleteNotFound` | what follows, *on the list parsed before* |
| `HaReloads`, `Reloaded`, `ReloadFails` | HA reads the file; the answer arrives, or does not |
| `PollFinds`, `PollMisses` | one attempt of the poll |
| `Crash` | the add-on restarts |
| `Watch` | observation, part of every step: for each request that waits, what HA would run of the contents the file has had since (`held`) |

`EntryWrites` is the abstract specification of C-14: every write adds, replaces
or removes one entry.  `AutomationStore` implements it, with `entries <- file`,
under `CalmSpec`, where nobody writes while a DELETE asks HA; for every caller,
`OneEntryUnlessStale` says that a stale list is the only way out of it. 
`CreatedIsNotOld` is about an id that was deleted, not reloaded, and created
again: HA runs the old automation still, and the poll of the new one must not
take it for the answer.  Bounds: `MaxEntries` is the longest list, `Attempts`
the poll's attempts (2 or 1 for the code's 5).  `MayRename` tells whether PUT
bodies may carry another id than the entry they replace, which the code allows.

Abstracted: HA derives an entity_id from the alias alone; dry runs and reads
change nothing and are left out.

### Catalog, TemplateStore, MCTemplateStore, TemplateProofs

The template routes (`routes/templates.py`).  `file` is the list of blocks, each
with its triggers and, per domain, its entities; `states` what HA shows, a
*ghost* being a state that was restored and never came up; `req[r]` the handler.

| action | code |
|---|---|
| `Put`, `Delete` | find the unique_id, change or remove one item, drop an emptied block |
| `PostBlock`, `PostBare` | refuse a unique_id that is anywhere in the file, append a block |
| `NotFound` | the 404 of a PUT or DELETE |
| `Reload`, `ReloadFails` | HA reads the file, drops a block whole for one bad item, and of several items under one domain and unique_id sets up any one (`ComesUp`); the call fails before or after |
| `PollFinds`, `PollGivesUp` | the poll by domain and friendly name, for one entity of the create |

`Catalog` is what the routes promise a caller who never sees a block: a function
from keys to definitions, and for each request what it may do to it: a create adds
the keys asked for, an update changes the one named, a delete takes that one away,
and nothing else moves (`Only`).  `TemplateStore` and `MappingStore` implement it
with their unique_ids, and with domain and slug, as keys: in `Asked` every action
is held to its own request.

Nothing is assumed of the bodies that the routes do not check.  A PUT may bring
another unique_id than the one it names, even another entity's
(`routes/templates.py:293`); a posted block may have one twice (439-447), and a
domain key with no items.  `UniqueUids` says that there is no other way for a
unique_id to stand twice; then PUT and DELETE take the first, and `Asked` says that
no other name is touched.  A block goes when its last domain key does
(`NoOrphanedBlock`); a key that was posted empty is one, so such a block may stay
with no entity in it (541).

Abstracted: a POST body is one of `Full` or `Item`; items without a unique_id are
left out, since no route can name them.

### MappingStore, MCMappingStore, MappingProofs

The script and helper routes (`routes/scripts.py`, `routes/helpers.py`).
`include[d]` is what the user's configuration says of domain `d` (nothing, the
conventional file, another one), `held` the entries by domain, place and slug,
`made` an observation: the entries that were answered "created" and not touched
since.

| action | code |
|---|---|
| `PutScript`, `PostScript`, `DeleteScript` | one step each: the target is resolved when the body is there |
| `PostHelperProves`, `PostHelper`, `PostHelperEnds` | the target is resolved *before* the body is awaited, used after it |
| `PutHelper`, `DeleteHelper` | `_locate_helper`: with a domain, or all of them and then exactly one; never under a key, never in HA's storage |
| `Rewire` | the user edits `configuration.yaml` |

A place is a file that is the domain's mapping, or *keyed*: inline or in a
package, where entries can be read and must not be spliced.  A lookup goes by the
order of the keys in `configuration.yaml`, so an inline key may come before the
`!include` (`KeyedFirst`) or after it.  `Movable` says which
domains the user rewires: any, at any time under `Spec`; under `SteadyNext` a
helper domain is left alone while a create of it waits for its body.  A body is
"old", found there, or "new", of a request, so that a PUT that changes nothing
or an entry it does not name is seen.  The reload and poll that end every write are
`AutomationStore`'s and `TemplateStore`'s subject.

### WgMonitor (proofs in ServicesProofs)

What the monitor task of `wg_monitor.py` does while it lives (its starts, stops
and its death are in `WgTunnel`).  `home[p]` is where peer `p` is, `endpoint[p]`
where the kernel thinks it is, `fresh` the peers with a recent handshake; `pc`,
`at`, `ip` and `status` are the task's.
`Peers` is the list of the configuration's peers, `Addrs` what DNS may answer.

| action | code |
|---|---|
| `Check`, `FoundAlive`, `FoundStale`, `Reconnected` | `_monitor_loop` around `_is_peer_alive` |
| `LookupFinds`, `LookupFails`, `SetWorks`, `SetFails` | `_tick`, peer by peer: DNS, then `wg set` |
| `Recheck`, `Retry` | `_reconnect_loop`: sleep, look, try again; `Schedule` is the length of `_BACKOFF` |
| `Move`, `Handshake`, `Expire` | external: a peer changes its address, answers, falls silent |

### GrepChild (proofs in ServicesProofs)

`GET /v1/ref/grep` with a pattern (`refgrep.py`): `Spawn` starts a child that
`ChildEnds` (or breaks, or never ends); `Collect`, `Deadline` and `HangUp` are
the three ways the `await` on it ends, the last two through the `finally` clause
that kills it and waits (`Reaped`); `Refuse`, `MatchLiteral` are the requests
without a child.  `Summarise` counts, sorts and caps: the candidates are numbered
in the order of the answer, so hits are a set of numbers, `FirstOf` its least
`Cap` and `Tally` the counts by file.  The walk that collects the
strings is `RefScan`'s.

### RefScan, RefScanProofs

The walk of the `!include` graph behind scan, entities and grep
(`refscan.py:236-302`), and `replace_yaml_literal` with its two phases
(`438-545`).  `disk[f]` is what a file includes and holds and how it fails to be
read; `queue`, `seen`, `skipped`, `hits` and `writes` are the code's own
variables.

| action | code |
|---|---|
| `Begin` | a request arrives, with a new log, queue and list of writes |
| `Again`, `Missing`, `Irrelevant`, `Unread`, `Breaks`, `Read` | one turn of the loop, one action per way out of it |
| `EndWalk` | the queue is empty: answer, or start to write |
| `WriteFile`, `WriteFails`, `EndWrite` | the write phase, file by file |
| `Crash` | the container stops |

`Modes`: "scan" uses the prefilter `_may_contain`, "survey" (entities, grep, the
dry run of a rename) parses everything, "rename" also writes.  `Hinted`
says when the prefilter is right: the text of a file that includes, or holds the
literal, shows it.  That is not so for a file that spells an id with YAML
character escapes (`"light\x2ea"`): a scan misses it while a rename finds it.
The assumption excludes such files; HA never writes one.

Abstracted: the queue is a set, since no answer depends on the order of the
walk; matching of tokens and the splice of a leaf are "the file holds the
literal" before and "does not" after.  A walk never suspends, so nothing else
changes the files during it.  `baks` keeps every content a backup was made of;
retention and the names of backups are `ConfigWrite`'s subject.

### Wiring, Resolver, Splice, Leaves, Related, Registries, their MC modules, ReadingProofs

| module | of | held against |
|---|---|---|
| `Wiring` | `wired_target`, `readable_domain_files`, packages (`wiring.py`) | `HaReads`: which places HA's loader reads for a domain |
| `Resolver` | `load(resolve=True)` with every include tag (`yaml_resolver.py`) | reachability in the include graph: `Graph`, `Below`, `Reasons` |
| `Splice` | `save_entry`: spans, comment boundaries, `_parses_back_to`, dump (`surgical.py:79-310, 460-502`) | what YAML reads in a text: its entries, their content lines, anchors and block scalars |
| `Leaves` | `splice_leaves` and the matching of values against text (`surgical.py:336-452`, `refscan.py:548-606`) | the values the leaves read, through aliases and merges |
| `Related` | `automation_references` (`routes/related.py`) | `HaAutomations`: what HA loads as automations, wherever it is included |
| `Registries` | the rest of `related_to_entity` (`routes/related.py:103-187, 415-438`) | the same question asked from the other end |

`HaReads` is HA's rule, `HaPackage` among it: packages are a mapping from names,
written out, in a file, or in the merged files of a directory, and only under
`!include_dir_named` is each file a package called like itself.  The code knows the
last form alone: packages written out are deferred (`_package_files`), and for the
others it takes each file for a package.  `Unread` and `Misread` say what that
leaves out and adds; nothing else differs.

`Related` looks at the whole configuration, where an automation is what stands
under an `automation` key at top level or in a package, with any label (`HaKeys`);
the code takes the key at any depth, with a label of one word (`AutoKeys`).  So
`NamesWhatBreaks` asks that every automation be named that the code's labels show
and that is not `Hidden` in another, and that everything named mention the entity
and be an automation or a lookalike (`Lookalikes`).

`Splice` parses its own output, so that a wrong span is a wrong *parse*, as it
is in the code; what the code's check would not see, `OthersKeepTheirLines` does,
since every line of the file as read has a number.  YAML's reading of a text is
said by positions: an entry begins at a head (`Heads`), its content is what lies
`Under` that head, a hash is content or comment by the block scalar it may be in
(`InBlock`, `IsContent`), and an alias stands for the last definition above it
(`Anchors`).  `Dump` writes entry after entry, each filled with blank lines to the
height of the tallest, so that the line of an entry is known without adding up
those before it; blank lines at the end of an entry mean nothing.  Every file is a
sequence of such lines that YAML accepts (`File`), and every edit that a route can
ask for is one of `Edit`; an alias that stands on its anchor's own line is not
modelled.  `starts` says whether the code can tell on which lines the file's entries
begin (`_entry_line_starts`); when it cannot - two entries on a line, a comment
after the dash, a key that is no string - the file is dumped whole, so
`PlainIsSurgical` is about files of which it can.

In `Wiring` a place that was found is known by three numbers: the key it was
found under (the packages come after all keys), the file in its directory, the
key in its package.  `Before` is the order of the code's list, and `Once`, the
code's `seen` and `unique`, keeps the first of equal places.  In `Leaves` a value
is a function from the positions of the tokens it is read from, so that "what
changed" can be asked of a position in the text.  A "narrow" text is one whose
style cannot hold the replacement, a quoted or plain scalar that would then read as
something else: the re-parse shows it, and the file is dumped, which
`tests/test_refscan_splice.py:289` and `:325` expect.  `PlainIsSpliced` is about
files without such.

Preconditions: reads are specified where no `!include` leads outside the
configuration (`Raises`), attribution where an automation file is first reached
through an automation key (`KindsInTime`); `routes/related.py:244-247` lets a file
that cannot be parsed raise, so every file here can be.  "Met while modelling" says what
happens otherwise.

### WgTunnel, MCWgTunnel, WgTunnelProofs

The life cycle of one tunnel across `routes/wireguard.py`, `wg_monitor.py`,
`ha_forward.py`, `wg_supervisor.py` and `__main__.py`.  `persist`, `runtime`:
the two copies of the configuration; `iface`: the configuration the interface is
up with; `monReg`, `tasks`: the monitor's registry and the tasks that run;
`registered`, `bound`, `recorded`: the forward's registry, the open sockets, the
sockets the forward knows about; `conf[r]` the text the handler works with,
`quick[r]` the one its `wg-quick up` has read.  A task or socket is named by the request that
created it, so one that outlives its registry entry can be told from its
successor.

| action | code |
|---|---|
| `PostConfig` | save: the canonical copy, then the runtime one, which may fail |
| `EditFile` | the user edits, drops or deletes the canonical file (`docs/wireguard.md:32`) |
| `StartProbe` ... `StartUp` | start: status probe, materialize and read, DNS, `wg-quick up`, monitor; `WgReads` and `WgUp` are the two steps of wg-quick, which parses its file before it brings the interface up, and a save may come between |
| `Resolve`, `Bind`, `Record` | `ha_forward.start`: ask the Supervisor, listen, remember |
| `StopProbe`, `StopServices`, `WgDown` | stop |
| `MonitorDies` | a `wg` command timing out inside the loop |
| `Restart`, `BootWithout`, `BootTunnel` | the add-on restarts; `reconcile` and the startup tasks, with a write, DNS or wg-quick that fails, and a wg-quick killed with the interface up |

`SerialSpec` is the caller who waits for each answer; `Spec` lets any number of
requests overlap.  `UpFromCanonical` says what is true of every overlap: the
interface comes up with a text that the canonical file held *while that start ran*
(`held`, noted at every step).  It need not be the last one saved.

Abstracted: a configuration has one tunnel address; an add-on restart is a
restart of its container, which loses the interface; the relayed connections and
the monitor's health check are left out.

### Overlap, Services, Reading, their MC modules, ServicesProofs

Components that share no state share a run: the initial state says which one a
behaviour is about (`focus`, or `of` for a case), and the others rest.  The
properties keep the components' definitions; where a run checks several of one
component together, the module conjoins them under a name.

`Overlap` is `WgTunnel`, `TemplateStore` and `MappingStore`; `Services` is
`AutomationStore`, `ConfigWrite`, `WgMonitor` and `GrepChild`; `Reading` is
`RefScan` and the cases of the functions.  They are general: their constants are
those of the components, with what the proofs assume of them.  `MCOverlap`,
`MCServices` and `MCRefScan` only give the constants values (`MCRefScan` also has
the properties of the functions that nothing is proved about).

## The runs

| run | specification | instance | distinct states | shows |
|---|---|---|---|---|
| `cw_per_file` | `PerFileSpec` | 2 slots, 2 files, 2 bodies, 3 seconds, 2 backups, with and without Supervisor | 256,084 | `Settled`, `Recoverable`, `ValidatedWasChecked`, `RollbackRestores`, `OverwrittenIsBackedUp` |
| `cw_same_second` | `Spec` | 1 file | violation | finding 1 |
| `cw_overlap` | `SpacedSpec` | 1 file | violation | finding 2 |
| `wg_serial` | `SerialSpec` | 3 starts, 2 stops, 3 configurations | 2,242,900 | `DownMeansQuiet`, `ConfAgreement`, `ListenersOwned`, `ForwardClosesFirst` |
| `wg_stop_race` | `Spec` | 2 starts, 1 stop | violation | finding 3 |
| `wg_monitor_dies` | `Spec` | 2 starts, 1 stop | violation | finding 4 |
| `overlap` | `OverlapSpec`: `WgTunnel`, `TemplateStore`, `MappingStore` | 2 starts and a stop; 2 slots, 2 blocks of 2 domains, 2 items, 2 full blocks; 2 slots, 3 domains, 2 of them also under a key, 2 slugs, 2 entries, 2 UI helpers | 316,979 | `MonitorsOwned`, `UpFromCanonical`; `StoresAreSound`, `StoresAreCatalogs`, `CreatesDarkenNobody`, `CreatedIsRead` |
| `services` | `ServicesSpec`: `AutomationStore`, `ConfigWrite!GatedNext`, `WgMonitor`, `GrepChild` | 2 slots, 2 entries of 3; 2 files whose validity depends on each other; 2 peers, one unknown to DNS, 2 moves; 2 searches of 6 kinds | 67,751 | `IdsStayUnique`, `UnloadedIsReported`, `OneEntryUnlessStale`, `CreatedIsNotOld`, `QuiescentValid`, `MonitorIsSound`, `TunnelRecovers`, `GrepIsSound`, `EveryHandlerEnds` |
| `as_stale_delete` | `Spec` | 2 slots, 2 entries | violation | finding 5 |
| `ref_scan` | `ReadingSpec`: `RefScan!FairSpec` and the cases of the functions | 3 files of 17 contents, a directory, a missing one, a target outside; 86,036 cases | 1,298,844 | `HitsAreExact`, `RenameIsComplete`, `SkippedIsExact`, `WritesFollowWholeWalk`, `OverwrittenHasBackup`, `EveryWalkEnds`; `WiringFollowsHa`, `IncludesResolve`, `SpliceTouchesOneEntry`, `RenameTouchesValues`, `RelationsAreTrue` |
| `helper_target` | `MappingStore!Spec` | 1 slot, 1 helper domain, rewired | violation | finding 6 |
| `tpl_created` | `TemplateStore!Spec` | 1 slot, two items of one name | violation | finding 7 |

`cw_per_file`, `wg_serial` and `ref_scan` also check `TypeOK`, `overlap` and
`services` the types of the stores, the monitor and the searches; that of
`AutomationStore` is proved.

**Why the bounds are enough.**  Two requests are what a race takes: every state a
handler carries over a suspension is read and written by one other handler. Two
files let validity relate files and let a write of one be seen not to disturb the
other.  Three seconds and two backups give a write before, during and after
another's check, and a backup pruned while a newer one is needed. Three starts
let a task or a socket be replaced and its successor be replaced again; two let a
configuration be saved while `wg-quick` works with the one before. Two entries
suffice for "the first of two matches" and for a list that moves under an index;
another entry shares an id with the first, and an alias is an id.  Two blocks of
two domains let an entity stand beside others of its block, and be looked for in
the wrong domain or block; one of the full blocks has a trigger and an item HA
refuses, the other a unique_id twice and an empty key.  Two helper domains hold
one slug twice; two slugs keep one entry still while the other moves.  A dead
peer before a living one is what a loop that stops at the first failure gets
wrong; two moves let a peer move while its last move is being looked up.  Three
files have every include graph that matters locally: a self-loop, a cycle through
the entry, a diamond, a dead end.  The cases: up to three keys of a domain with
every tag, and packages of every form, written out, named in a file and in the
files of a directory; up to two entries with a comment before, between and after
each, anchors, block scalars that end in what looks like a comment, files whose
entries' lines cannot be told; two scalars of up to two tokens, the first one's
style perhaps too narrow, read by three leaves; automations at the indices 1 and
10 beside keys that begin alike, under labels of one and two words, in a package
called `automation`, and beside a `rest_command` called so.  In `overlap` every
domain but one is rewired, a helper domain not while a create of it waits: that
is finding 6.  Namesakes among template entities are finding 7.

`CHECK_DEADLOCK FALSE` appears in `cw_overlap` alone: its callers must wait
for the next second, and the bounded clock ends.

**Fairness** is assumed of four components.  `AutomationStore`: weak fairness of
each handler's `Proceed`.  The event loop resumes whatever is ready, every call
to HA carries an aiohttp timeout (`core_api.py`), and the poll is a counted
loop; so a handler that can go on does.  `RefScan!FairSpec`: weak fairness of
`Step`; the walk never suspends, so nothing can keep it from its next turn.
Neither assumes that anything succeeds.  `GrepChild!Fairness`: weak fairness of
the handler and of a killed child's death; the deadline is `asyncio.wait_for`'s
and always comes.  No fairness for the child itself: it may run for ever.
`WgMonitor!Fairness`: the task goes on (weak fairness: each command has a timeout
of 30 s, each sleep an end - a task ended by that timeout is finding 4, not this
module's subject); for a name DNS knows, a lookup and a `wg set` tried for ever
work again and again (strong fairness: a network that fails every time has no
promise to keep), and so does a health check of peers that answer again and
again; and a peer that is not where the kernel thinks cannot keep a fresh
handshake (weak fairness of `Expire`).  Nothing is assumed of names that DNS does
not know, of `Move`, or of `Handshake`.

## Findings

1. *A backup of the same second is overwritten* (`cw_same_second`,
   `backups.py:51`).  Two PUTs of one file within one second use one backup
   name.  The second backs up the first's unchecked body over the original; the
   first, when refused, restores its own refused content.  C-6 says the prior
   state is restored.
2. *A rollback erases a later write* (`cw_overlap`, `routes/config.py:217`).
   The rollback of one PUT puts back what *it* replaced, although another PUT
   has written the file meanwhile and may have been answered as applied.
   A test's docstring promises "last write wins cleanly".
3. *A stop overlapping a start leaves a socket open* (`wg_stop_race`,
   `ha_forward.py:124`).  The start opens its listener after the stop has closed
   what it could see; the interface goes down under it.  C-16 says the forward
   closes first.
4. *A dead monitor is reported as running* (`wg_monitor_dies`,
   `wg_monitor.py:118`).  A `wg` command that times out ends the task with its
   registry entry in place.
5. *A delete undoes a create* (`as_stale_delete`, `routes/automations.py:267`).
   A DELETE that asks HA saves the list it parsed before asking; what others
   wrote meanwhile is gone.  C-14 says other entries stay as they were.
   `StaleDeletesAlone` proves that nothing else breaks C-14.
6. *A helper is created where HA does not read* (`helper_target`,
   `routes/helpers.py:332`).  The target is resolved before the body is awaited;
   an include changed meanwhile is not seen.  C-10 says the write goes to the
   file the include names, as the script route's does (`routes/scripts.py:212`).
7. *Another entity answers for a create* (`tpl_created`,
   `routes/templates.py:424`).  HA drops the new block; the one live state of
   that domain and name belongs to an entity that was there before, and the
   create answers `created: true` with its entity_id.  `core_api.py:177` says the
   check is about the entity the write declared.

Met while modelling, and excluded by a named condition or an instance rather
than reported:

* a DELETE by a name that HA resolves to an id no longer in the file looks that
  id up as an alias too, and may delete the entry that bears it as its alias;
* a PUT may give an automation the id of another (`MayRename`); a template PUT and a
  posted block may bring a unique_id in twice, of which HA sets up one
  (`UniqueUids` names these two ways); a domain key posted with no items keeps its
  block in the file when the last entity is deleted (`routes/templates.py:541`);
* the prefilter and escapes (`Hinted`);
* `POST` of a helper looks for its id only in the file it will extend
  (`routes/helpers.py:350`), so one that a second file, a package or the UI has
  already is created again and one shadows the other; a UI helper of that id also
  answers the poll (357); `GET` by a slug of two domains answers with the first
  (305), where `PUT` and `DELETE` refuse;
* an `!include` of a domain that leads outside the configuration raises
  `NotWiredError` inside `readable_domain_files` (`wiring.py:412`, `353`), which
  is caught for an unreadable `configuration.yaml` alone (`Raises`);
* entries in packages written out in `configuration.yaml` are not read, which
  `wiring.py:346-349` says; nor are those in packages that an included file, or the
  merged files of a directory, list by name, which nothing says - each such file is
  taken for a package (`Unread`, `Misread`; C-15);
* an automation file that another key includes before an automation key does is
  walked with its kind unknown, though `routes/related.py:203` says "its includer
  is always walked first" (`KindsInTime`); list items under `automation:` that
  are `!include`s are attributed to nobody; a file that cannot be parsed ends the
  request with a 500 (244-247);
* any key called `automation` is taken for automations, whatever it is a key of, and
  hides those under another one below it; a label of several words hides its
  automations (`Lookalikes`, `Hidden`, `AutoKeys`);
* a replacement that a scalar cannot hold (`surgical.py:358-363`) and a file whose
  entries' lines cannot be told (251-260) end in a dump of the whole file, and the
  answer says `reformatted`;
* `device-reference` relations are reported from one end only, and keys with a
  "." or "[" in them make rendered paths ambiguous.

## The proofs

The eight `*Proofs` modules are checked by TLAPS; they hold for every value of the
constants that satisfies the `ASSUME`s of the modules they extend, which TLC
evaluates for the instances.  There are no other assumptions.

| module | theorems | inductive invariant |
|---|---|---|
| `ConfigWriteProofs` | `TypeCorrect` (`Spec`); `SettledWhenSerial`, `CrashIsRecoverable`, `RollbackIsFaithful`, `ValidatedIsHonest`, `OverwrittenIsKept` (`PerFileSpec`); `GateHolds` (`GatedSpec`) | `PerFileInv`: at most one request per file; while it is in flight the file holds its body, what it replaced is the settled content, and its backup is there and holds it. `NoFutureBackup` is what retention needs, and what a clock set back would break: a backup just made is the newest, so it is kept. `GatedInv`: the configuration with the one request's write undone is valid. |
| `WgTunnelProofs` | `TypeCorrect`, `MonitorsAreOwned`, `ComesUpFromCanonical` (`Spec`); `ServicesFollowInterface`, `ServicesAgree`, `ListenersAreOwned`, `ForwardIsClosedFirst` (`SerialSpec`) | `CanonicalInv`: what a start has materialized, and what its `wg-quick` has read, is a text that the canonical file held since the start came in; before the boot no handler is under way. `SerialInv`: at most one request is active, and its step says what the registries and sockets hold. |
| `AutomationStoreProofs` | `TypeCorrect`, `StaleDeletesAlone`, `CreatesConfirmTheNew`, `IdsAreUnique`, `UnloadedWasReported` (`Spec`); `ImplementsEntryWrites` (`CalmSpec`) | `CalmInv`: a list kept over the await is still the file. `UniqueInv`: ids are unique in the file *and in every list kept*, since a stale delete writes one back. `LoadedInv`: HA runs the file, or an answer has said otherwise, or a reload is on its way. `HeldInv`: from its reload's read on, what HA runs is of a content the file had since the request wrote it. |
| `RefScanProofs` | `TypeCorrect`, `ScansAreExact`, `RenamesAreComplete`, `SkipLogIsExact`, `RewritesComeLast`, `RewritesAreBackedUp` (`Spec`) | `WalkInv`: the walk stays inside the configuration (`WalkInside`); what is seen includes only what is seen, queued or recorded as missing (`WalkOnward`); hits, writes and log match what is seen. With an empty queue, `WalkOnward` makes the visited set closed under `!include`, and the configuration is the *least* closed set (`WholeWalk`). |
| `TemplateProofs` | `TemplateUidsAreUnique`, `TemplatesImplementCatalog`, `TemplateCreatesDarkenNobody`, `StoresStaySound`, `StoresImplementCatalogs` (`OverlapSpec`; the last two with `MappingProofs`) | `TemplInv`: every block of the file has a domain key (`FileOK`); what HA shows as live stands in a block its schema lets through, or was edited by a PUT or DELETE (`LiveIsLit`); no entity is both live and a ghost (`NoGhostRuns`). |
| `MappingProofs` | `CreatedEntriesAreRead`, `ReadsAgreeWithWrites`, `KeyedIsUntouched`, `MappingsImplementCatalog` (`OverlapSpec`) | `MapInv`: the target a create proved before its await is still the one its include names (`TargetsStand`), and what was answered "created" is held where its include points (`MadeStands`); a domain that nobody may move never gets another file (`IncludesFixed`). |
| `ServicesProofs` | `ReportIsTheKernels`, `SearchesAreSound`, `QuiescentStaysValid` (`ServicesSpec`) | `MonitorInv`: while the task runs `wg set`, the address it carries came from DNS. `GrepInv`: who has not spawned has no child, who reaps has one that is dying or killed, who is over has none that runs, and an answer is `Summarise` of *all* hits. `ConfigInv`: one PUT at most is in flight, no backup is of the future, its backup holds what it replaced, and with it undone the configuration is valid. |
| `ReadingProofs` | `WiringIsHas`, `RenamesTouchValues`, `SplicesTouchOneEntry`, `RegistriesAreMutual` (`ReadingSpec`) | none is needed: a case never changes (`CasesStay`).  The work is in lemmas about the functions, below. |

The invariants are needed because none of the properties is inductive: each
speaks of an answer, and holds because of what was true at every suspension
before it.  Each inductive invariant was checked by TLC before it was proved.

**What is assumed of the constants**, and why the code justifies it:

* `ItemAssumption`, `FullAssumption`: an item stands under one of the domains, and a
  posted block has a domain key; both are refused otherwise (`routes/templates.py`).
* `HelpersAssumption`, `BoundAssumption`, `MovableAssumption`: scripts are no helper
  domain (`ALLOWED_DOMAINS`) and no domain is called like an answer of `Locate`; only
  helper domains stand under keys, HA's storage is finite, bounds are numbers, and
  what is rewired is a domain.
* `ConfigAssumption`: the backup limit is positive, a torn file is no body.
* `PeersAssumption`, `ScheduleAssumption`: a monitor is started for a tunnel that
  has peers, and its back-off has a length.
* `TermsAssumption`: candidates are numbered, a search finds finitely many, the cap
  is positive.
* `RequestsAssumption`, `NobodyAssumption`, `ConfsAssumption`, and those of
  `AutomationStore` and `RefScan`: names for nothing (`Nobody`, `NoConf`) name nothing
  else, bounds are numbers, files are not directories.
* `CasesAssumption`: a case is a configuration, a file, or a file YAML accepts and
  an edit of an entry that is there, of any length.
* `WiringAssumption`: `configuration.yaml` is not denied, and what lies in a denied
  directory is denied with it, as `is_denied_path` has it.

**And of the callers**, where a theorem is about a specification with a name of its
own: `PerFileSpec`, no overlap on one file and no clock set back (findings 1 and 2
otherwise; the retention may then also take the request's own backup);
`SerialSpec`, one request on a tunnel at a time (finding 3); `CalmSpec` (finding 5);
`OverlapSpec`, where `SteadyNext` keeps the include of a helper domain while a create
of it waits for its body, and at no other time (finding 6).

**The stores.**  Both implement `Catalog`, which knows neither blocks, positions
nor files.  For templates the abstract state is the definition a caller reaches under
each unique_id, the first in the file (`ReachedIs`); the lemmas say what replacing an
item, appending a block and dropping an item or a block does to that (`ShiftedIsSame`:
what only moves is reached as before).  A create darkens nobody because a bare item
gets a block of its own: HA's verdict on the blocks that were there does not change.

**The functions.**  `WiringIsHas` is about two functions that must agree with HA and
with each other.  At every stop - each key, each file of a directory, each key of
a package - what is found is what HA reads there, less what is denied and
`Unread`, and with what is `Misread` (`KeyIsRead`, `PackageIsRead`); what is found is the union over the
stops (`FoundIsEveryStop`); and keeping the first of equal places loses none and
repeats none (`OnceIsASet`), because every set of places has one that comes first
(`FirstSpot`, from the well-foundedness of `<`).  `RenamesTouchValues` needs that
counting tells: if the raw text has as many matches as the value, there is no
anchor among them (`AgreedHaveNoAnchor`), by the cardinality of the two sets of
positions, one within the other; and a token split by an escape makes the
re-parsed tree differ (`OnlyValuesDoChange`).  Its other half is
`PlainOnesAreSpliced`.  `RegistriesAreMutual` is set algebra, for any registries.

`SplicesTouchOneEntry` has three parts, for every text and every edit.

* *The content is the meant one* (`SplicedContent`).  If the spliced text is
  written, the code's own check has said so.  If the file is dumped, the dump must
  parse to what it was written from (`DumpParses`): entry n stands in row n
  (`DumpIs`), so the heads are the first lines of the rows and what lies under
  them is the entry's content.
* *The others keep their lines* (`SplicedOthersStay`).  The lines replaced run from
  the head to the last one that is neither blank nor begins with #, and that one is
  the head or content of the entry: they are all its own.  What stays is moved as
  a whole, and what is new has no number, so the order is kept.
* *A plain file is spliced* (`SplicedPlainly`), that is, the check passes: the
  entries before and after the patch parse as they did (`PatchedHeads`,
  `PatchedContents`, `PatchedParse`), and the text is YAML (`PatchedYaml`).

All rest on one lemma, that a finite set of numbers is ordered in one way only
(`SortedIs`): so `Parse` is known as soon as one ordered list of the heads is.
What would be induction over a text is done with the least position at which
something holds (`LeastIn`).

The proofs corrected the model: three definitions (`GetAnswer` and `Locate` of
`MappingStore`, the tags of `Resolver`) were `CASE`s whose guards overlapped, which
TLA+ leaves undetermined where TLC takes the first arm, and one (`HaReads`) left
the scope of a `UNION` to the parser; they now say what the code does.  `Splice`
was restated without its fold.

`ImplementsEntryWrites` is the refinement: initial states map to initial states,
and each step of the routes is a step of `EntryWrites` or leaves the list alone.

It holds under `CalmSpec` only, as finding 5 shows; `StaleDeletesAlone` is what
is left of it under `Spec`, and both follow from one lemma, `FreshStepWrites`.
`GateHolds` is about `ConfigWrite!GatedNext`, which `services` runs.

**Model-checked only**:

* the liveness properties `EveryHandlerEnds`, `TunnelRecovers` and `EveryWalkEnds`:
  TLAPS does not reason about fairness or `ENABLED`;
* `IncludesResolve`: `Resolver` is recursive as the code is - a document is its
  includes', resolved - with the visited set and the first error handed from one
  to the next, in order.  What it computes is only to be had by induction over
  data, and TLAPS takes no module with a `RECURSIVE` operator;
* the attribution of automations, `NamesWhatBreaks`, in `RelationsAreTrue`: it
  compares rendered paths character by character and walks the includes in order,
  both folds, and it is not true of every configuration ("Met while modelling":
  keys with a "." in them, files walked before their includer), so a theorem
  would have to assume most of what it says.  The other half of
  `RelationsAreTrue`, `RelationsAreMutual`, is proved.

The configuration of `RefScan` is a least closed set, which needs no recursion, and
is what one would say anyway.

## What is not modelled

* Reads, dry runs and file lists change nothing; their answers are functions of
  one snapshot of a file, and only those that a write must agree with are
  modelled (`GetAnswer`, `Readable`, `Summarise`).
* Text: normalization of tunnel configurations (`wg.py`), indentation, the
  boundaries of a token, how a pattern matches, path arithmetic (`pathguard.py`:
  its verdict is a constant set wherever it matters), the OpenAPI document, the
  add-on's shell wrappers.
* The relay inside a forward, the request pipeline (`server.py`, `auth.py`) and
  the aiohttp server itself.
* The log buffer: a `deque(maxlen=...)` and filters on a copy of it.
* HA's own behaviour beyond "checks what is on disk", "loads what is on disk",
  "drops what its schema refuses" and "reads what its configuration includes".
* `PROJECT.json` lists every component with its status and the reason.

## The plan

Done, in this order: `ConfigWrite`, `WgTunnel`, `AutomationStore`, `RefScan`,
each with its proofs; then `TemplateStore`, `MappingStore`, `WgMonitor`,
`Wiring`, `Resolver`, `Splice`, `Leaves`, `Related`, `GrepChild`; then the proofs
about these, for which their compositions `Overlap`, `Services` and `Reading`
became modules of their own.

Next, each with its properties first:

1. Compositions: `ConfigWrite` with `AutomationStore` on one file, where a
   rollback meets an entry written meanwhile; a rename of `RefScan` with both.
2. The order of the middlewares (`server.py`), and the endpoint parsers of
   `wg.py`, which must agree.
