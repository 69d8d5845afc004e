---------------------------- MODULE ConfigWrite ----------------------------
(***************************************************************************)
(* PUT /v1/config/file and the backups it rests on.                        *)
(*                                                                         *)
(* The handler backs the old content up, writes the new one, and then      *)
(* suspends while Home Assistant checks the configuration now on disk; a   *)
(* verdict other than "valid" makes it put the old content back.  No lock  *)
(* spans the suspension, so other handlers of the same event loop run      *)
(* between the write and the verdict.  Code between two awaits is one      *)
(* action.                                                                 *)
(***************************************************************************)
EXTENDS Naturals, FiniteSets

CONSTANTS
  Reqs,          \* request slots: how many PUTs may be in flight together
  Files,         \* the config paths requests may name
  Bodies,        \* contents a request may submit: non-empty, parsable YAML
  Torn,          \* what a write that died half-way leaves in the file
  Absent,        \* no such file
  NoFile,        \* the file of a slot that runs no request
  MaxBackups,    \* backups.MAX_BACKUPS
  MaxSecond,     \* bound: last second of the clock
  Supervised,    \* can SUPERVISOR_TOKEN be set, so that there is a validator?
  Unsupervised,  \* can it be missing?
  Valid          \* the configurations Home Assistant's check accepts

Image   == Bodies \cup {Torn, Absent}
Seconds == 0 .. MaxSecond

ASSUME BackupsAssumption == MaxBackups \in Nat \ {0}
ASSUME ClockAssumption   == MaxSecond \in Nat
ASSUME ImageAssumption   == Torn # Absent /\ {Torn, Absent} \cap Bodies = {}
ASSUME SupervisedAssumption == {Supervised, Unsupervised} \subseteq BOOLEAN
ASSUME ValidAssumption   == Valid \subseteq [Files -> Image]

VARIABLES
  disk,      \* disk[f]: content of config file f
  baks,      \* baks[f][s]: content of .hactl_backups/<f>.bak.<s>
  now,       \* the clock, in the one-second unit backup names are made of
  req,       \* req[r]: the handler running in slot r, or its last answer
  (* observation only *)
  committed, \* committed[f]: the content f had when it was last settled
  orphaned   \* files whose last write, or its rollback, died on the way

vars == <<disk, baks, now, req, committed, orphaned>>

\* "checking": written, waiting for Home Assistant; then what it answered.
Phases == {"checking", "ok", "invalid", "unavailable"}

Idle == [pc |-> "idle", file |-> NoFile, body |-> Absent, existed |-> FALSE,
         stamp |-> 0, before |-> Absent, saw |-> Absent]

Request == [pc      : Phases,
            file    : Files,
            body    : Bodies,
            existed : BOOLEAN,   \* a backup was made
            stamp   : Seconds,   \* its timestamp
            before  : Image,     \* observation: content the write replaced
            saw     : Image]     \* observation: what Home Assistant read

TypeOK ==
  /\ disk \in [Files -> Image]
  /\ baks \in [Files -> [Seconds -> Image]]
  /\ now \in Seconds
  /\ req \in [Reqs -> Request \cup {Idle}]
  /\ committed \in [Files -> Image]
  /\ orphaned \in SUBSET Files

InFlight(r) == req[r].pc # "idle"
FileFree(f) == \A r \in Reqs : InFlight(r) => req[r].file # f

Init ==
  /\ disk \in Valid
  /\ \A f \in Files : disk[f] # Torn
  /\ baks = [f \in Files |-> [s \in Seconds |-> Absent]]
  /\ now = 0
  /\ req = [r \in Reqs |-> Idle]
  /\ committed = disk
  /\ orphaned = {}

-----------------------------------------------------------------------------
(* backups.py *)

Newer(b, s) == {t \in Seconds : t > s /\ b[t] # Absent}

Older(b, s) == {t \in Seconds : t < s /\ b[t] # Absent}

\* Mutant of Pruned: the oldest are kept.
PrunedNewestFirst(b) ==
  [s \in Seconds |->
     IF Cardinality(Older(b, s)) < MaxBackups THEN b[s] ELSE Absent]

\* _prune_backups: names sort by time; all but the newest MaxBackups go.
Pruned(b) ==
  [s \in Seconds |->
     IF Cardinality(Newer(b, s)) < MaxBackups THEN b[s] ELSE Absent]

\* make_backup: a second backup in the same second has the same name.
BackedUp(f) ==
  IF disk[f] = Absent THEN baks[f]
  ELSE Pruned([baks[f] EXCEPT ![now] = disk[f]])

\* Mutant of RolledBack: a brand-new file is not removed.
RolledBackKeepingNew(r) ==
  IF req[r].existed THEN baks[req[r].file][req[r].stamp] ELSE disk[req[r].file]

\* _rollback: restore the backup if it is still there, or remove a new file.
RolledBack(r) ==
  LET f == req[r].file
      b == baks[f][req[r].stamp]
  IN  IF ~req[r].existed THEN Absent
      ELSE IF b # Absent THEN b
      ELSE disk[f]

-----------------------------------------------------------------------------
(* put_config_file *)

\* The write is observed: what was settled before it is what it must give back.
Observe(f) ==
  committed' = IF f \in orphaned THEN [committed EXCEPT ![f] = disk[f]]
                                 ELSE committed

\* Up to the await: backup, write, and the request to Home Assistant.
Put(r, f, c) ==
  /\ Supervised
  /\ ~InFlight(r)
  /\ baks' = [baks EXCEPT ![f] = BackedUp(f)]
  /\ disk' = [disk EXCEPT ![f] = c]
  /\ req' = [req EXCEPT ![r] =
               [pc |-> "checking", file |-> f, body |-> c,
                existed |-> disk[f] # Absent, stamp |-> now,
                before |-> disk[f], saw |-> Absent]]
  /\ Observe(f)
  /\ orphaned' = orphaned \ {f}
  /\ UNCHANGED now

\* Mutant of PutUnsupervised: no check, hence no backup either.
PutUnsupervisedNoBackup(f, c) ==
  /\ Unsupervised
  /\ disk' = [disk EXCEPT ![f] = c]
  /\ committed' = [committed EXCEPT ![f] = c]
  /\ orphaned' = orphaned \ {f}
  /\ UNCHANGED <<baks, now, req>>

\* Without a supervisor the check answers "skipped" and never suspends.
PutUnsupervised(f, c) ==
  /\ Unsupervised
  /\ baks' = [baks EXCEPT ![f] = BackedUp(f)]
  /\ disk' = [disk EXCEPT ![f] = c]
  /\ committed' = [committed EXCEPT ![f] = c]
  /\ orphaned' = orphaned \ {f}
  /\ UNCHANGED <<now, req>>

\* Mutant of PutTorn: the backup was to come after the write.
PutTornFirst(f) ==
  /\ disk' = [disk EXCEPT ![f] = Torn]
  /\ Observe(f)
  /\ orphaned' = orphaned \cup {f}
  /\ UNCHANGED <<baks, now, req>>

\* write_text raises after truncating the file; the handler ends with a 500.
PutTorn(f) ==
  /\ baks' = [baks EXCEPT ![f] = BackedUp(f)]
  /\ disk' = [disk EXCEPT ![f] = Torn]
  /\ Observe(f)
  /\ orphaned' = orphaned \cup {f}
  /\ UNCHANGED <<now, req>>

\* Home Assistant reads the files and reaches its verdict (external).
HaChecks(r) ==
  /\ req[r].pc = "checking"
  /\ req' = [req EXCEPT ![r].pc = IF disk \in Valid THEN "ok" ELSE "invalid",
                        ![r].saw = disk[req[r].file]]
  /\ UNCHANGED <<disk, baks, now, committed, orphaned>>

\* Mutant of CheckUnavailable: a check that cannot run counts as skipped.
CheckUnavailableSkips(r) ==
  /\ req[r].pc = "checking"
  /\ req' = [req EXCEPT ![r].pc = "ok"]
  /\ UNCHANGED <<disk, baks, now, committed, orphaned>>

\* CoreAPIUnavailableError: unreachable, an HTTP error, or the 60 s timeout.
CheckUnavailable(r) ==
  /\ req[r].pc = "checking"
  /\ req' = [req EXCEPT ![r].pc = "unavailable"]
  /\ UNCHANGED <<disk, baks, now, committed, orphaned>>

\* A reply check_config cannot interpret: an exception nobody catches.
CheckRaises(r) ==
  /\ req[r].pc = "checking"
  /\ req' = [req EXCEPT ![r] = Idle]
  /\ orphaned' = orphaned \cup {req[r].file}
  /\ UNCHANGED <<disk, baks, now, committed>>

\* Mutants of Accept: only an invalid verdict is refused; the slot is not reset.
AcceptUnlessInvalid(r) ==
  /\ req[r].pc \in {"ok", "unavailable"}
  /\ req' = [req EXCEPT ![r] = Idle]
  /\ committed' = [committed EXCEPT ![req[r].file] = req[r].body]
  /\ UNCHANGED <<disk, baks, now, orphaned>>
AcceptNoReset(r) ==
  /\ req[r].pc = "ok"
  /\ req' = [req EXCEPT ![r].pc = "idle"]
  /\ committed' = [committed EXCEPT ![req[r].file] = req[r].body]
  /\ UNCHANGED <<disk, baks, now, orphaned>>

\* 200 "applied", "validated": true.
Accept(r) ==
  /\ req[r].pc = "ok"
  /\ req' = [req EXCEPT ![r] = Idle]
  /\ committed' = [committed EXCEPT ![req[r].file] = req[r].body]
  /\ UNCHANGED <<disk, baks, now, orphaned>>

\* 400 or 503, "Backup restored." or "New file removed."
Reject(r) ==
  /\ req[r].pc \in {"invalid", "unavailable"}
  /\ disk' = [disk EXCEPT ![req[r].file] = RolledBack(r)]
  /\ req' = [req EXCEPT ![r] = Idle]
  /\ UNCHANGED <<baks, now, committed, orphaned>>

\* The copy back raises half-way, or the copy or the unlink at once: a 500.
RestoreFails(r) ==
  LET f == req[r].file
  IN  /\ req[r].pc \in {"invalid", "unavailable"}
      /\ req[r].existed => baks[f][req[r].stamp] # Absent
      /\ \/ UNCHANGED disk
         \/ req[r].existed /\ disk' = [disk EXCEPT ![f] = Torn]
      /\ req' = [req EXCEPT ![r] = Idle]
      /\ orphaned' = orphaned \cup {f}
      /\ UNCHANGED <<baks, now, committed>>

-----------------------------------------------------------------------------
(* What else happens to the files *)

\* surgical.save_entry: another route rewrites an existing file in one step.
SaveEntry(f, c) ==
  /\ disk[f] # Absent
  /\ baks' = [baks EXCEPT ![f] = BackedUp(f)]
  /\ disk' = [disk EXCEPT ![f] = c]
  /\ committed' = [committed EXCEPT ![f] = c]
  /\ orphaned' = orphaned \ {f}
  /\ UNCHANGED <<now, req>>

Tick ==
  /\ now < MaxSecond
  /\ now' = now + 1
  /\ UNCHANGED <<disk, baks, req, committed, orphaned>>

\* The clock is set back, as when a board without one first learns the time.
ClockBack ==
  /\ now' \in {s \in Seconds : s < now}
  /\ UNCHANGED <<disk, baks, req, committed, orphaned>>

\* The container stops: handlers vanish, files stay.
Crash ==
  /\ \E r \in Reqs : InFlight(r)
  /\ req' = [r \in Reqs |-> Idle]
  /\ orphaned' = orphaned \cup {req[r].file : r \in {q \in Reqs : InFlight(q)}}
  /\ UNCHANGED <<disk, baks, now, committed>>

Write(f) ==
  \/ \E r \in Reqs, c \in Bodies : Put(r, f, c)
  \/ \E c \in Bodies : PutUnsupervised(f, c) \/ SaveEntry(f, c)
  \/ PutTorn(f)

Finish(r) ==
  \/ HaChecks(r) \/ CheckUnavailable(r) \/ CheckRaises(r)
  \/ Accept(r) \/ Reject(r) \/ RestoreFails(r)

Next ==
  \/ \E f \in Files : Write(f)
  \/ \E r \in Reqs : Finish(r)
  \/ Tick
  \/ ClockBack
  \/ Crash

\* Nothing in the code keeps two writes of one file apart: this is it.
Spec == Init /\ [][Next]_vars

-----------------------------------------------------------------------------
(* Disciplines of the callers, each enough for some of the guarantees.     *)

\* Callers that never write a file while a PUT of that file is in flight.
PerFileNext ==
  \/ \E f \in Files : FileFree(f) /\ Write(f)
  \/ \E r \in Reqs : Finish(r)
  \/ Tick
  \/ Crash

PerFileSpec == Init /\ [][PerFileNext]_vars

\* Callers that overlap, but never twice in a second on one file, and with
\* fewer than MaxBackups further writes while one of theirs is checked.
Spaced(f) ==
  /\ baks[f][now] = Absent
  /\ \A r \in Reqs :
       InFlight(r) /\ req[r].file = f /\ req[r].existed =>
         Cardinality(Newer(baks[f], req[r].stamp)) + 1 < MaxBackups

SpacedNext ==
  \/ \E f \in Files : Spaced(f) /\ Write(f)
  \/ \E r \in Reqs : Finish(r)
  \/ Tick
  \/ Crash

SpacedSpec == Init /\ [][SpacedNext]_vars

\* One PUT at a time, no other writer, and no failure but a refused check.
GatedNext ==
  \/ /\ \A q \in Reqs : ~InFlight(q)
     /\ \E r \in Reqs, f \in Files, c \in Bodies : Put(r, f, c)
  \/ \E r \in Reqs :
       HaChecks(r) \/ CheckUnavailable(r) \/ Accept(r) \/ Reject(r)
  \/ Tick

GatedSpec == Init /\ [][GatedNext]_vars

-----------------------------------------------------------------------------
(* Properties *)

\* INVARIANTS.md C-6: a PUT that is answered with a failed or unavailable
\* validation leaves in the file exactly what was there before its write.
RollbackRestores ==
  [][\A r \in Reqs : Reject(r) => disk'[req[r].file] = req[r].before]_vars

\* A rollback takes back the request's own write: it never erases a content
\* another request put there meanwhile.
RollbackErasesOnlyItsOwn ==
  [][\A r \in Reqs :
       Reject(r) /\ disk'[req[r].file] # disk[req[r].file]
         => disk[req[r].file] = req[r].body]_vars

\* A PUT answered "validated": true was validated: the file Home Assistant
\* read held this request's content, and it is what the caller finds there.
ValidatedWasChecked ==
  [][\A r \in Reqs :
       Accept(r) =>
         req[r].saw = req[r].body /\ disk'[req[r].file] = req[r].body]_vars

\* Between requests every file holds the content last settled, unless its last
\* write or restore died: no check leaves a trace of a refused content.
Settled ==
  \A f \in Files : FileFree(f) /\ f \notin orphaned => disk[f] = committed[f]

\* INVARIANTS.md C-5: whenever the process dies, a write or a restore fails or a
\* check raises, the content last settled is on disk or in a kept backup.
Recoverable ==
  \A f \in Files :
    \/ disk[f] = committed[f]
    \/ committed[f] = Absent
    \/ \E s \in Seconds : baks[f][s] = committed[f]

\* INVARIANTS.md C-5: what a write overwrites is in a backup once it is written,
\* after the retention has been applied; only a rollback erases without one.
OverwrittenIsBackedUp ==
  [][\A f \in Files :
       disk'[f] # disk[f] /\ disk[f] # Absent =>
         \/ \E s \in Seconds : baks'[f][s] = disk[f]
         \/ \E r \in Reqs : (Reject(r) \/ RestoreFails(r)) /\ req[r].file = f]_vars

\* The gate: whenever no PUT is in flight, the configuration on disk is one
\* Home Assistant accepts, whatever the files say about each other.
QuiescentValid ==
  (\A r \in Reqs : ~InFlight(r)) => disk \in Valid
=============================================================================
