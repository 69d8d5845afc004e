------------------------- MODULE ConfigWriteProofs -------------------------
(***************************************************************************)
(* What holds of ConfigWrite for every number of requests, files, seconds  *)
(* and backups kept, and for every check Home Assistant might perform.     *)
(***************************************************************************)
EXTENDS ConfigWrite, FiniteSetTheorems, TLAPS

USE DEF Image, Seconds, Phases

LEMMA IdleIsNotInFlight == Idle.pc = "idle" /\ Idle \notin Request
  BY DEF Idle, Request

LEMMA PrunedType ==
  ASSUME NEW b \in [Seconds -> Image]
  PROVE  Pruned(b) \in [Seconds -> Image]
  BY DEF Pruned

LEMMA BackedUpType ==
  ASSUME TypeOK, NEW f \in Files
  PROVE  BackedUp(f) \in [Seconds -> Image]
<1>1. baks[f] \in [Seconds -> Image] /\ disk[f] \in Image
  BY DEF TypeOK
<1>2. [baks[f] EXCEPT ![now] = disk[f]] \in [Seconds -> Image]
  BY <1>1
<1> QED
  BY <1>1, <1>2, PrunedType DEF BackedUp

LEMMA RolledBackType ==
  ASSUME TypeOK, NEW r \in Reqs, InFlight(r)
  PROVE  RolledBack(r) \in Image /\ req[r] \in Request
<1>1. req[r] \in Request
  BY IdleIsNotInFlight DEF TypeOK, InFlight
<1>2. req[r].file \in Files /\ req[r].stamp \in Seconds
  BY <1>1 DEF Request
<1>3. disk[req[r].file] \in Image /\ baks[req[r].file][req[r].stamp] \in Image
  BY <1>2 DEF TypeOK
<1>4. RolledBack(r) \in Image
  BY <1>3 DEF RolledBack
<1> QED
  BY <1>1, <1>4

LEMMA InitHasType == Init => TypeOK
  BY ClockAssumption, ValidAssumption DEF Init, TypeOK

LEMMA NextKeepsType == TypeOK /\ [Next]_vars => TypeOK'
<1> SUFFICES ASSUME TypeOK, [Next]_vars PROVE TypeOK'
  OBVIOUS
<1>1. ASSUME NEW f \in Files, NEW r \in Reqs, NEW c \in Bodies, Put(r, f, c)
      PROVE  TypeOK'
  BY <1>1, BackedUpType DEF Put, TypeOK, Observe, Request
<1>2. ASSUME NEW f \in Files, NEW c \in Bodies, PutUnsupervised(f, c)
      PROVE  TypeOK'
  BY <1>2, BackedUpType DEF PutUnsupervised, TypeOK
<1>3. ASSUME NEW f \in Files, NEW c \in Bodies, SaveEntry(f, c)
      PROVE  TypeOK'
  BY <1>3, BackedUpType DEF SaveEntry, TypeOK
<1>4. ASSUME NEW f \in Files, PutTorn(f)
      PROVE  TypeOK'
  BY <1>4, BackedUpType DEF PutTorn, TypeOK, Observe
<1>5. ASSUME NEW r \in Reqs, HaChecks(r)
      PROVE  TypeOK'
  <2>1. req[r] \in Request
    BY <1>5, RolledBackType DEF HaChecks, InFlight
  <2>2. disk[req[r].file] \in Image
    BY <2>1 DEF Request, TypeOK
  <2>3. req'[r] \in Request
    BY <1>5, <2>1, <2>2 DEF HaChecks, Request, TypeOK
  <2> QED
    BY <1>5, <2>3 DEF HaChecks, TypeOK
<1>6. ASSUME NEW r \in Reqs, CheckUnavailable(r)
      PROVE  TypeOK'
  BY <1>6, RolledBackType DEF CheckUnavailable, TypeOK, InFlight, Request
<1>7. ASSUME NEW r \in Reqs, CheckRaises(r)
      PROVE  TypeOK'
  BY <1>7, RolledBackType DEF CheckRaises, TypeOK, InFlight, Request
<1>8. ASSUME NEW r \in Reqs, Accept(r)
      PROVE  TypeOK'
  BY <1>8, RolledBackType DEF Accept, TypeOK, InFlight, Request
<1>9. ASSUME NEW r \in Reqs, Reject(r)
      PROVE  TypeOK'
  BY <1>9, RolledBackType DEF Reject, TypeOK, InFlight, Request
<1>13. ASSUME NEW r \in Reqs, RestoreFails(r)
       PROVE  TypeOK'
  <2>1. req[r] \in Request /\ req[r].file \in Files
    BY <1>13, RolledBackType DEF RestoreFails, InFlight, Request
  <2>2. disk' \in [Files -> Image]
    BY <1>13, <2>1 DEF RestoreFails, TypeOK
  <2> QED
    BY <1>13, <2>1, <2>2 DEF RestoreFails, TypeOK
<1>10. CASE Tick \/ ClockBack
  BY <1>10, ClockAssumption DEF Tick, ClockBack, TypeOK
<1>11. CASE Crash
  <2>1. ASSUME NEW r \in Reqs, InFlight(r) PROVE req[r].file \in Files
    BY <2>1, RolledBackType DEF Request
  <2> QED
    BY <1>11, <2>1 DEF Crash, TypeOK
<1>12. CASE UNCHANGED vars
  BY <1>12 DEF vars, TypeOK
<1> QED
  BY <1>1, <1>2, <1>3, <1>4, <1>5, <1>6, <1>7, <1>8, <1>9, <1>10, <1>11,
     <1>12, <1>13 DEF Next, Write, Finish

(* Every variable keeps its type under every interleaving. *)
THEOREM TypeCorrect == Spec => []TypeOK
  BY InitHasType, NextKeepsType, PTL DEF Spec

-----------------------------------------------------------------------------
(* Callers that keep to one writer per file at a time                      *)

\* At most one PUT is in flight on a file.
OneWriter ==
  \A r, q \in Reqs :
    InFlight(r) /\ InFlight(q) /\ req[r].file = req[q].file => r = q

\* A PUT in flight has its body on disk and what it replaced in its backup.
PutPending(r) ==
  LET f == req[r].file
  IN  /\ f \notin orphaned
      /\ disk[f] = req[r].body
      /\ req[r].before = committed[f]
      /\ req[r].existed <=> committed[f] # Absent
      /\ req[r].existed => baks[f][req[r].stamp] = committed[f]
      /\ req[r].pc = "ok" => req[r].saw = req[r].body

Pending == \A r \in Reqs : InFlight(r) => PutPending(r)

\* No backup carries a second that has not begun.
NoFutureBackup ==
  \A f \in Files, s \in Seconds : baks[f][s] # Absent => s <= now

PerFileInv ==
  /\ TypeOK
  /\ OneWriter
  /\ Pending
  /\ NoFutureBackup
  /\ Settled
  /\ Recoverable

LEMMA NewestIsKept ==
  ASSUME NEW b \in [Seconds -> Image], NEW t \in Seconds,
         \A s \in Seconds : b[s] # Absent => s <= t
  PROVE  /\ Pruned(b)[t] = b[t]
         /\ \A s \in Seconds : Pruned(b)[s] # Absent => s <= t
<1>1. Newer(b, t) = {}
  BY ClockAssumption DEF Newer
<1>2. Cardinality(Newer(b, t)) < MaxBackups
  BY <1>1, FS_EmptySet, BackupsAssumption
<1> QED
  BY <1>2 DEF Pruned

LEMMA BackupIsMade ==
  ASSUME TypeOK, NoFutureBackup, NEW f \in Files
  PROVE  /\ disk[f] # Absent => BackedUp(f)[now] = disk[f]
         /\ \A s \in Seconds : BackedUp(f)[s] # Absent => s <= now
<1> DEFINE nb == [baks[f] EXCEPT ![now] = disk[f]]
<1>1. now \in Seconds /\ baks[f] \in [Seconds -> Image] /\ disk[f] \in Image
  BY DEF TypeOK
<1>2. nb \in [Seconds -> Image] /\ nb[now] = disk[f]
  BY <1>1
<1>3. \A s \in Seconds : nb[s] # Absent => s <= now
  BY <1>1, ClockAssumption DEF NoFutureBackup
<1>4. Pruned(nb)[now] = disk[f] /\ \A s \in Seconds : Pruned(nb)[s] # Absent => s <= now
  <2> HIDE DEF nb
  <2> QED BY <1>1, <1>2, <1>3, NewestIsKept
<1> QED
  BY <1>4 DEF BackedUp, NoFutureBackup

\* A write that settles at once: SaveEntry, and a PUT nobody validates.
LEMMA SettledWrite ==
  ASSUME PerFileInv, NEW f \in Files, NEW c \in Bodies, FileFree(f),
         disk' = [disk EXCEPT ![f] = c],
         baks' = [baks EXCEPT ![f] = BackedUp(f)],
         committed' = [committed EXCEPT ![f] = c],
         orphaned' = orphaned \ {f},
         UNCHANGED <<now, req>>,
         TypeOK'
  PROVE  PerFileInv'
<1> USE DEF PerFileInv
<1>1. OneWriter'
  BY DEF OneWriter, InFlight
<1>2. Pending'
  BY DEF Pending, PutPending, InFlight, FileFree, TypeOK
<1>3. NoFutureBackup'
  BY BackupIsMade DEF NoFutureBackup, TypeOK
<1>4. Settled'
  BY DEF Settled, FileFree, InFlight, TypeOK
<1>5. Recoverable'
  BY DEF Recoverable, TypeOK
<1> QED
  BY <1>1, <1>2, <1>3, <1>4, <1>5

\* What a rollback writes is what the write replaced.
LEMMA RollbackIsExact ==
  ASSUME PerFileInv, NEW r \in Reqs, InFlight(r)
  PROVE  /\ req[r] \in Request
         /\ RolledBack(r) = req[r].before
         /\ req[r].before = committed[req[r].file]
         /\ disk[req[r].file] = req[r].body
<1>1. req[r] \in Request
  BY RolledBackType DEF PerFileInv
<1>2. PutPending(r)
  BY DEF PerFileInv, Pending
<1> QED
  BY <1>1, <1>2 DEF PutPending, RolledBack, Request

LEMMA PutKeepsInv ==
  ASSUME PerFileInv, TypeOK', NEW r \in Reqs, NEW f \in Files, NEW c \in Bodies,
         FileFree(f), Put(r, f, c)
  PROVE  PerFileInv'
<1> USE DEF PerFileInv
<1>1. /\ req'[r].pc = "checking" /\ req'[r].file = f /\ req'[r].body = c
      /\ req'[r].existed = (disk[f] # Absent) /\ req'[r].stamp = now
      /\ req'[r].before = disk[f]
      /\ \A q \in Reqs \ {r} : req'[q] = req[q]
  BY DEF Put, TypeOK
<1>2. committed'[f] = disk[f] /\ \A g \in Files \ {f} : committed'[g] = committed[g]
  BY DEF Put, Observe, Settled, TypeOK
<1>3. /\ disk'[f] = c /\ baks'[f] = BackedUp(f) /\ f \notin orphaned'
      /\ \A g \in Files \ {f} : /\ disk'[g] = disk[g] /\ baks'[g] = baks[g]
                                /\ g \in orphaned' <=> g \in orphaned
  BY DEF Put, TypeOK
<1>4. /\ disk[f] # Absent => BackedUp(f)[now] = disk[f]
      /\ \A s \in Seconds : BackedUp(f)[s] # Absent => s <= now
      /\ now' = now /\ now \in Seconds
  BY BackupIsMade DEF Put, TypeOK
<1>5. \A q \in Reqs \ {r} : InFlight(q) => req[q].file \in Files \ {f}
  BY RollbackIsExact DEF FileFree, Request
<1>6. OneWriter'
  BY <1>1, <1>5 DEF OneWriter, InFlight
<1>7. Pending'
  <2>1. PutPending(r)'
    BY <1>1, <1>2, <1>3, <1>4 DEF PutPending
  <2>2. ASSUME NEW q \in Reqs \ {r}, InFlight(q) PROVE PutPending(q)'
    BY <2>2, <1>1, <1>2, <1>3, <1>5 DEF PutPending, Pending
  <2> QED
    BY <2>1, <2>2, <1>1 DEF Pending, InFlight
<1>8. NoFutureBackup'
  BY <1>3, <1>4 DEF NoFutureBackup
<1>9. Settled'
  <2> SUFFICES ASSUME NEW g \in Files, FileFree(g)', g \notin orphaned'
               PROVE  disk'[g] = committed'[g]
    BY DEF Settled
  <2>1. g # f
    BY <1>1 DEF FileFree, InFlight
  <2>2. FileFree(g)
    BY <1>1 DEF FileFree, InFlight, Put
  <2> QED
    BY <2>1, <2>2, <1>2, <1>3 DEF Settled
<1>10. Recoverable'
  BY <1>2, <1>3, <1>4 DEF Recoverable
<1> QED
  BY <1>6, <1>7, <1>8, <1>9, <1>10

LEMMA PutTornKeepsInv ==
  ASSUME PerFileInv, TypeOK', NEW f \in Files, FileFree(f), PutTorn(f)
  PROVE  PerFileInv'
<1> USE DEF PerFileInv
<1>1. committed'[f] = disk[f] /\ \A g \in Files \ {f} : committed'[g] = committed[g]
  BY DEF PutTorn, Observe, Settled, TypeOK
<1>2. /\ disk'[f] = Torn /\ baks'[f] = BackedUp(f) /\ f \in orphaned'
      /\ \A g \in Files \ {f} : /\ disk'[g] = disk[g] /\ baks'[g] = baks[g]
                                /\ g \in orphaned' <=> g \in orphaned
      /\ UNCHANGED <<now, req>> /\ now \in Seconds
  BY DEF PutTorn, TypeOK
<1>3. /\ disk[f] # Absent => BackedUp(f)[now] = disk[f]
      /\ \A s \in Seconds : BackedUp(f)[s] # Absent => s <= now
  BY BackupIsMade
<1>4. \A q \in Reqs : InFlight(q) => req[q].file \in Files \ {f}
  BY RollbackIsExact DEF FileFree, Request
<1>5. OneWriter'
  BY <1>2 DEF OneWriter, InFlight
<1>6. Pending'
  BY <1>1, <1>2, <1>4 DEF Pending, PutPending, InFlight
<1>7. NoFutureBackup'
  BY <1>2, <1>3 DEF NoFutureBackup
<1>8. Settled'
  BY <1>1, <1>2 DEF Settled, FileFree, InFlight
<1>9. Recoverable'
  BY <1>1, <1>2, <1>3 DEF Recoverable
<1> QED
  BY <1>5, <1>6, <1>7, <1>8, <1>9

\* The steps of the check itself and of the answer.
LEMMA FinishKeepsInv ==
  ASSUME PerFileInv, TypeOK', NEW r \in Reqs, Finish(r)
  PROVE  PerFileInv'
<1> USE DEF PerFileInv
<1>0. InFlight(r) /\ req[r] \in Request /\ req[r].file \in Files
  <2>1. InFlight(r)
    BY DEF Finish, HaChecks, CheckUnavailable, CheckRaises, Accept, Reject,
            RestoreFails, InFlight
  <2> QED
    BY <2>1, RollbackIsExact DEF Request
<1> DEFINE f == req[r].file
<1>1. \A q \in Reqs \ {r} : InFlight(q) => req[q].file \in Files /\ req[q].file # f
  BY <1>0, RollbackIsExact DEF OneWriter, Request
<1>2. PutPending(r)
  BY <1>0 DEF Pending
<1>3. \A q \in Reqs \ {r} : req'[q] = req[q]
  BY DEF Finish, HaChecks, CheckUnavailable, CheckRaises, Accept, Reject,
            RestoreFails, TypeOK
<1>4. CASE HaChecks(r) \/ CheckUnavailable(r)
  <2>1. /\ req'[r].file = f /\ req'[r].body = req[r].body
        /\ req'[r].existed = req[r].existed /\ req'[r].stamp = req[r].stamp
        /\ req'[r].before = req[r].before /\ InFlight(r)'
        /\ req'[r].pc = "ok" => req'[r].saw = req[r].body
    <3>1. CASE CheckUnavailable(r)
      BY <3>1, <1>0 DEF CheckUnavailable, InFlight, TypeOK, Request
    <3>2. CASE HaChecks(r)
      <4> DEFINE v == IF disk \in Valid THEN "ok" ELSE "invalid"
      <4>1. v # "idle"
        OBVIOUS
      <4>2. req' = [req EXCEPT ![r] = [req[r] EXCEPT !.pc = v, !.saw = disk[f]]]
        BY <3>2 DEF HaChecks
      <4> HIDE DEF v
      <4> QED
        BY <4>1, <4>2, <1>0, <1>2 DEF InFlight, TypeOK, Request, PutPending
    <3> QED
      BY <1>4, <3>1, <3>2
  <2>2. UNCHANGED <<disk, baks, now, committed, orphaned>>
    BY <1>4 DEF HaChecks, CheckUnavailable
  <2>3. \A q \in Reqs : InFlight(q)' <=> InFlight(q)
    BY <2>1, <1>0, <1>3 DEF InFlight
  <2>4. OneWriter'
    BY <2>1, <2>3, <1>3 DEF OneWriter
  <2>5. Pending'
    <3>1. PutPending(r)'
      BY <2>1, <2>2, <1>2 DEF PutPending
    <3>2. ASSUME NEW q \in Reqs \ {r}, InFlight(q)' PROVE PutPending(q)'
      BY <3>2, <2>2, <2>3, <1>3 DEF Pending, PutPending
    <3> QED
      BY <3>1, <3>2 DEF Pending
  <2>6. NoFutureBackup' /\ Recoverable'
    BY <2>2 DEF NoFutureBackup, Recoverable
  <2>7. Settled'
    BY <2>1, <2>2, <2>3, <1>3 DEF Settled, FileFree
  <2> QED
    BY <2>4, <2>5, <2>6, <2>7
<1>5. CASE CheckRaises(r) \/ Accept(r) \/ Reject(r) \/ RestoreFails(r)
  <2>1. /\ ~InFlight(r)' /\ \A q \in Reqs \ {r} : InFlight(q)' <=> InFlight(q)
        /\ UNCHANGED <<baks, now>>
    BY <1>5, <1>3 DEF CheckRaises, Accept, Reject, RestoreFails, InFlight, Idle, TypeOK
  <2>2. \A g \in Files \ {f} : /\ disk'[g] = disk[g] /\ committed'[g] = committed[g]
                               /\ g \in orphaned' <=> g \in orphaned
    BY <1>5, <1>0 DEF CheckRaises, Accept, Reject, RestoreFails, TypeOK
  <2>3. \/ /\ f \in orphaned' /\ committed'[f] = committed[f]
           /\ \/ disk'[f] = disk[f] \/ baks[f][req[r].stamp] = committed[f]
        \/ disk'[f] = committed'[f]
    BY <1>5, <1>0, <1>2, RollbackIsExact
       DEF CheckRaises, Accept, Reject, RestoreFails, TypeOK, PutPending
  <2>4. OneWriter'
    BY <2>1, <1>3 DEF OneWriter
  <2>5. Pending'
    <3> SUFFICES ASSUME NEW q \in Reqs \ {r}, InFlight(q) PROVE PutPending(q)'
      BY <2>1 DEF Pending
    <3>1. req'[q] = req[q] /\ req[q].file \in Files \ {f} /\ PutPending(q)
      BY <1>1, <1>3 DEF Pending
    <3> QED
      BY <3>1, <2>1, <2>2 DEF PutPending
  <2>6. NoFutureBackup'
    BY <2>1 DEF NoFutureBackup
  <2>7. Recoverable'
    BY <2>1, <2>2, <2>3, <1>0 DEF Recoverable, Request
  <2>8. Settled'
    <3> SUFFICES ASSUME NEW g \in Files \ {f}, FileFree(g)', g \notin orphaned'
                 PROVE  disk'[g] = committed'[g]
      BY <2>3, <1>0 DEF Settled
    <3>1. FileFree(g)
      BY <2>1, <1>3 DEF FileFree
    <3> QED
      BY <3>1, <2>2 DEF Settled
  <2> QED
    BY <2>4, <2>5, <2>6, <2>7, <2>8
<1> QED
  BY <1>4, <1>5 DEF Finish

LEMMA CrashKeepsInv ==
  ASSUME PerFileInv, TypeOK', Crash
  PROVE  PerFileInv'
<1> USE DEF PerFileInv
<1>1. \A r \in Reqs : ~InFlight(r)'
  BY DEF Crash, InFlight, Idle
<1>2. UNCHANGED <<disk, baks, now, committed>>
  BY DEF Crash
<1>3. ASSUME NEW f \in Files, f \notin orphaned' PROVE disk[f] = committed[f]
  BY <1>3 DEF Crash, Settled, FileFree
<1>4. OneWriter' /\ Pending'
  BY <1>1 DEF OneWriter, Pending
<1>5. NoFutureBackup' /\ Recoverable'
  BY <1>2 DEF NoFutureBackup, Recoverable
<1>6. Settled'
  BY <1>2, <1>3 DEF Settled
<1> QED
  BY <1>4, <1>5, <1>6

LEMMA PerFileStep == TypeOK /\ [PerFileNext]_vars => TypeOK'
<1>1. PerFileNext => Next
  BY DEF PerFileNext, Next
<1> QED
  BY <1>1, NextKeepsType

LEMMA PerFileInductive == PerFileInv /\ [PerFileNext]_vars => PerFileInv'
<1> SUFFICES ASSUME PerFileInv, [PerFileNext]_vars PROVE PerFileInv'
  OBVIOUS
<1>0. TypeOK'
  BY PerFileStep DEF PerFileInv
<1>1. ASSUME NEW f \in Files, FileFree(f), NEW r \in Reqs, NEW c \in Bodies,
             Put(r, f, c)
      PROVE  PerFileInv'
  BY <1>0, <1>1, PutKeepsInv
<1>2. ASSUME NEW f \in Files, FileFree(f), NEW c \in Bodies,
             PutUnsupervised(f, c) \/ SaveEntry(f, c)
      PROVE  PerFileInv'
  BY <1>0, <1>2, SettledWrite DEF PutUnsupervised, SaveEntry
<1>3. ASSUME NEW f \in Files, FileFree(f), PutTorn(f)
      PROVE  PerFileInv'
  BY <1>0, <1>3, PutTornKeepsInv
<1>4. ASSUME NEW r \in Reqs, Finish(r) PROVE PerFileInv'
  BY <1>0, <1>4, FinishKeepsInv
<1>5. CASE Tick
  <2>1. UNCHANGED <<disk, baks, req, committed, orphaned>> /\ now \in Nat /\ now' = now + 1
    BY <1>5, ClockAssumption DEF Tick, PerFileInv, TypeOK
  <2>2. NoFutureBackup'
    BY <2>1, ClockAssumption DEF PerFileInv, NoFutureBackup
  <2> QED
    BY <1>0, <2>1, <2>2 DEF PerFileInv, OneWriter, Pending, PutPending, Settled,
                            FileFree, InFlight, Recoverable
<1>6. CASE Crash
  BY <1>0, <1>6, CrashKeepsInv
<1>7. CASE UNCHANGED vars
  BY <1>0, <1>7 DEF vars, PerFileInv, OneWriter, Pending, PutPending, Settled,
                    FileFree, InFlight, Recoverable, NoFutureBackup
<1> QED
  BY <1>1, <1>2, <1>3, <1>4, <1>5, <1>6, <1>7 DEF PerFileNext, Write

LEMMA PerFileInit == Init => PerFileInv
<1> SUFFICES ASSUME Init PROVE PerFileInv
  OBVIOUS
<1>1. TypeOK
  BY InitHasType
<1>2. \A r \in Reqs : ~InFlight(r)
  BY DEF Init, InFlight, Idle
<1>3. Settled /\ Recoverable /\ NoFutureBackup
  BY DEF Init, Settled, Recoverable, NoFutureBackup
<1> QED
  BY <1>1, <1>2, <1>3 DEF PerFileInv, OneWriter, Pending

LEMMA PerFileInvariant == PerFileSpec => []PerFileInv
  BY PerFileInit, PerFileInductive, PTL DEF PerFileSpec

(* C-6 between requests: with one writer per file, a file nobody is writing  *)
(* holds the content that was last settled, whatever was refused meanwhile.  *)
THEOREM SettledWhenSerial == PerFileSpec => []Settled
<1>1. PerFileInv => Settled
  BY DEF PerFileInv
<1> QED
  BY <1>1, PerFileInvariant, PTL

(* C-5: with one writer per file, a crash at any instant leaves the settled  *)
(* content on disk or in a backup.                                           *)
THEOREM CrashIsRecoverable == PerFileSpec => []Recoverable
<1>1. PerFileInv => Recoverable
  BY DEF PerFileInv
<1> QED
  BY <1>1, PerFileInvariant, PTL

(* C-6: with one writer per file and a clock that is never set back, a       *)
(* rollback put_config_file completes restores what its write replaced.      *)
THEOREM RollbackIsFaithful == PerFileSpec => RollbackRestores
<1>1. PerFileInv /\ [PerFileNext]_vars =>
        [\A r \in Reqs : Reject(r) => disk'[req[r].file] = req[r].before]_vars
  <2> SUFFICES ASSUME PerFileInv, NEW r \in Reqs, Reject(r)
               PROVE  disk'[req[r].file] = req[r].before
    OBVIOUS
  <2>1. InFlight(r)
    BY DEF Reject, InFlight
  <2>2. req[r].file \in Files /\ RolledBack(r) = req[r].before
    BY <2>1, RollbackIsExact DEF Request
  <2> QED
    BY <2>2 DEF Reject, PerFileInv, TypeOK
<1> QED
  BY <1>1, PerFileInvariant, PTL DEF PerFileSpec, RollbackRestores

(* With one writer per file, "validated": true is said of the content that   *)
(* Home Assistant read, and of the content the caller finds on disk.         *)
THEOREM ValidatedIsHonest == PerFileSpec => ValidatedWasChecked
<1>1. PerFileInv /\ [PerFileNext]_vars =>
        [\A r \in Reqs :
           Accept(r) =>
             req[r].saw = req[r].body /\ disk'[req[r].file] = req[r].body]_vars
  <2> SUFFICES ASSUME PerFileInv, NEW r \in Reqs, Accept(r)
               PROVE  req[r].saw = req[r].body /\ disk'[req[r].file] = req[r].body
    OBVIOUS
  <2>1. PutPending(r) /\ req[r].pc = "ok" /\ disk' = disk
    BY DEF Accept, PerFileInv, Pending, InFlight
  <2> QED
    BY <2>1 DEF PutPending
<1> QED
  BY <1>1, PerFileInvariant, PTL DEF PerFileSpec, ValidatedWasChecked

LEMMA OnlyWritesErase ==
  ASSUME PerFileInv, [PerFileNext]_vars, NEW f \in Files,
         disk'[f] # disk[f], disk[f] # Absent
  PROVE  \/ baks'[f] = BackedUp(f)
         \/ \E r \in Reqs : (Reject(r) \/ RestoreFails(r)) /\ req[r].file = f
<1> USE DEF PerFileInv, TypeOK
<1>1. ASSUME NEW g \in Files, Write(g) PROVE baks'[f] = BackedUp(f)
  <2>1. /\ baks' = [baks EXCEPT ![g] = BackedUp(g)]
        /\ \E c : disk' = [disk EXCEPT ![g] = c]
    BY <1>1 DEF Write, Put, PutUnsupervised, SaveEntry, PutTorn
  <2> QED
    BY <2>1
<1>2. ASSUME NEW r \in Reqs, Finish(r) PROVE (Reject(r) \/ RestoreFails(r)) /\ req[r].file = f
  BY <1>2 DEF Finish, HaChecks, CheckUnavailable, CheckRaises, Accept, Reject,
            RestoreFails
<1>3. disk' # disk
  OBVIOUS
<1> QED
  BY <1>1, <1>2, <1>3 DEF PerFileNext, Tick, Crash, vars

(* C-5: with one writer per file, what a write overwrites is in a backup once *)
(* the retention has been applied.                                           *)
THEOREM OverwrittenIsKept == PerFileSpec => OverwrittenIsBackedUp
<1>1. PerFileInv /\ [PerFileNext]_vars =>
        [\A f \in Files :
           disk'[f] # disk[f] /\ disk[f] # Absent =>
             \/ \E s \in Seconds : baks'[f][s] = disk[f]
             \/ \E r \in Reqs : (Reject(r) \/ RestoreFails(r)) /\ req[r].file = f]_vars
  <2> SUFFICES ASSUME PerFileInv, [PerFileNext]_vars, NEW f \in Files,
                      disk'[f] # disk[f], disk[f] # Absent
               PROVE  \/ \E s \in Seconds : baks'[f][s] = disk[f]
                      \/ \E r \in Reqs : (Reject(r) \/ RestoreFails(r)) /\ req[r].file = f
    OBVIOUS
  <2>1. BackedUp(f)[now] = disk[f] /\ now \in Seconds
    BY BackupIsMade DEF PerFileInv, TypeOK
  <2> QED
    BY <2>1, OnlyWritesErase
<1> QED
  BY <1>1, PerFileInvariant, PTL DEF PerFileSpec, OverwrittenIsBackedUp

-----------------------------------------------------------------------------
(* One PUT at a time: the gate                                             *)

\* The configuration with r's write taken back.
Undone(r) == [disk EXCEPT ![req[r].file] = req[r].before]

\* At most one PUT is in flight; with its write undone the configuration is
\* valid, and after an "ok" it is valid as it stands.
GatedInv ==
  /\ PerFileInv
  /\ \A r, q \in Reqs : InFlight(r) /\ InFlight(q) => r = q
  /\ \A r \in Reqs :
       /\ InFlight(r) => Undone(r) \in Valid
       /\ req[r].pc = "ok" => disk \in Valid
  /\ QuiescentValid

LEMMA GatedInductive == GatedInv /\ [GatedNext]_vars => GatedInv'
<1> SUFFICES ASSUME GatedInv, [GatedNext]_vars PROVE GatedInv'
  OBVIOUS
<1> USE DEF GatedInv
<1>0. PerFileInv'
  <2>1. GatedNext => PerFileNext
    BY DEF GatedNext, PerFileNext, FileFree, Write, Finish
  <2> QED
    BY <2>1, PerFileInductive
<1>1. ASSUME NEW r \in Reqs, NEW f \in Files, NEW c \in Bodies,
             \A q \in Reqs : ~InFlight(q), Put(r, f, c)
      PROVE  GatedInv'
  <2>1. disk \in Valid /\ disk \in [Files -> Image]
    BY <1>1 DEF QuiescentValid, PerFileInv, TypeOK
  <2>2. /\ req'[r].pc = "checking" /\ req'[r].file = f /\ req'[r].before = disk[f]
        /\ \A q \in Reqs \ {r} : req'[q] = req[q]
    BY <1>1 DEF Put, PerFileInv, TypeOK
  <2>3. Undone(r)' = disk
    BY <1>1, <2>1, <2>2 DEF Put, Undone
  <2>4. \A q \in Reqs \ {r} : ~InFlight(q)' /\ req'[q].pc # "ok"
    BY <1>1, <2>2 DEF InFlight
  <2>5. InFlight(r)'
    BY <2>2 DEF InFlight
  <2> QED
    BY <1>0, <2>1, <2>2, <2>3, <2>4, <2>5 DEF QuiescentValid
<1>2. ASSUME NEW r \in Reqs, HaChecks(r) \/ CheckUnavailable(r)
      PROVE  GatedInv'
  <2>1. /\ InFlight(r) /\ disk' = disk /\ \A q \in Reqs \ {r} : req'[q] = req[q]
    BY <1>2 DEF HaChecks, CheckUnavailable, PerFileInv, TypeOK, InFlight
  <2>2. req[r] \in Request
    BY <2>1, RollbackIsExact
  <2>3. /\ req'[r].file = req[r].file /\ req'[r].before = req[r].before
        /\ InFlight(r)'
        /\ req'[r].pc = "ok" => disk \in Valid
    <3>1. CASE CheckUnavailable(r)
      BY <3>1, <2>2 DEF CheckUnavailable, InFlight, PerFileInv, TypeOK, Request
    <3>2. CASE HaChecks(r)
      <4> DEFINE v == IF disk \in Valid THEN "ok" ELSE "invalid"
      <4>1. v # "idle" /\ (v = "ok" => disk \in Valid)
        OBVIOUS
      <4>2. req' = [req EXCEPT ![r] = [req[r] EXCEPT !.pc = v, !.saw = disk[req[r].file]]]
        BY <3>2 DEF HaChecks
      <4> HIDE DEF v
      <4> QED
        BY <4>1, <4>2, <2>2 DEF InFlight, PerFileInv, TypeOK, Request
    <3> QED
      BY <1>2, <3>1, <3>2
  <2>4. \A q \in Reqs \ {r} : ~InFlight(q)' /\ req'[q].pc # "ok"
    BY <2>1 DEF InFlight
  <2>5. Undone(r)' \in Valid
    <3>1. Undone(r)' = Undone(r)
      BY <2>1, <2>3 DEF Undone
    <3> QED
      BY <3>1, <2>1
  <2>6. QuiescentValid'
    BY <2>3 DEF QuiescentValid
  <2>7. ASSUME NEW q \in Reqs
        PROVE  /\ InFlight(q)' => Undone(q)' \in Valid
               /\ req'[q].pc = "ok" => disk' \in Valid
    <3>1. CASE q = r
      BY <3>1, <2>1, <2>3, <2>5
    <3>2. CASE q # r
      BY <3>2, <2>4
    <3> QED
      BY <3>1, <3>2
  <2>8. \A q, p \in Reqs : InFlight(q)' /\ InFlight(p)' => q = p
    BY <2>4
  <2> QED
    BY <1>0, <2>6, <2>7, <2>8
<1>3. ASSUME NEW r \in Reqs, Accept(r) \/ Reject(r)
      PROVE  GatedInv'
  <2>1. InFlight(r)
    BY <1>3 DEF Accept, Reject, InFlight
  <2>2. \A q \in Reqs : ~InFlight(q)' /\ req'[q].pc # "ok"
    BY <1>3, <2>1 DEF Accept, Reject, PerFileInv, TypeOK, InFlight, Idle
  <2>3. disk' \in Valid
    <3>1. CASE Accept(r)
      BY <3>1 DEF Accept
    <3>2. CASE Reject(r)
      BY <3>2, <2>1, RollbackIsExact DEF Reject, Undone
    <3> QED
      BY <1>3, <3>1, <3>2
  <2> QED
    BY <1>0, <2>2, <2>3 DEF QuiescentValid
<1>4. CASE Tick \/ UNCHANGED vars
  <2>1. disk' = disk /\ req' = req
    BY <1>4 DEF Tick, vars
  <2> QED
    BY <1>0, <2>1 DEF QuiescentValid, InFlight, Undone
<1> QED
  BY <1>1, <1>2, <1>3, <1>4 DEF GatedNext

(* C-6 as a gate: callers that write one file at a time never leave behind a *)
(* configuration Home Assistant refuses, even when the files constrain each  *)
(* other.                                                                    *)
THEOREM GateHolds == GatedSpec => []QuiescentValid
<1>1. Init => GatedInv
  <2> SUFFICES ASSUME Init PROVE GatedInv
    OBVIOUS
  <2>1. \A r \in Reqs : ~InFlight(r) /\ req[r].pc # "ok"
    BY DEF Init, InFlight, Idle
  <2> QED
    BY <2>1, PerFileInit DEF GatedInv, QuiescentValid, Init
<1>2. GatedInv => QuiescentValid
  BY DEF GatedInv
<1> QED
  BY <1>1, <1>2, GatedInductive, PTL DEF GatedSpec
=============================================================================
