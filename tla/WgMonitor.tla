----------------------------- MODULE WgMonitor ------------------------------
(***************************************************************************)
(* The loop of one monitor task (wg_monitor.py): check the handshakes of   *)
(* the peers with a hostname; while one is stale, resolve every hostname   *)
(* again and hand the answer to the kernel, ever more rarely.              *)
(*                                                                         *)
(* The task gives way at every command and every sleep; meanwhile peers    *)
(* move, handshakes come and go, DNS and wg fail.  How the task is started *)
(* and stopped, and how a command that exceeds its 30 s ends it, is in     *)
(* WgTunnel.                                                               *)
(***************************************************************************)
EXTENDS Naturals, Sequences, Functions

CONSTANTS
  Peers,      \* the hostname peers, in the order of the configuration
  Unresolved, \* those whose name DNS does not know
  Addrs,      \* addresses
  Unknown,    \* no address
  Nobody,     \* no peer
  Schedule,   \* Len(_BACKOFF); the attempts after it all wait as long
  MaxMoves    \* bound: changes of address

Peer == Range(Peers)

VARIABLES
  home,     \* home[p]: where p is, and what DNS says unless p is Unresolved
  moves,    \* changes of address so far
  endpoint, \* endpoint[p]: where the kernel sends p's packets
  fresh,    \* the peers with a handshake newer than _STALE_HANDSHAKE
  pc,       \* where the task is
  at,       \* _tick: the index of the peer it is at
  ip,       \* _tick: what the lookup for that peer said
  status    \* _MonitorState: what GET .../status reports

kernel == <<endpoint, fresh>>
world  == <<home, moves>>
vars   == <<world, kernel, pc, at, ip, status>>

Report == [in_backoff : BOOLEAN, attempt : 0 .. Schedule + 1,
           last_error : Peer \cup {Nobody}, resolved : [Peer -> Addrs \cup {Unknown}]]

TypeOK ==
  /\ home \in [Peer -> Addrs] /\ moves \in 0 .. MaxMoves
  /\ endpoint \in [Peer -> Addrs] /\ fresh \subseteq Peer
  /\ pc \in {"healthy", "checking", "ticking", "setting", "waiting", "rechecking"}
  /\ at \in DOMAIN Peers
  /\ ip \in Addrs \cup {Unknown}
  /\ status \in Report

\* The tunnel came up a moment or hours ago.
Init ==
  /\ home \in [Peer -> Addrs] /\ moves = 0
  /\ endpoint \in [Peer -> Addrs] /\ fresh \in SUBSET Peer
  /\ pc = "healthy" /\ at = 1 /\ ip = Unknown
  /\ status = [in_backoff |-> FALSE, attempt |-> 0, last_error |-> Nobody,
               resolved |-> [p \in Peer |-> Unknown]]

\* Nothing of an outage is left in the report.
Healthy(report) ==
  [report EXCEPT !.in_backoff = FALSE, !.attempt = 0, !.last_error = Nobody]

-----------------------------------------------------------------------------
(* _monitor_loop *)

\* The health interval is over: wg show is asked.
Check ==
  /\ pc = "healthy"
  /\ pc' = "checking"
  /\ UNCHANGED <<world, kernel, at, ip, status>>

AllAlive == fresh = Peer

\* A stale handshake, or wg show failed: the reconnect loop begins.
FoundStale ==
  /\ pc = "checking"
  /\ pc' = "ticking" /\ at' = 1
  /\ status' = [status EXCEPT !.in_backoff = TRUE, !.attempt = 1]
  /\ UNCHANGED <<world, kernel, ip>>

FoundAlive ==
  /\ pc = "checking" /\ AllAlive
  /\ pc' = "healthy"
  /\ UNCHANGED <<world, kernel, at, ip, status>>

\* Mutant of Reconnected: the report keeps the outage's last error.
ReconnectedKeepsError ==
  /\ pc = "rechecking" /\ AllAlive
  /\ pc' = "healthy"
  /\ status' = [status EXCEPT !.in_backoff = FALSE, !.attempt = 0]
  /\ UNCHANGED <<world, kernel, at, ip>>

\* The check after a back-off finds every peer alive.
Reconnected ==
  /\ pc = "rechecking" /\ AllAlive
  /\ pc' = "healthy"
  /\ status' = Healthy(status)
  /\ UNCHANGED <<world, kernel, at, ip>>

-----------------------------------------------------------------------------
(* _reconnect_loop and _tick *)

Current == Peers[at]

\* The next peer, or the end of the tick.
Advance ==
  IF at < Len(Peers) THEN at' = at + 1 /\ pc' = "ticking"
                     ELSE at' = 1 /\ pc' = "waiting"

LookupFinds ==
  /\ pc = "ticking" /\ Current \notin Unresolved
  /\ ip' = home[Current]
  /\ pc' = "setting"
  /\ UNCHANGED <<world, kernel, at, status>>

\* Mutant of LookupFails: the tick ends with the first name that fails.
LookupFailsForAll ==
  /\ pc = "ticking"
  /\ status' = [status EXCEPT !.last_error = Current]
  /\ pc' = "waiting" /\ at' = 1
  /\ UNCHANGED <<world, kernel, ip>>

LookupFails ==
  /\ pc = "ticking"
  /\ status' = [status EXCEPT !.last_error = Current]
  /\ Advance
  /\ UNCHANGED <<world, kernel, ip>>

\* wg set ... endpoint: what the kernel is told, the report shows.
SetWorks ==
  /\ pc = "setting"
  /\ endpoint' = [endpoint EXCEPT ![Current] = ip]
  /\ status' = [status EXCEPT !.resolved[Current] = ip]
  /\ ip' = Unknown
  /\ Advance
  /\ UNCHANGED <<world, fresh>>

\* Mutant of SetFails: resolved is what DNS said.
SetFailsButReports ==
  /\ pc = "setting"
  /\ status' = [status EXCEPT !.last_error = Current, !.resolved[Current] = ip]
  /\ ip' = Unknown
  /\ Advance
  /\ UNCHANGED <<world, kernel>>

SetFails ==
  /\ pc = "setting"
  /\ status' = [status EXCEPT !.last_error = Current]
  /\ ip' = Unknown
  /\ Advance
  /\ UNCHANGED <<world, kernel>>

\* The back-off of this attempt is over.
Recheck ==
  /\ pc = "waiting"
  /\ pc' = "rechecking"
  /\ UNCHANGED <<world, kernel, at, ip, status>>

\* Mutant of Retry: the count is not held at its bound.
RetryUncapped ==
  /\ pc = "rechecking"
  /\ pc' = "ticking"
  /\ status' = [status EXCEPT !.attempt = @ + 1]
  /\ UNCHANGED <<world, kernel, at, ip>>

\* Still stale, or wg show failed.  (The count stops at Schedule + 1, where
\* nothing depends on it any more.)
Retry ==
  /\ pc = "rechecking"
  /\ pc' = "ticking"
  /\ status' = [status EXCEPT !.attempt = IF @ > Schedule THEN @ ELSE @ + 1]
  /\ UNCHANGED <<world, kernel, at, ip>>

-----------------------------------------------------------------------------
(* The peers and the kernel *)

Move(p) ==
  /\ moves < MaxMoves
  /\ moves' = moves + 1
  /\ \E a \in Addrs \ {home[p]} : home' = [home EXCEPT ![p] = a]
  /\ UNCHANGED <<kernel, pc, at, ip, status>>

Handshake(p) ==
  /\ endpoint[p] = home[p]
  /\ p \notin fresh
  /\ fresh' = fresh \cup {p}
  /\ UNCHANGED <<world, endpoint, pc, at, ip, status>>

Expire(p) ==
  /\ p \in fresh
  /\ fresh' = fresh \ {p}
  /\ UNCHANGED <<world, endpoint, pc, at, ip, status>>

Task ==
  \/ Check \/ FoundStale \/ FoundAlive \/ Reconnected
  \/ LookupFinds \/ LookupFails \/ SetWorks \/ SetFails \/ Recheck \/ Retry

Outside == \E p \in Peer : Move(p) \/ Handshake(p) \/ Expire(p)

Next == Task \/ Outside

Lookup(p) == at \in DOMAIN Peers /\ Current = p /\ LookupFinds
Set(p)    == at \in DOMAIN Peers /\ Current = p /\ SetWorks

\* The event loop runs the task; a name DNS knows, wg set and wg show do not
\* fail for ever; a peer the kernel cannot reach any more goes stale.
Fairness ==
  /\ WF_vars(Task)
  /\ \A p \in Peer : SF_vars(Lookup(p)) /\ SF_vars(Set(p))
  /\ SF_vars(FoundAlive) /\ SF_vars(Reconnected)
  /\ \A p \in Peer : WF_vars(endpoint[p] # home[p] /\ Expire(p))

Spec == Init /\ [][Next]_vars /\ Fairness

-----------------------------------------------------------------------------
(* Properties *)

\* The module's docstring: attempts "never give up" - and one peer's dead name,
\* or wg refusing once, never keep another peer from following its hostname.
EndpointFollows ==
  \A p \in Peer \ Unresolved : endpoint[p] # home[p] ~> endpoint[p] = home[p]

\* When every peer answers for good, the report says so, nothing left over.
StatusRecovers ==
  <>[]AllAlive => []<>(status = Healthy(status))

\* The address the report shows for a hostname is the one the kernel has.
ResolvedIsPushed ==
  \A p \in Peer : status.resolved[p] \in {Unknown, endpoint[p]}
=============================================================================
