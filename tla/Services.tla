------------------------------ MODULE Services ------------------------------
(***************************************************************************)
(* What runs in the background, polls, or must end: the automation routes, *)
(* config PUTs one at a time, the dyndns monitor, text searches.  They     *)
(* share no state; the initial state says which one a behaviour is about,  *)
(* and the others stay as they are.                                        *)
(***************************************************************************)
EXTENDS AutomationStore, FiniteSets

CONSTANTS
  Files, Bodies, Torn, Absent, NoFile, MaxBackups, MaxSecond, Valid, \* ConfigWrite
  Peers, Unresolved, Addrs, Unknown, Nobody, Schedule, MaxMoves,     \* WgMonitor
  Terms, Location, Cap                                               \* GrepChild

VARIABLES
  focus,
  cDisk, cBaks, cNow, cReq, cCommitted, cOrphaned,  \* ConfigWrite
  home, moves, endpoint, fresh, pc, at, ip, status, \* WgMonitor
  gTerm, gPc, gChild, gAnswer                       \* GrepChild

Config == INSTANCE ConfigWrite WITH
  Supervised <- TRUE, Unsupervised <- FALSE,
  disk <- cDisk, baks <- cBaks, now <- cNow, req <- cReq,
  committed <- cCommitted, orphaned <- cOrphaned

Monitor == INSTANCE WgMonitor

Grep == INSTANCE GrepChild WITH
  term <- gTerm, pc <- gPc, child <- gChild, answer <- gAnswer

ASSUME ConfigAssumption ==
  /\ MaxBackups \in Nat \ {0} /\ MaxSecond \in Nat
  /\ Torn # Absent /\ {Torn, Absent} \cap Bodies = {}
  /\ Valid \subseteq [Files -> Config!Image]

\* A monitor is started for a tunnel with a hostname peer; _BACKOFF has entries.
ASSUME PeersAssumption    == Peers \in Seq(Monitor!Peer) /\ Peers # <<>>
ASSUME ScheduleAssumption == Schedule \in Nat /\ MaxMoves \in Nat

\* Candidates are numbered, and a term matches some of them.
ASSUME TermsAssumption ==
  /\ Cap \in Nat \ {0} /\ Terms # {}
  /\ \A t \in Terms : t.hits \subseteq Nat /\ IsFiniteSet(t.hits)

-----------------------------------------------------------------------------

autoVars    == vars
configVars  == <<cDisk, cBaks, cNow, cReq, cCommitted, cOrphaned>>
monitorVars == <<home, moves, endpoint, fresh, pc, at, ip, status>>
grepVars    == <<gTerm, gPc, gChild, gAnswer>>

allVars == <<focus, autoVars, configVars, monitorVars, grepVars>>

\* At rest: what a component is while another one is looked at.
AutoRests    == /\ file = <<>> /\ loaded = {} /\ req = [r \in Reqs |-> Idle]
                /\ untold = FALSE /\ held = [r \in Reqs |-> {}]
ConfigRests  == /\ Config!Init
                /\ cDisk = CHOOSE d \in Valid : \A f \in Files : d[f] # Torn
MonitorRests == /\ home = [p \in Monitor!Peer |-> CHOOSE a \in Addrs : TRUE]
                /\ endpoint = home /\ fresh = Monitor!Peer /\ moves = 0
                /\ pc = "off" /\ at = 1 /\ ip = Unknown
                /\ status = [in_backoff |-> FALSE, attempt |-> 0, last_error |-> Nobody,
                             resolved |-> [p \in Monitor!Peer |-> Unknown]]
GrepRests    == /\ gTerm = [r \in Reqs |-> CHOOSE t \in Terms : TRUE]
                /\ gPc = [r \in Reqs |-> "bad_request"]
                /\ gChild = [r \in Reqs |-> "none"]
                /\ gAnswer = [r \in Reqs |-> Grep!NoAnswer]

ServicesInit ==
  /\ focus \in {"automations", "config", "monitor", "grep"}
  /\ IF focus = "automations" THEN Init         ELSE AutoRests
  /\ IF focus = "config"      THEN Config!Init  ELSE ConfigRests
  /\ IF focus = "monitor"     THEN Monitor!Init ELSE MonitorRests
  /\ IF focus = "grep"        THEN Grep!Init    ELSE GrepRests

ServicesNext ==
  /\ UNCHANGED focus
  /\ \/ /\ focus = "automations" /\ Next
        /\ UNCHANGED <<configVars, monitorVars, grepVars>>
     \/ /\ focus = "config" /\ Config!GatedNext
        /\ UNCHANGED <<autoVars, monitorVars, grepVars>>
     \/ /\ focus = "monitor" /\ Monitor!Next
        /\ UNCHANGED <<autoVars, configVars, grepVars>>
     \/ /\ focus = "grep" /\ Grep!Next
        /\ UNCHANGED <<autoVars, configVars, monitorVars>>

\* A component at rest has no action that fairness speaks of.
ServicesSpec ==
  /\ ServicesInit /\ [][ServicesNext]_allVars
  /\ Fairness
  /\ Monitor!Fairness
  /\ Grep!Fairness

-----------------------------------------------------------------------------
(* The components' properties; AutomationStore's own are in its module *)

\* ConfigWrite: at rest, HA accepts what is on disk.
QuiescentValid == Config!QuiescentValid

\* WgMonitor: the report is of its type, and an address in it is the kernel's.
MonitorIsSound ==
  focus = "monitor" => Monitor!TypeOK /\ Monitor!ResolvedIsPushed

\* WgMonitor: a peer that moved is followed, and once all peers answer for good
\* the report says so.
TunnelRecovers == Monitor!EndpointFollows /\ Monitor!StatusRecovers

\* GrepChild: no child outlives its request, and an answer that was cut says how
\* much there was.
GrepIsSound == Grep!TypeOK /\ Grep!NoChildLeft /\ Grep!AnswersAreWhole

\* AutomationStore and GrepChild: every request ends, whatever HA, or a pattern,
\* does.
EveryHandlerEnds == EveryRequestAnswered /\ Grep!EveryGrepEnds
=============================================================================
