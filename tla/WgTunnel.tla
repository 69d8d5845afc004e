------------------------------ MODULE WgTunnel ------------------------------
(***************************************************************************)
(* One WireGuard tunnel: its persisted and materialized configuration, the *)
(* kernel interface, the dyndns monitor, the forward to Home Assistant,    *)
(* and the requests and restarts that move them.                           *)
(*                                                                         *)
(* Every handler gives way to others at each await; wg, wg-quick and the   *)
(* Supervisor answer outside the event loop.  The Python objects that may  *)
(* outlive their registry entry - monitor tasks, listening sockets - are   *)
(* named by the request that created them.                                 *)
(***************************************************************************)
EXTENDS Naturals

CONSTANTS
  Starts, Stops, \* requests to POST .../start and .../stop; each runs once
  BootId,        \* owner of what reconcile and the startup tasks create
  Nobody,        \* an empty registry
  Confs,         \* valid, normalized configurations
  NoConf,        \* no configuration file; an interface that is down
  Hostname,      \* the configurations with a hostname among their endpoints
  Addr,          \* Addr[c]: the tunnel address of configuration c
  ForwardHa      \* values of the option vpn.forward_ha, read at every start

Reqs   == Starts \cup Stops
Owners == Reqs \cup {BootId}

ASSUME RequestsAssumption == Starts \cap Stops = {} /\ BootId \notin Reqs
ASSUME NobodyAssumption   == Nobody \notin Owners
ASSUME ConfsAssumption    == NoConf \notin Confs /\ Hostname \subseteq Confs
ASSUME ForwardAssumption  == ForwardHa \subseteq BOOLEAN

VARIABLES
  persist,    \* /config/hactl/<tunnel>.conf
  runtime,    \* /etc/wireguard/<tunnel>.conf, lost with the container
  iface,      \* the configuration the interface is up with, or NoConf
  booted,     \* the server is serving
  pc,         \* where each request is
  conf,       \* conf[o]: the conf_text o works with
  quick,      \* quick[r]: what the wg-quick up of r has read
  monReg,     \* wg_monitor._monitors[tunnel]
  tasks,      \* owners of monitor tasks that still run
  registered, \* ha_forward._forwards[tunnel]
  bound,      \* owners of open listening sockets
  recorded,   \* owners whose socket is in their fwd.servers
  (* observation only *)
  held        \* held[r]: what persist held since r came in and until it is up

files   == <<persist, runtime>>
monitor == <<monReg, tasks>>
forward == <<registered, bound, recorded>>
handler == <<pc, conf, quick, held>>
vars    == <<files, iface, booted, handler, monitor, forward>>

Waiting == {"new", "done"}
Rising  == {"start_probed", "dns", "upping"}
Steps   == Waiting \cup Rising \cup
           {"up", "resolving", "binding", "bound", "stop_probed", "downing"}

TypeOK ==
  /\ persist \in Confs \cup {NoConf}
  /\ runtime \in Confs \cup {NoConf}
  /\ iface \in Confs \cup {NoConf}
  /\ booted \in BOOLEAN
  /\ pc \in [Reqs -> Steps]
  /\ conf \in [Owners -> Confs \cup {NoConf}]
  /\ quick \in [Reqs -> Confs \cup {NoConf}]
  /\ held \in [Reqs -> SUBSET (Confs \cup {NoConf})]
  /\ monReg \in Owners \cup {Nobody}
  /\ tasks \subseteq Owners
  /\ registered \in Owners \cup {Nobody}
  /\ bound \subseteq Owners
  /\ recorded \subseteq Owners

Init ==
  /\ persist \in Confs \cup {NoConf}
  /\ runtime = NoConf
  /\ iface = NoConf
  /\ booted = FALSE
  /\ pc = [r \in Reqs |-> "new"]
  /\ conf = [o \in Owners |-> NoConf]
  /\ quick = [r \in Reqs |-> NoConf]
  /\ held = [r \in Reqs |-> {}]
  /\ monReg = Nobody /\ tasks = {}
  /\ registered = Nobody /\ bound = {} /\ recorded = {}

Active(r) == pc[r] \notin Waiting
Quiet     == \A r \in Reqs : ~Active(r)

Goto(r, step) ==
  /\ pc' = [pc EXCEPT ![r] = step]
  /\ held' = [held EXCEPT ![r] = IF step \in Rising THEN @ \cup {persist} ELSE {}]

\* The canonical file is written.
Persist(c) ==
  /\ persist' = c
  /\ held' = [r \in Reqs |-> IF pc[r] \in Rising THEN held[r] \cup {c} ELSE held[r]]

-----------------------------------------------------------------------------
(* wg_monitor.py and ha_forward.py: the synchronous parts *)

\* Mutant of StartMonitor: the task being replaced is not cancelled.
StartMonitorKeepingOld(o, c) ==
  IF c \in Hostname
  THEN monReg' = o /\ tasks' = tasks \cup {o}
  ELSE UNCHANGED monitor

\* start_monitor: no hostname peer, nothing to do - not even to stop the old.
StartMonitor(o, c) ==
  IF c \in Hostname
  THEN monReg' = o /\ tasks' = (tasks \ {monReg}) \cup {o}
  ELSE UNCHANGED monitor

\* Mutant of StopMonitor: the entry is emptied instead of removed.
StopMonitorEmptied == monReg' = NoConf /\ tasks' = tasks \ {monReg}

StopMonitor == monReg' = Nobody /\ tasks' = tasks \ {monReg}

\* Mutant of StopForward: the entry goes, its sockets stay open.
StopForwardPopOnly == registered' = Nobody /\ UNCHANGED <<bound, recorded>>

\* ha_forward.stop: close the sockets the registered forward has recorded.
StopForward ==
  /\ registered' = Nobody
  /\ bound' = bound \ ({registered} \cap recorded)
  /\ UNCHANGED recorded

\* A listening socket needs its address on the interface, and to itself.
CanBind(o) ==
  /\ iface # NoConf
  /\ Addr[iface] = Addr[conf[o]]
  /\ \A p \in bound : Addr[conf[p]] # Addr[conf[o]]

-----------------------------------------------------------------------------
(* POST /v1/wireguard/config, and who else writes the file *)

\* save_config: the canonical copy, then the one wg-quick reads; the second write
\* may fail, a 500.
PostConfig(c) ==
  /\ booted
  /\ Persist(c)
  /\ runtime' \in {c, runtime}
  /\ UNCHANGED <<iface, booted, pc, conf, quick, monitor, forward>>

\* docs/wireguard.md: the user drops, edits or deletes the canonical file with
\* the File Editor or over Samba.
EditFile(c) ==
  /\ Persist(c)
  /\ UNCHANGED <<runtime, iface, booted, pc, conf, quick, monitor, forward>>

-----------------------------------------------------------------------------
(* POST /v1/wireguard/start *)

\* wg show answers whether the interface is up; up is a 409.
StartProbe(r) ==
  /\ booted /\ pc[r] = "new"
  /\ Goto(r, IF iface = NoConf THEN "start_probed" ELSE "done")
  /\ UNCHANGED <<files, iface, booted, conf, quick, monitor, forward>>

\* Mutant of StartMaterialize: a copy that is there is taken for the file.
MaterializeIfMissing(r) ==
  /\ pc[r] = "start_probed"
  /\ \/ /\ persist # NoConf
        /\ runtime' = IF runtime = NoConf THEN persist ELSE runtime
        /\ conf' = [conf EXCEPT ![r] = runtime']
        /\ Goto(r, "dns")
     \/ UNCHANGED <<runtime, conf>> /\ Goto(r, "done")
  /\ UNCHANGED <<persist, iface, booted, quick, monitor, forward>>

\* materialize, then read back the text the rest of the handler uses; there is no
\* file, or the copy fails.
StartMaterialize(r) ==
  /\ pc[r] = "start_probed"
  /\ \/ /\ persist # NoConf
        /\ runtime' = persist
        /\ conf' = [conf EXCEPT ![r] = persist]
        /\ Goto(r, "dns")
     \/ UNCHANGED <<runtime, conf>> /\ Goto(r, "done")
  /\ UNCHANGED <<persist, iface, booted, quick, monitor, forward>>

StartDnsFails(r) ==
  /\ pc[r] = "dns"
  /\ conf[r] \in Hostname
  /\ Goto(r, "done")
  /\ UNCHANGED <<files, iface, booted, conf, quick, monitor, forward>>

\* wg-quick up first parses its copy of the file...
WgReads(r) ==
  /\ pc[r] = "dns"
  /\ quick' = [quick EXCEPT ![r] = runtime]
  /\ Goto(r, "upping")
  /\ UNCHANGED <<files, iface, booted, conf, monitor, forward>>

\* ... then brings the interface up; it can fail, or be killed after 30 s with the
\* interface up or not.
WgUp(r) ==
  /\ pc[r] = "upping"
  /\ \/ iface = NoConf /\ iface' = quick[r] /\ Goto(r, "up")
     \/ iface = NoConf /\ iface' = quick[r] /\ Goto(r, "done")
     \/ iface' = iface /\ Goto(r, "done")
  /\ quick' = [quick EXCEPT ![r] = NoConf]
  /\ UNCHANGED <<files, booted, conf, monitor, forward>>

\* rc 0: start the monitor; ha_forward.start first stops what is registered.
StartUp(r) ==
  /\ pc[r] = "up"
  /\ StartMonitor(r, conf[r])
  /\ \/ TRUE \in ForwardHa /\ StopForward /\ Goto(r, "resolving")
     \/ FALSE \in ForwardHa /\ UNCHANGED forward /\ Goto(r, "done")
  /\ UNCHANGED <<files, iface, booted, conf, quick>>

\* The Supervisor told the port, or could not be asked: register the forward.
Resolve(r) ==
  /\ pc[r] = "resolving"
  /\ registered' = r
  /\ Goto(r, "binding")
  /\ UNCHANGED <<files, iface, booted, conf, quick, monitor, bound, recorded>>

\* start_server binds the socket, then yields once before it returns...
Bind(r) ==
  /\ pc[r] = "binding"
  /\ \/ CanBind(r) /\ bound' = bound \cup {r} /\ Goto(r, "bound")
     \/ ~CanBind(r) /\ UNCHANGED bound /\ Goto(r, "done")
  /\ UNCHANGED <<files, iface, booted, conf, quick, monitor, registered, recorded>>

\* Mutant of Record: the server is not kept.
RecordNothing(r) ==
  /\ pc[r] = "bound"
  /\ Goto(r, "done")
  /\ UNCHANGED <<files, iface, booted, conf, quick, monitor, forward>>

\* ... and only then is the server appended to fwd.servers.
Record(r) ==
  /\ pc[r] = "bound"
  /\ recorded' = recorded \cup {r}
  /\ Goto(r, "done")
  /\ UNCHANGED <<files, iface, booted, conf, quick, monitor, registered, bound>>

-----------------------------------------------------------------------------
(* POST /v1/wireguard/stop *)

StopProbe(r) ==
  /\ booted /\ pc[r] = "new"
  /\ Goto(r, IF iface # NoConf THEN "stop_probed" ELSE "done")
  /\ UNCHANGED <<files, iface, booted, conf, quick, monitor, forward>>

\* Mutants of StopServices: one of the two is forgotten.
StopServicesForwardOnly(r) ==
  /\ pc[r] = "stop_probed"
  /\ StopForward
  /\ Goto(r, "downing")
  /\ UNCHANGED <<files, iface, booted, conf, quick, monitor>>
StopServicesMonitorOnly(r) ==
  /\ pc[r] = "stop_probed"
  /\ StopMonitor
  /\ Goto(r, "downing")
  /\ UNCHANGED <<files, iface, booted, conf, quick, forward>>

StopServices(r) ==
  /\ pc[r] = "stop_probed"
  /\ StopMonitor
  /\ StopForward
  /\ Goto(r, "downing")
  /\ UNCHANGED <<files, iface, booted, conf, quick>>

\* wg-quick down can fail or time out, with or without effect: a 500 or a 504.
WgDown(r) ==
  /\ pc[r] = "downing"
  /\ iface' \in {iface, NoConf}
  /\ Goto(r, "done")
  /\ UNCHANGED <<files, booted, conf, quick, monitor, forward>>

-----------------------------------------------------------------------------
(* The monitor task, and the add-on's restarts *)

\* _monitor_loop catches CancelledError only; a wg command that times out
\* raises HTTPGatewayTimeout through it, and the registry keeps its entry.
MonitorDies(o) ==
  /\ o \in tasks
  /\ tasks' = tasks \ {o}
  /\ UNCHANGED <<files, iface, booted, handler, monReg, forward>>

\* The container goes, and with it everything but /config.
Restart ==
  /\ booted
  /\ booted' = FALSE
  /\ runtime' = NoConf /\ iface' = NoConf
  /\ pc' = [r \in Reqs |-> IF Active(r) THEN "done" ELSE pc[r]]
  /\ monReg' = Nobody /\ tasks' = {}
  /\ registered' = Nobody /\ bound' = {} /\ recorded' = {}
  /\ quick' = [r \in Reqs |-> NoConf]
  /\ held' = [r \in Reqs |-> {}]
  /\ UNCHANGED <<persist, conf>>

\* reconcile has nothing to bring up: disabled, no options, no usable config.
BootWithout ==
  /\ ~booted
  /\ booted' = TRUE
  /\ UNCHANGED <<files, iface, handler, monitor, forward>>

\* reconcile with the options' config, or else the persisted one.  The second
\* write, DNS or wg-quick may fail it after the config was saved; a wg-quick
\* killed after 30 s may leave the interface up with nothing started for it.
BootTunnel(option) ==
  LET c == IF option # NoConf THEN option ELSE persist
  IN  /\ ~booted
      /\ c # NoConf
      /\ booted' = TRUE
      /\ Persist(c)
      /\ conf' = [conf EXCEPT ![BootId] = c]
      /\ \/ runtime' \in {c, runtime} /\ UNCHANGED <<iface, monitor, forward>>
         \/ runtime' = c /\ iface' = c /\ UNCHANGED <<monitor, forward>>
         \/ /\ runtime' = c /\ iface' = c
            /\ StartMonitor(BootId, c)
            /\ \/ /\ TRUE \in ForwardHa
                  /\ registered' = BootId /\ bound' = {BootId} /\ recorded' = {BootId}
               \/ FALSE \in ForwardHa /\ UNCHANGED forward
      /\ UNCHANGED <<pc, quick>>

Start(r) ==
  \/ StartMaterialize(r) \/ StartDnsFails(r) \/ WgReads(r) \/ WgUp(r)
  \/ StartUp(r) \/ Resolve(r) \/ Bind(r) \/ Record(r)

Stop(r) == StopServices(r) \/ WgDown(r)

Background ==
  \/ \E r \in Starts : Start(r)
  \/ \E r \in Stops : Stop(r)
  \/ \E o \in Owners : MonitorDies(o)
  \/ Restart
  \/ BootWithout
  \/ \E c \in Confs \cup {NoConf} : BootTunnel(c) \/ EditFile(c)

\* A request arrives.
Arrive ==
  \/ \E c \in Confs : PostConfig(c)
  \/ \E r \in Starts : StartProbe(r)
  \/ \E r \in Stops : StopProbe(r)

Next == Background \/ Arrive

Spec == Init /\ [][Next]_vars

\* A caller that waits for each answer before it sends the next request.
SerialNext == Background \/ (Quiet /\ Arrive)

SerialSpec == Init /\ [][SerialNext]_vars

-----------------------------------------------------------------------------
(* Properties *)

\* INVARIANTS.md C-16: "it closes before the tunnel goes down" - no socket of
\* the forward is open when the interface is taken down.
ForwardClosesFirst ==
  [][iface # NoConf /\ iface' = NoConf /\ booted' => bound = {}]_vars

\* Between requests, a tunnel that is down has no monitor and no listener.
DownMeansQuiet ==
  Quiet /\ iface = NoConf => tasks = {} /\ monReg = Nobody /\ bound = {}

\* The monitor and the forward work from the configuration the interface is up
\* with, although each was handed a text read before awaits.
ConfAgreement ==
  iface # NoConf => \A o \in tasks \cup bound : conf[o] = iface

\* Every open listener is one ha_forward.stop can reach, except in the handler
\* that is just opening it.
ListenersOwned ==
  \A o \in bound : /\ o = registered
                   /\ o \in recorded \/ (o \in Reqs /\ pc[o] = "bound")

\* Whatever overlaps, a monitor task that runs is the registered one: no task
\* is left behind that stop_monitor cannot cancel.
MonitorsOwned == \A o \in tasks : o = monReg

\* docs/wireguard.md: /etc/wireguard is "never the source of truth".  Whatever
\* overlaps, and across restarts, a start brings the interface up with a text the
\* canonical file held while that start ran; the boot, with the one it persisted.
UpFromCanonical ==
  [][iface = NoConf /\ iface' # NoConf =>
       \/ ~booted /\ iface' = persist'
       \/ \E r \in Starts : WgUp(r) /\ iface' \in held[r]]_vars

\* docs/wireguard.md: "The monitor block reflects the live dyndns re-resolution
\* monitor" - an entry in the registry, reported as running, has a live task.
RunningMeansAlive == monReg # Nobody => monReg \in tasks
=============================================================================
