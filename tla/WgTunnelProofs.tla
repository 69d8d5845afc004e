--------------------------- MODULE WgTunnelProofs ---------------------------
(***************************************************************************)
(* What holds of one tunnel for every number of start and stop requests    *)
(* and every set of configurations.                                        *)
(***************************************************************************)
EXTENDS WgTunnel, TLAPS

USE DEF files, handler, monitor, forward, Reqs, Owners

(* Type correctness *)

LEMMA MoveKeepsType ==
  ASSUME TypeOK, NEW r \in Reqs, NEW step \in Steps, Goto(r, step)
  PROVE  pc' \in [Reqs -> Steps] /\ pc'[r] = step
         /\ \A q \in Reqs \ {r} : pc'[q] = pc[q]
  BY DEF TypeOK, Goto

LEMMA MoveKeepsHeld ==
  ASSUME TypeOK, NEW r \in Reqs, NEW step \in Steps, Goto(r, step)
  PROVE  held' \in [Reqs -> SUBSET (Confs \cup {NoConf})]
  BY DEF TypeOK, Goto

LEMMA PersistType ==
  ASSUME TypeOK, NEW c \in Confs \cup {NoConf}, Persist(c)
  PROVE  /\ persist' \in Confs \cup {NoConf}
         /\ held' \in [Reqs -> SUBSET (Confs \cup {NoConf})]
  BY DEF TypeOK, Persist

LEMMA StartMonitorType ==
  ASSUME TypeOK, NEW o \in Owners, NEW c, StartMonitor(o, c)
  PROVE  monReg' \in Owners \cup {Nobody} /\ tasks' \subseteq Owners
  BY DEF TypeOK, StartMonitor

LEMMA InitHasType == Init => TypeOK
  BY DEF Init, TypeOK, Steps, Waiting

LEMMA StepKeepsType == TypeOK /\ [Next]_vars => TypeOK'
<1> SUFFICES ASSUME TypeOK, [Next]_vars PROVE TypeOK'
  OBVIOUS
<1> USE DEF Steps, Waiting, Rising
<1>1. ASSUME NEW c \in Confs, PostConfig(c) PROVE TypeOK'
  BY <1>1, PersistType DEF PostConfig, TypeOK
<1>0. ASSUME NEW c \in Confs \cup {NoConf}, EditFile(c) PROVE TypeOK'
  BY <1>0, PersistType DEF EditFile, TypeOK
<1>2. ASSUME NEW r \in Starts, StartProbe(r) PROVE TypeOK'
  BY <1>2, MoveKeepsHeld DEF StartProbe, Goto, TypeOK
<1>3. ASSUME NEW r \in Stops, StopProbe(r) PROVE TypeOK'
  BY <1>3, MoveKeepsHeld DEF StopProbe, Goto, TypeOK
<1>4. ASSUME NEW r \in Starts, StartMaterialize(r) PROVE TypeOK'
  BY <1>4, MoveKeepsHeld DEF StartMaterialize, Goto, TypeOK
<1>5. ASSUME NEW r \in Starts, StartDnsFails(r) PROVE TypeOK'
  BY <1>5, MoveKeepsHeld DEF StartDnsFails, Goto, TypeOK
<1>18. ASSUME NEW r \in Starts, WgReads(r) PROVE TypeOK'
  BY <1>18, MoveKeepsHeld DEF WgReads, Goto, TypeOK
<1>6. ASSUME NEW r \in Starts, WgUp(r) PROVE TypeOK'
  BY <1>6, MoveKeepsHeld DEF WgUp, Goto, TypeOK
<1>7. ASSUME NEW r \in Starts, StartUp(r) PROVE TypeOK'
  <2>1. monReg' \in Owners \cup {Nobody} /\ tasks' \subseteq Owners
    BY <1>7, StartMonitorType DEF StartUp
  <2>2. /\ registered' \in Owners \cup {Nobody}
        /\ bound' \subseteq Owners /\ recorded' \subseteq Owners
        /\ pc' \in [Reqs -> Steps]
        /\ held' \in [Reqs -> SUBSET (Confs \cup {NoConf})]
    BY <1>7, MoveKeepsHeld DEF StartUp, StopForward, Goto, TypeOK
  <2> QED
    BY <1>7, <2>1, <2>2 DEF StartUp, TypeOK
<1>8. ASSUME NEW r \in Starts, Resolve(r) PROVE TypeOK'
  BY <1>8, MoveKeepsHeld DEF Resolve, Goto, TypeOK
<1>9. ASSUME NEW r \in Starts, Bind(r) PROVE TypeOK'
  BY <1>9, MoveKeepsHeld DEF Bind, Goto, TypeOK
<1>10. ASSUME NEW r \in Starts, Record(r) PROVE TypeOK'
  BY <1>10, MoveKeepsHeld DEF Record, Goto, TypeOK
<1>11. ASSUME NEW r \in Stops, StopServices(r) PROVE TypeOK'
  BY <1>11, MoveKeepsHeld DEF StopServices, StopMonitor, StopForward, Goto, TypeOK
<1>12. ASSUME NEW r \in Stops, WgDown(r) PROVE TypeOK'
  BY <1>12, MoveKeepsHeld DEF WgDown, Goto, TypeOK
<1>13. ASSUME NEW o \in Owners, MonitorDies(o) PROVE TypeOK'
  BY <1>13 DEF MonitorDies, TypeOK
<1>14. ASSUME Restart PROVE TypeOK'
  BY <1>14 DEF Restart, TypeOK
<1>15. ASSUME BootWithout PROVE TypeOK'
  BY <1>15 DEF BootWithout, TypeOK
<1>16. ASSUME NEW c \in Confs \cup {NoConf}, BootTunnel(c) PROVE TypeOK'
  <2> DEFINE d == IF c # NoConf THEN c ELSE persist
  <2>1. d \in Confs
    BY <1>16 DEF BootTunnel, TypeOK
  <2>2. /\ monReg' \in Owners \cup {Nobody} /\ tasks' \subseteq Owners
        /\ registered' \in Owners \cup {Nobody}
        /\ bound' \subseteq Owners /\ recorded' \subseteq Owners
        /\ iface' \in Confs \cup {NoConf}
        /\ runtime' \in Confs \cup {NoConf}
    BY <1>16, <2>1 DEF BootTunnel, StartMonitor, TypeOK
  <2> QED
    BY <1>16, <2>1, <2>2, PersistType DEF BootTunnel, TypeOK
<1>17. CASE UNCHANGED vars
  BY <1>17 DEF vars, TypeOK
<1> QED
  BY <1>0, <1>18, <1>1, <1>2, <1>3, <1>4, <1>5, <1>6, <1>7, <1>8, <1>9, <1>10, <1>11, <1>12,
     <1>13, <1>14, <1>15, <1>16, <1>17 DEF Next, Background, Arrive, Start, Stop

\* Every part of the tunnel keeps its type, whatever requests overlap.
THEOREM TypeCorrect == Spec => []TypeOK
  BY InitHasType, StepKeepsType, PTL DEF Spec

-----------------------------------------------------------------------------
(* What survives overlapping requests *)

LEMMA StartMonitorOwns ==
  ASSUME MonitorsOwned, NEW o, NEW c, StartMonitor(o, c)
  PROVE  MonitorsOwned'
  BY DEF MonitorsOwned, StartMonitor

LEMMA MonitorsStep == MonitorsOwned /\ [Next]_vars => MonitorsOwned'
<1> SUFFICES ASSUME MonitorsOwned, [Next]_vars PROVE MonitorsOwned'
  OBVIOUS
<1> USE DEF MonitorsOwned
<1>1. ASSUME NEW r \in Starts, StartUp(r) PROVE MonitorsOwned'
  BY <1>1 DEF StartUp, StartMonitor
<1>2. ASSUME NEW r \in Stops, StopServices(r) PROVE MonitorsOwned'
  BY <1>2 DEF StopServices, StopMonitor
<1>3. ASSUME NEW o \in Owners, MonitorDies(o) PROVE MonitorsOwned'
  BY <1>3 DEF MonitorDies
<1>4. ASSUME Restart PROVE MonitorsOwned'
  BY <1>4 DEF Restart
<1>5. ASSUME NEW c \in Confs \cup {NoConf}, BootTunnel(c) PROVE MonitorsOwned'
  <2>1. UNCHANGED monitor \/ \E d : StartMonitor(BootId, d)
    BY <1>5 DEF BootTunnel
  <2> QED
    BY <2>1, StartMonitorOwns
<1>6. ASSUME \/ \E c \in Confs \cup {NoConf} : PostConfig(c) \/ EditFile(c)
             \/ \E r \in Starts :
                  \/ StartProbe(r) \/ StartMaterialize(r) \/ StartDnsFails(r)
                  \/ WgReads(r) \/ WgUp(r) \/ Resolve(r) \/ Bind(r) \/ Record(r)
             \/ \E r \in Stops : StopProbe(r) \/ WgDown(r)
             \/ BootWithout \/ UNCHANGED vars
      PROVE  MonitorsOwned'
  <2>1. UNCHANGED monitor
    BY <1>6 DEF PostConfig, EditFile, StartProbe, StartMaterialize, StartDnsFails,
                WgReads, WgUp, Resolve, Bind, Record, StopProbe, WgDown, BootWithout, vars
  <2> QED
    BY <2>1
<1> QED
  BY <1>1, <1>2, <1>3, <1>4, <1>5, <1>6
     DEF Next, Background, Arrive, Start, Stop

\* No monitor task ever escapes the registry, so stop_monitor reaches the one
\* that runs, whatever starts, stops and restarts overlap.
THEOREM MonitorsAreOwned == Spec => []MonitorsOwned
<1>1. Init => MonitorsOwned
  BY DEF Init, MonitorsOwned
<1> QED
  BY <1>1, MonitorsStep, PTL DEF Spec

-----------------------------------------------------------------------------
(* What the interface comes up with *)

\* The text a start will bring up is one the canonical file has held.
TextHeld(r) ==
  /\ pc[r] \in Rising => persist \in held[r]
  /\ pc[r] = "dns" => runtime \in held[r]
  /\ pc[r] = "upping" => quick[r] \in held[r]

CanonicalInv ==
  /\ TypeOK
  /\ \A r \in Reqs : TextHeld(r)
  /\ ~booted => Quiet

LEMMA PersistKeepsHeld ==
  ASSUME CanonicalInv, NEW c \in Confs \cup {NoConf}, Persist(c),
         runtime' \in {c, runtime}, UNCHANGED <<pc, quick>>
  PROVE  \A r \in Reqs : TextHeld(r)'
<1> SUFFICES ASSUME NEW r \in Reqs, pc[r] \in Rising PROVE TextHeld(r)'
  BY DEF TextHeld, Rising
<1>1. held'[r] = held[r] \cup {c} /\ persist' = c
  BY DEF Persist
<1> QED
  BY <1>1 DEF TextHeld, CanonicalInv

\* A handler moves on; its own text is the caller's to establish.
LEMMA MoveKeepsOthers ==
  ASSUME CanonicalInv, NEW r \in Reqs, NEW step \in Steps, Goto(r, step),
         UNCHANGED persist, UNCHANGED runtime \/ runtime' = persist,
         \A q \in Reqs \ {r} : quick'[q] = quick[q],
         step = "dns" => runtime' \in held'[r],
         step = "upping" => quick'[r] \in held'[r]
  PROVE  \A q \in Reqs : TextHeld(q)'
<1>1. /\ pc'[r] = step
      /\ held'[r] = IF step \in Rising THEN held[r] \cup {persist} ELSE {}
      /\ \A q \in Reqs \ {r} : pc'[q] = pc[q] /\ held'[q] = held[q]
  BY DEF CanonicalInv, TypeOK, Goto
<1>2. TextHeld(r)'
  BY <1>1 DEF TextHeld, Rising
<1>3. ASSUME NEW q \in Reqs \ {r} PROVE TextHeld(q)'
  BY <1>1, <1>3 DEF TextHeld, CanonicalInv, Rising
<1> QED
  BY <1>2, <1>3

LEMMA CanonicalStep == CanonicalInv /\ [Next]_vars => CanonicalInv'
<1> SUFFICES ASSUME CanonicalInv, [Next]_vars PROVE CanonicalInv'
  OBVIOUS
<1>0. TypeOK /\ TypeOK'
  BY StepKeepsType DEF CanonicalInv
<1>1. ASSUME NEW c \in Confs \cup {NoConf}, EditFile(c) \/ PostConfig(c)
      PROVE  CanonicalInv'
  BY <1>0, <1>1, PersistKeepsHeld
     DEF EditFile, PostConfig, CanonicalInv, Quiet, Active
<1>2. ASSUME NEW r \in Starts, StartMaterialize(r) PROVE CanonicalInv'
  <2>1. PICK step \in {"dns", "done"} :
          /\ Goto(r, step)
          /\ step = "dns" => runtime' = persist
          /\ UNCHANGED runtime \/ runtime' = persist
    BY <1>2 DEF StartMaterialize
  <2>2. step = "dns" => runtime' \in held'[r]
    BY <1>0, <2>1 DEF Goto, TypeOK, Rising
  <2>3. \A q \in Reqs : TextHeld(q)'
    BY <1>2, <2>1, <2>2, MoveKeepsOthers DEF StartMaterialize, Steps, Waiting, Rising
  <2>4. booted
    BY <1>2 DEF StartMaterialize, CanonicalInv, Quiet, Active, Waiting
  <2> QED
    BY <1>0, <1>2, <2>3, <2>4 DEF StartMaterialize, CanonicalInv
<1>3. ASSUME NEW r \in Starts, WgReads(r) PROVE CanonicalInv'
  <2>1. Goto(r, "upping") /\ quick'[r] = runtime /\ pc[r] = "dns"
    BY <1>0, <1>3 DEF WgReads, TypeOK
  <2>2. quick'[r] \in held'[r]
    BY <1>0, <2>1 DEF CanonicalInv, TextHeld, Goto, TypeOK, Rising
  <2>3. \A q \in Reqs \ {r} : quick'[q] = quick[q]
    BY <1>0, <1>3 DEF WgReads, TypeOK
  <2>4. \A q \in Reqs : TextHeld(q)'
    BY <1>3, <2>1, <2>2, <2>3, MoveKeepsOthers DEF WgReads, Steps, Waiting, Rising
  <2>5. booted
    BY <2>1 DEF CanonicalInv, Quiet, Active, Waiting
  <2> QED
    BY <1>0, <1>3, <2>4, <2>5 DEF WgReads, CanonicalInv
<1>4. ASSUME NEW r \in Starts,
             \/ StartProbe(r) \/ StartDnsFails(r) \/ WgUp(r)
             \/ StartUp(r) \/ Resolve(r) \/ Bind(r) \/ Record(r)
      PROVE  CanonicalInv'
  <2>1. /\ files' = files /\ \A q \in Reqs \ {r} : quick'[q] = quick[q]
        /\ \E step \in Steps \ {"dns", "upping"} : Goto(r, step)
    BY <1>0, <1>4 DEF StartProbe, StartDnsFails, WgUp, StartUp, Resolve, Bind,
                      Record, Steps, Waiting, Rising, TypeOK
  <2>2. \A q \in Reqs : TextHeld(q)'
    BY <2>1, MoveKeepsOthers
  <2>3. booted /\ booted' = booted
    BY <1>4 DEF StartProbe, StartDnsFails, WgUp, StartUp, Resolve, Bind, Record,
                CanonicalInv, Quiet, Active, Waiting
  <2> QED
    BY <1>0, <2>2, <2>3 DEF CanonicalInv
<1>5. ASSUME NEW r \in Stops, StopProbe(r) \/ StopServices(r) \/ WgDown(r)
      PROVE  CanonicalInv'
  <2>1. /\ files' = files /\ quick' = quick
        /\ \E step \in Steps \ {"dns", "upping"} : Goto(r, step)
    BY <1>5 DEF StopProbe, StopServices, WgDown, Steps, Waiting
  <2>2. \A q \in Reqs : TextHeld(q)'
    BY <2>1, MoveKeepsOthers
  <2>3. booted /\ booted' = booted
    BY <1>5 DEF StopProbe, StopServices, WgDown, CanonicalInv, Quiet, Active, Waiting
  <2> QED
    BY <1>0, <2>2, <2>3 DEF CanonicalInv
<1>6. ASSUME Restart PROVE CanonicalInv'
  <2>1. \A r \in Reqs : pc'[r] \in Waiting
    BY <1>0, <1>6 DEF Restart, Active, TypeOK, Waiting
  <2> QED
    BY <1>0, <2>1 DEF CanonicalInv, TextHeld, Quiet, Active, Waiting, Rising
<1>7. ASSUME NEW c \in Confs \cup {NoConf}, BootTunnel(c) PROVE CanonicalInv'
  <2>1. PICK d \in Confs \cup {NoConf} : Persist(d) /\ runtime' \in {d, runtime}
    BY <1>0, <1>7 DEF BootTunnel, TypeOK
  <2>2. \A r \in Reqs : TextHeld(r)'
    BY <1>7, <2>1, PersistKeepsHeld DEF BootTunnel
  <2> QED
    BY <1>0, <1>7, <2>2 DEF BootTunnel, CanonicalInv
<1>8. ASSUME \/ BootWithout \/ UNCHANGED vars
             \/ \E o \in Owners : MonitorDies(o)
      PROVE  CanonicalInv'
  BY <1>0, <1>8 DEF BootWithout, MonitorDies, vars, CanonicalInv, TextHeld, Quiet, Active
<1> QED
  BY <1>1, <1>2, <1>3, <1>4, <1>5, <1>6, <1>7, <1>8
     DEF Next, Background, Arrive, Start, Stop

LEMMA UpIsCanonical ==
  ASSUME CanonicalInv, [Next]_vars, iface = NoConf, iface' # NoConf
  PROVE  \/ ~booted /\ iface' = persist'
         \/ \E r \in Starts : WgUp(r) /\ iface' \in held[r]
<1>1. ASSUME NEW r \in Starts, WgUp(r) PROVE iface' \in held[r]
  BY <1>1 DEF WgUp, CanonicalInv, TextHeld
<1>2. ASSUME NEW c \in Confs \cup {NoConf}, BootTunnel(c)
      PROVE  ~booted /\ iface' = persist'
  BY <1>2 DEF BootTunnel, Persist
<1>3. ASSUME NEW r \in Stops, WgDown(r) PROVE FALSE
  BY <1>3 DEF WgDown
<1>4. ~ Restart
  BY DEF Restart
<1>5. ASSUME \/ \E c \in Confs \cup {NoConf} : PostConfig(c) \/ EditFile(c)
             \/ \E r \in Starts :
                  \/ StartProbe(r) \/ StartMaterialize(r) \/ StartDnsFails(r)
                  \/ WgReads(r) \/ StartUp(r) \/ Resolve(r) \/ Bind(r) \/ Record(r)
             \/ \E r \in Stops : StopProbe(r) \/ StopServices(r)
             \/ \E o \in Owners : MonitorDies(o)
             \/ BootWithout \/ UNCHANGED vars
      PROVE  FALSE
  BY <1>5 DEF PostConfig, EditFile, StartProbe, StartMaterialize, StartDnsFails,
              WgReads, StartUp, Resolve, Bind, Record, StopProbe, StopServices,
              MonitorDies, BootWithout, vars
<1> QED
  BY <1>1, <1>2, <1>3, <1>4, <1>5 DEF Next, Background, Arrive, Start, Stop

\* However requests, hand edits, half-failed saves and restarts overlap, a start
\* brings up a text the canonical file held while it ran, although wg-quick reads
\* a copy that dies with the container and that others rewrite meanwhile.
THEOREM ComesUpFromCanonical == Spec => UpFromCanonical
<1>1. Init => CanonicalInv
  BY InitHasType
     DEF Init, CanonicalInv, TextHeld, Rising, Quiet, Active, Waiting
<1>2. CanonicalInv /\ [Next]_vars
        => [iface = NoConf /\ iface' # NoConf =>
              \/ ~booted /\ iface' = persist'
              \/ \E r \in Starts : WgUp(r) /\ iface' \in held[r]]_vars
  BY UpIsCanonical
<1> QED
  BY <1>1, <1>2, CanonicalStep, PTL DEF Spec, UpFromCanonical

-----------------------------------------------------------------------------
(* A caller that waits for each answer *)

\* What the one handler in flight has established so far.
StageOK(r) ==
  /\ pc[r] = "dns" => runtime \in Confs /\ conf[r] = runtime
  /\ pc[r] = "upping" => quick[r] \in Confs /\ conf[r] = quick[r]
  /\ pc[r] \in Rising => iface = NoConf
  /\ pc[r] \in {"up", "resolving", "binding", "bound"} =>
       iface # NoConf /\ conf[r] = iface
  /\ pc[r] = "stop_probed" => iface # NoConf
  /\ pc[r] \in {"up", "resolving", "binding"} => bound = {}
  /\ pc[r] \in {"binding", "bound"} => registered = r
  /\ pc[r] = "downing" => tasks = {} /\ monReg = Nobody /\ bound = {}

Alone    == \A r, q \in Reqs : Active(r) /\ Active(q) => r = q
Stages   == \A r \in Reqs : StageOK(r)
BootRest == ~booted => Quiet /\ iface = NoConf
DownRest == iface = NoConf => tasks = {} /\ monReg = Nobody /\ bound = {}

SerialInv ==
  /\ TypeOK /\ Alone /\ Stages /\ BootRest /\ DownRest
  /\ MonitorsOwned /\ ListenersOwned /\ ConfAgreement

\* Only one handler is under way: the others' stages ask nothing of the state.
LEMMA OneHandler ==
  ASSUME TypeOK, NEW r \in Reqs, NEW step \in Steps, Goto(r, step),
         \A q \in Reqs \ {r} : ~Active(q),
         StageOK(r)'
  PROVE  Alone' /\ Stages' /\ pc'[r] = step
<1>1. pc'[r] = step /\ \A q \in Reqs \ {r} : pc'[q] = pc[q]
  BY MoveKeepsType
<1>2. \A q \in Reqs \ {r} : ~Active(q)' /\ pc'[q] \in Waiting
  BY <1>1 DEF Active
<1>3. \A q \in Reqs \ {r} : StageOK(q)'
  BY <1>2 DEF StageOK, Waiting, Rising
<1> QED
  BY <1>1, <1>2, <1>3 DEF Alone, Stages

LEMMA OthersRest ==
  ASSUME SerialInv, NEW r \in Reqs, Active(r)
  PROVE  booted /\ StageOK(r) /\ \A q \in Reqs \ {r} : ~Active(q)
  BY DEF SerialInv, Alone, Stages, BootRest, Quiet

LEMMA SerialStep == SerialInv /\ [SerialNext]_vars => SerialInv'
<1> SUFFICES ASSUME SerialInv, [SerialNext]_vars PROVE SerialInv'
  OBVIOUS
<1>0. [Next]_vars
  BY DEF SerialNext, Next
<1>1. TypeOK /\ TypeOK' /\ MonitorsOwned'
  BY <1>0, StepKeepsType, MonitorsStep DEF SerialInv
<1>2. DownRest /\ ListenersOwned /\ ConfAgreement /\ MonitorsOwned
  BY DEF SerialInv
<1>3. ASSUME NEW c \in Confs, Quiet, PostConfig(c) PROVE SerialInv'
  <2>1. Stages'
    BY <1>3 DEF PostConfig, Quiet, Active, Waiting, Rising, Stages, StageOK
  <2> QED
    BY <1>1, <1>3, <2>1 DEF PostConfig, SerialInv, Alone, Active, BootRest, Quiet,
       DownRest, ListenersOwned, ConfAgreement
<1>20. ASSUME NEW c \in Confs \cup {NoConf}, EditFile(c) PROVE SerialInv'
  <2>1. UNCHANGED <<runtime, iface, booted, pc, conf, quick, monitor, forward>>
    BY <1>20 DEF EditFile
  <2>2. Stages' /\ Alone' /\ BootRest'
    BY <2>1 DEF SerialInv, Stages, StageOK, Alone, Active, BootRest, Quiet
  <2> QED
    BY <1>1, <1>2, <2>1, <2>2
       DEF SerialInv, DownRest, ListenersOwned, ConfAgreement
<1>4. ASSUME NEW r \in Starts, Quiet, StartProbe(r) PROVE SerialInv'
  <2>1. PICK step \in {"start_probed", "done"} :
          Goto(r, step) /\ (step = "start_probed" => iface = NoConf)
    BY <1>4 DEF StartProbe
  <2>2. pc'[r] = step /\ step \in Steps
    BY <1>1, <2>1, MoveKeepsType DEF Steps, Waiting, Rising
  <2>3. StageOK(r)'
    BY <1>4, <2>1, <2>2 DEF StartProbe, StageOK, Rising
  <2>4. Alone' /\ Stages'
    BY <1>1, <1>4, <2>1, <2>2, <2>3, OneHandler DEF Quiet
  <2> QED
    BY <1>1, <1>2, <1>4, <2>1, <2>2, <2>4, MoveKeepsType
       DEF StartProbe, SerialInv, BootRest, DownRest, ListenersOwned, ConfAgreement
<1>5. ASSUME NEW r \in Stops, Quiet, StopProbe(r) PROVE SerialInv'
  <2>1. PICK step \in {"stop_probed", "done"} :
          Goto(r, step) /\ (step = "stop_probed" => iface # NoConf)
    BY <1>5 DEF StopProbe
  <2>2. pc'[r] = step /\ step \in Steps
    BY <1>1, <2>1, MoveKeepsType DEF Steps, Waiting, Rising
  <2>3. StageOK(r)'
    BY <1>5, <2>1, <2>2 DEF StopProbe, StageOK, Rising
  <2>4. Alone' /\ Stages'
    BY <1>1, <1>5, <2>1, <2>2, <2>3, OneHandler DEF Quiet
  <2> QED
    BY <1>1, <1>2, <1>5, <2>1, <2>2, <2>4, MoveKeepsType
       DEF StopProbe, SerialInv, BootRest, DownRest, ListenersOwned, ConfAgreement
<1>6. ASSUME NEW r \in Starts, StartMaterialize(r) PROVE SerialInv'
  <2>0. Active(r)
    BY <1>6 DEF StartMaterialize, Active, Waiting
  <2>1. booted /\ StageOK(r) /\ \A q \in Reqs \ {r} : ~Active(q)
    BY <2>0, OthersRest
  <2>2. iface = NoConf /\ tasks = {} /\ monReg = Nobody /\ bound = {}
    BY <1>2, <1>6, <2>1 DEF StartMaterialize, StageOK, Rising, DownRest
  <2>3. PICK step \in {"dns", "done"} :
          /\ Goto(r, step)
          /\ step = "dns" => /\ persist \in Confs /\ runtime' = persist
                             /\ conf' = [conf EXCEPT ![r] = persist]
    BY <1>1, <1>6 DEF StartMaterialize, TypeOK
  <2>4. pc'[r] = step /\ step \in Steps
    BY <1>1, <2>3, MoveKeepsType DEF Steps, Waiting, Rising
  <2>5. StageOK(r)'
    BY <1>1, <1>6, <2>2, <2>3, <2>4 DEF StartMaterialize, StageOK, Rising, TypeOK
  <2>6. Alone' /\ Stages'
    BY <1>1, <2>1, <2>3, <2>4, <2>5, OneHandler
  <2>7. BootRest' /\ DownRest' /\ ListenersOwned' /\ ConfAgreement'
    BY <1>6, <2>1, <2>2
       DEF StartMaterialize, BootRest, DownRest, ListenersOwned, ConfAgreement
  <2> QED
    BY <1>1, <2>6, <2>7 DEF SerialInv
<1>7. ASSUME NEW r \in Starts, StartDnsFails(r) PROVE SerialInv'
  <2>0. Active(r)
    BY <1>7 DEF StartDnsFails, Active, Waiting
  <2>1. booted /\ StageOK(r) /\ \A q \in Reqs \ {r} : ~Active(q)
    BY <2>0, OthersRest
  <2>2. iface = NoConf /\ tasks = {} /\ monReg = Nobody /\ bound = {}
    BY <1>2, <1>7, <2>1 DEF StartDnsFails, StageOK, Rising, DownRest
  <2>3. Goto(r, "done") /\ "done" \in Steps /\ pc'[r] = "done"
    BY <1>1, <1>7, MoveKeepsType DEF StartDnsFails, Steps, Waiting, Rising
  <2>4. StageOK(r)'
    BY <2>3 DEF StageOK, Rising
  <2>5. Alone' /\ Stages'
    BY <1>1, <2>1, <2>3, <2>4, OneHandler
  <2>6. BootRest' /\ DownRest' /\ ListenersOwned' /\ ConfAgreement'
    BY <1>7, <2>1, <2>2
       DEF StartDnsFails, BootRest, DownRest, ListenersOwned, ConfAgreement
  <2> QED
    BY <1>1, <2>5, <2>6 DEF SerialInv
<1>21. ASSUME NEW r \in Starts, WgReads(r) PROVE SerialInv'
  <2>0. Active(r)
    BY <1>21 DEF WgReads, Active, Waiting
  <2>1. booted /\ StageOK(r) /\ \A q \in Reqs \ {r} : ~Active(q)
    BY <2>0, OthersRest
  <2>2. /\ iface = NoConf /\ tasks = {} /\ monReg = Nobody /\ bound = {}
        /\ runtime \in Confs /\ conf[r] = runtime /\ runtime # NoConf
    BY <1>2, <1>21, <2>1, ConfsAssumption DEF WgReads, StageOK, Rising, DownRest
  <2>3. Goto(r, "upping") /\ quick'[r] = runtime
    BY <1>1, <1>21 DEF WgReads, TypeOK
  <2>4. pc'[r] = "upping" /\ "upping" \in Steps
    BY <1>1, <2>3, MoveKeepsType DEF Steps, Waiting, Rising
  <2>5. StageOK(r)'
    BY <1>21, <2>2, <2>3, <2>4 DEF WgReads, StageOK, Rising
  <2>6. Alone' /\ Stages'
    BY <1>1, <2>1, <2>3, <2>4, <2>5, OneHandler
  <2>7. BootRest' /\ DownRest' /\ ListenersOwned' /\ ConfAgreement'
    BY <1>21, <2>1, <2>2
       DEF WgReads, BootRest, DownRest, ListenersOwned, ConfAgreement
  <2> QED
    BY <1>1, <2>6, <2>7 DEF SerialInv
<1>8. ASSUME NEW r \in Starts, WgUp(r) PROVE SerialInv'
  <2>0. Active(r)
    BY <1>8 DEF WgUp, Active, Waiting
  <2>1. booted /\ StageOK(r) /\ \A q \in Reqs \ {r} : ~Active(q)
    BY <2>0, OthersRest
  <2>2. /\ iface = NoConf /\ tasks = {} /\ monReg = Nobody /\ bound = {}
        /\ quick[r] \in Confs /\ conf[r] = quick[r] /\ quick[r] # NoConf
    BY <1>2, <1>8, <2>1, ConfsAssumption DEF WgUp, StageOK, Rising, DownRest
  <2>3. PICK step \in {"up", "done"} :
          Goto(r, step) /\ (step = "up" => iface' = quick[r])
    BY <1>8 DEF WgUp
  <2>4. pc'[r] = step /\ step \in Steps
    BY <1>1, <2>3, MoveKeepsType DEF Steps, Waiting, Rising
  <2>5. StageOK(r)'
    BY <1>8, <2>2, <2>3, <2>4 DEF WgUp, StageOK, Rising
  <2>6. Alone' /\ Stages'
    BY <1>1, <2>1, <2>3, <2>4, <2>5, OneHandler
  <2>7. BootRest' /\ DownRest' /\ ListenersOwned' /\ ConfAgreement'
    BY <1>8, <2>1, <2>2
       DEF WgUp, BootRest, DownRest, ListenersOwned, ConfAgreement
  <2> QED
    BY <1>1, <2>6, <2>7 DEF SerialInv
<1>9. ASSUME NEW r \in Starts, StartUp(r) PROVE SerialInv'
  <2>0. Active(r)
    BY <1>9 DEF StartUp, Active, Waiting
  <2>1. booted /\ StageOK(r) /\ \A q \in Reqs \ {r} : ~Active(q)
    BY <2>0, OthersRest
  <2>2. iface # NoConf /\ conf[r] = iface /\ bound = {}
    BY <1>9, <2>1 DEF StartUp, StageOK, Rising
  <2>3. PICK step \in {"resolving", "done"} : Goto(r, step)
    BY <1>9 DEF StartUp
  <2>4. pc'[r] = step /\ step \in Steps
    BY <1>1, <2>3, MoveKeepsType DEF Steps, Waiting, Rising
  <2>5. bound' = {} /\ UNCHANGED <<iface, booted, conf>>
    BY <1>9, <2>2 DEF StartUp, StopForward
  <2>6. tasks' \subseteq tasks \cup {r}
    BY <1>9 DEF StartUp, StartMonitor
  <2>7. StageOK(r)'
    BY <2>2, <2>4, <2>5 DEF StageOK, Rising
  <2>8. Alone' /\ Stages'
    BY <1>1, <2>1, <2>3, <2>4, <2>7, OneHandler
  <2>9. BootRest' /\ DownRest' /\ ListenersOwned' /\ ConfAgreement'
    BY <1>2, <2>1, <2>2, <2>5, <2>6
       DEF BootRest, DownRest, ListenersOwned, ConfAgreement
  <2> QED
    BY <1>1, <2>8, <2>9 DEF SerialInv
<1>10. ASSUME NEW r \in Starts, Resolve(r) PROVE SerialInv'
  <2>0. Active(r)
    BY <1>10 DEF Resolve, Active, Waiting
  <2>1. booted /\ StageOK(r) /\ \A q \in Reqs \ {r} : ~Active(q)
    BY <2>0, OthersRest
  <2>2. iface # NoConf /\ conf[r] = iface /\ bound = {}
    BY <1>10, <2>1 DEF Resolve, StageOK, Rising
  <2>3. Goto(r, "binding") /\ "binding" \in Steps /\ pc'[r] = "binding"
    BY <1>1, <1>10, MoveKeepsType DEF Resolve, Steps, Waiting
  <2>4. StageOK(r)'
    BY <1>10, <2>2, <2>3 DEF Resolve, StageOK, Rising
  <2>5. Alone' /\ Stages'
    BY <1>1, <2>1, <2>3, <2>4, OneHandler
  <2>6. BootRest' /\ DownRest' /\ ListenersOwned' /\ ConfAgreement'
    BY <1>2, <1>10, <2>1, <2>2
       DEF Resolve, BootRest, DownRest, ListenersOwned, ConfAgreement
  <2> QED
    BY <1>1, <2>5, <2>6 DEF SerialInv
<1>11. ASSUME NEW r \in Starts, Bind(r) PROVE SerialInv'
  <2>0. Active(r)
    BY <1>11 DEF Bind, Active, Waiting
  <2>1. booted /\ StageOK(r) /\ \A q \in Reqs \ {r} : ~Active(q)
    BY <2>0, OthersRest
  <2>2. iface # NoConf /\ conf[r] = iface /\ bound = {} /\ registered = r
    BY <1>11, <2>1 DEF Bind, StageOK, Rising
  <2>3. PICK step \in {"bound", "done"} :
          Goto(r, step) /\ bound' = (IF step = "bound" THEN {r} ELSE {})
    BY <1>11, <2>2 DEF Bind
  <2>4. pc'[r] = step /\ step \in Steps
    BY <1>1, <2>3, MoveKeepsType DEF Steps, Waiting, Rising
  <2>5. StageOK(r)'
    BY <1>11, <2>2, <2>3, <2>4 DEF Bind, StageOK, Rising
  <2>6. Alone' /\ Stages'
    BY <1>1, <2>1, <2>3, <2>4, <2>5, OneHandler
  <2>7. BootRest' /\ DownRest' /\ ListenersOwned' /\ ConfAgreement'
    BY <1>2, <1>11, <2>1, <2>2, <2>3, <2>4
       DEF Bind, BootRest, DownRest, ListenersOwned, ConfAgreement
  <2> QED
    BY <1>1, <2>6, <2>7 DEF SerialInv
<1>12. ASSUME NEW r \in Starts, Record(r) PROVE SerialInv'
  <2>0. Active(r)
    BY <1>12 DEF Record, Active, Waiting
  <2>1. booted /\ StageOK(r) /\ \A q \in Reqs \ {r} : ~Active(q)
    BY <2>0, OthersRest
  <2>2. iface # NoConf /\ conf[r] = iface /\ registered = r
    BY <1>12, <2>1 DEF Record, StageOK, Rising
  <2>3. Goto(r, "done") /\ "done" \in Steps /\ pc'[r] = "done"
    BY <1>1, <1>12, MoveKeepsType DEF Record, Steps, Waiting
  <2>4. StageOK(r)'
    BY <2>3 DEF StageOK, Rising
  <2>5. Alone' /\ Stages'
    BY <1>1, <2>1, <2>3, <2>4, OneHandler
  <2>6. BootRest' /\ DownRest' /\ ListenersOwned' /\ ConfAgreement'
    BY <1>2, <1>12, <2>1, <2>2
       DEF Record, BootRest, DownRest, ListenersOwned, ConfAgreement
  <2> QED
    BY <1>1, <2>5, <2>6 DEF SerialInv
<1>13. ASSUME NEW r \in Stops, StopServices(r) PROVE SerialInv'
  <2>0. Active(r)
    BY <1>13 DEF StopServices, Active, Waiting
  <2>1. booted /\ StageOK(r) /\ \A q \in Reqs \ {r} : ~Active(q)
    BY <2>0, OthersRest
  <2>2. \A o \in bound : o = registered /\ o \in recorded
    <3>1. \A q \in Reqs : pc[q] # "bound"
      BY <1>13, <2>1 DEF StopServices, Active, Waiting
    <3> QED
      BY <1>2, <3>1 DEF ListenersOwned
  <2>3. bound' = {} /\ tasks' = {} /\ monReg' = Nobody
    BY <1>2, <1>13, <2>2 DEF StopServices, StopForward, StopMonitor, MonitorsOwned
  <2>4. Goto(r, "downing") /\ "downing" \in Steps /\ pc'[r] = "downing"
    BY <1>1, <1>13, MoveKeepsType DEF StopServices, Steps, Waiting
  <2>5. StageOK(r)'
    BY <2>3, <2>4 DEF StageOK, Rising
  <2>6. Alone' /\ Stages'
    BY <1>1, <2>1, <2>4, <2>5, OneHandler
  <2>7. BootRest' /\ DownRest' /\ ListenersOwned' /\ ConfAgreement'
    BY <1>13, <2>1, <2>3
       DEF StopServices, BootRest, DownRest, ListenersOwned, ConfAgreement
  <2> QED
    BY <1>1, <2>6, <2>7 DEF SerialInv
<1>14. ASSUME NEW r \in Stops, WgDown(r) PROVE SerialInv'
  <2>0. Active(r)
    BY <1>14 DEF WgDown, Active, Waiting
  <2>1. booted /\ StageOK(r) /\ \A q \in Reqs \ {r} : ~Active(q)
    BY <2>0, OthersRest
  <2>2. tasks = {} /\ monReg = Nobody /\ bound = {}
    BY <1>14, <2>1 DEF WgDown, StageOK, Rising
  <2>3. Goto(r, "done") /\ "done" \in Steps /\ pc'[r] = "done"
    BY <1>1, <1>14, MoveKeepsType DEF WgDown, Steps, Waiting
  <2>4. StageOK(r)'
    BY <2>3 DEF StageOK, Rising
  <2>5. Alone' /\ Stages'
    BY <1>1, <2>1, <2>3, <2>4, OneHandler
  <2>6. BootRest' /\ DownRest' /\ ListenersOwned' /\ ConfAgreement'
    BY <1>14, <2>1, <2>2
       DEF WgDown, BootRest, DownRest, ListenersOwned, ConfAgreement
  <2> QED
    BY <1>1, <2>5, <2>6 DEF SerialInv
<1>15. ASSUME NEW o \in Owners, MonitorDies(o) PROVE SerialInv'
  <2>1. tasks' \subseteq tasks /\ UNCHANGED <<files, iface, booted, handler, monReg, forward>>
    BY <1>15 DEF MonitorDies
  <2>2. o = monReg /\ o \in tasks
    BY <1>2, <1>15 DEF MonitorDies, MonitorsOwned
  <2>3. Stages'
    BY <2>1, <2>2 DEF SerialInv, Stages, StageOK
  <2>4. Alone' /\ BootRest'
    BY <2>1 DEF SerialInv, Alone, Active, BootRest, Quiet
  <2>5. DownRest' /\ ListenersOwned' /\ ConfAgreement'
    BY <1>2, <2>1, <2>2 DEF DownRest, ListenersOwned, ConfAgreement
  <2> QED
    BY <1>1, <2>3, <2>4, <2>5 DEF SerialInv
<1>16. ASSUME Restart PROVE SerialInv'
  <2>1. \A r \in Reqs : pc'[r] \in Waiting
    BY <1>1, <1>16 DEF Restart, Active, TypeOK, Waiting
  <2>2. Alone' /\ Stages' /\ BootRest'
    BY <1>16, <2>1 DEF Restart, Alone, Active, Stages, StageOK, Waiting, Rising, BootRest, Quiet
  <2>3. DownRest' /\ ListenersOwned' /\ ConfAgreement'
    BY <1>16 DEF Restart, DownRest, ListenersOwned, ConfAgreement
  <2> QED
    BY <1>1, <2>2, <2>3 DEF SerialInv
<1>17. ASSUME BootWithout PROVE SerialInv'
  <2>1. Alone' /\ Stages' /\ BootRest'
    BY <1>17 DEF BootWithout, SerialInv, Alone, Active, Stages, StageOK, BootRest
  <2>2. DownRest' /\ ListenersOwned' /\ ConfAgreement'
    BY <1>2, <1>17 DEF BootWithout, DownRest, ListenersOwned, ConfAgreement
  <2> QED
    BY <1>1, <2>1, <2>2 DEF SerialInv
<1>18. ASSUME NEW c \in Confs \cup {NoConf}, BootTunnel(c) PROVE SerialInv'
  <2>1. Quiet /\ iface = NoConf /\ tasks = {} /\ monReg = Nobody /\ bound = {}
    BY <1>2, <1>18 DEF BootTunnel, SerialInv, BootRest, DownRest
  <2>2. PICK d \in Confs :
          /\ conf' = [conf EXCEPT ![BootId] = d]
          /\ booted' = TRUE /\ pc' = pc
          /\ \/ UNCHANGED <<iface, monitor, forward>>
             \/ iface' = d /\ UNCHANGED <<monitor, forward>>
             \/ /\ iface' = d
                /\ StartMonitor(BootId, d)
                /\ \/ registered' = BootId /\ bound' = {BootId} /\ recorded' = {BootId}
                   \/ UNCHANGED forward
    <3>1. (IF c # NoConf THEN c ELSE persist) \in Confs
      BY <1>1, <1>18 DEF BootTunnel, TypeOK
    <3> QED
      BY <1>18, <3>1 DEF BootTunnel
  <2>3. Alone' /\ Stages' /\ BootRest'
    BY <2>1, <2>2 DEF Quiet, Active, Waiting, Rising, Alone, Stages, StageOK, BootRest
  <2>4. conf'[BootId] = d
    BY <1>1, <2>2 DEF TypeOK
  <2>5. tasks' \subseteq {BootId} /\ bound' \subseteq {BootId}
    BY <2>1, <2>2 DEF StartMonitor
  <2>6. CASE UNCHANGED <<iface, monitor, forward>>
    BY <1>1, <2>1, <2>3, <2>6
       DEF SerialInv, DownRest, ListenersOwned, ConfAgreement
  <2>7. CASE iface' = d
    <3>1. DownRest' /\ ConfAgreement'
      BY <2>4, <2>5, <2>7, ConfsAssumption DEF DownRest, ConfAgreement
    <3>2. ListenersOwned'
      BY <2>1, <2>2 DEF ListenersOwned
    <3> QED
      BY <1>1, <2>3, <3>1, <3>2 DEF SerialInv
  <2> QED
    BY <2>2, <2>6, <2>7
<1>19. CASE UNCHANGED vars
  BY <1>1, <1>19 DEF vars, SerialInv, Alone, Active, Stages, StageOK, BootRest,
     Quiet, DownRest, MonitorsOwned, ListenersOwned, ConfAgreement
<1> QED
  BY <1>3, <1>4, <1>5, <1>6, <1>7, <1>8, <1>9, <1>10, <1>11, <1>12, <1>13,
     <1>14, <1>15, <1>16, <1>17, <1>18, <1>19, <1>20, <1>21
     DEF SerialNext, Background, Arrive, Start, Stop

LEMMA InitIsSerial == Init => SerialInv
<1> SUFFICES ASSUME Init PROVE SerialInv
  OBVIOUS
<1>1. \A r \in Reqs : pc[r] = "new"
  BY DEF Init
<1>2. Alone /\ Stages /\ BootRest
  BY <1>1 DEF Init, Alone, Active, Waiting, Stages, StageOK, BootRest, Quiet
<1> QED
  BY <1>2, InitHasType
     DEF Init, SerialInv, DownRest, MonitorsOwned, ListenersOwned, ConfAgreement

\* For callers that wait for each answer: a tunnel that is down has no monitor
\* and no listener, both work from the configuration the interface is up with,
\* and every listener is within reach of ha_forward.stop.
THEOREM ServicesFollowInterface ==
  SerialSpec => [](DownMeansQuiet /\ ConfAgreement /\ ListenersOwned)
<1>1. SerialInv => DownMeansQuiet /\ ConfAgreement /\ ListenersOwned
  BY DEF SerialInv, DownRest, DownMeansQuiet
<1> QED
  BY <1>1, InitIsSerial, SerialStep, PTL DEF SerialSpec

\* ... among it, that no monitor or forward works from a stale configuration,
THEOREM ServicesAgree == SerialSpec => []ConfAgreement
  BY ServicesFollowInterface, PTL

\* ... and that ha_forward.stop reaches every listener.
THEOREM ListenersAreOwned == SerialSpec => []ListenersOwned
  BY ServicesFollowInterface, PTL

\* C-16, for callers that wait for each answer: the forward is closed before
\* the interface goes down.
THEOREM ForwardIsClosedFirst == SerialSpec => ForwardClosesFirst
<1>1. SerialInv /\ [SerialNext]_vars
        => [iface # NoConf /\ iface' = NoConf /\ booted' => bound = {}]_vars
  <2> SUFFICES ASSUME SerialInv, [SerialNext]_vars,
                      iface # NoConf, iface' = NoConf, booted'
               PROVE  bound = {}
    OBVIOUS
  <2>1. ASSUME NEW r \in Stops, WgDown(r) PROVE bound = {}
    BY <2>1 DEF WgDown, SerialInv, Stages, StageOK
  <2>2. ASSUME NEW c \in Confs \cup {NoConf}, BootTunnel(c) PROVE bound = {}
    BY <2>2 DEF BootTunnel, SerialInv, BootRest
  <2>3. ASSUME NEW r \in Starts, WgUp(r) PROVE FALSE
    BY <2>3 DEF WgUp
  <2>4. ~ Restart
    BY DEF Restart
  <2>5. ASSUME \/ \E c \in Confs \cup {NoConf} : PostConfig(c) \/ EditFile(c)
               \/ \E r \in Starts :
                    \/ StartProbe(r) \/ StartMaterialize(r) \/ StartDnsFails(r)
                    \/ WgReads(r) \/ StartUp(r) \/ Resolve(r) \/ Bind(r) \/ Record(r)
               \/ \E r \in Stops : StopProbe(r) \/ StopServices(r)
               \/ \E o \in Owners : MonitorDies(o)
               \/ BootWithout \/ UNCHANGED vars
        PROVE  FALSE
    BY <2>5 DEF PostConfig, EditFile, StartProbe, StartMaterialize, StartDnsFails,
                WgReads, StartUp, Resolve, Bind, Record, StopProbe, StopServices, MonitorDies,
                BootWithout, vars
  <2> QED
    BY <2>1, <2>2, <2>3, <2>4, <2>5 DEF SerialNext, Background, Arrive, Start, Stop
<1> QED
  BY <1>1, InitIsSerial, SerialStep, PTL DEF SerialSpec, ForwardClosesFirst
=============================================================================
