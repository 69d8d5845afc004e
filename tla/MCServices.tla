----------------------------- MODULE MCServices -----------------------------
(* Instances of Services for TLC. *)
EXTENDS Services, TLC

CONSTANTS good, new, \* ConfigWrite
          p, q       \* WgMonitor

(* AutomationStore: two contents for "a"; "b" is called what another one's id *)
(* is, and HA refuses it.                                                     *)

Auto(id, alias, ok) == [id |-> id, alias |-> alias, ok |-> ok]
MCAutomations == {Auto("a", "x", TRUE), Auto("a", "y", TRUE), Auto("b", "a", FALSE)}
MCEntity      == [a \in Aliases |-> "automation." \o a]

(* ConfigWrite: a broken file is refused, and "new" in one file is refused     *)
(* unless the other file holds it too.                                         *)

MCValid ==
  {d \in [Files -> {good, new, Absent}] :
     (\E f \in Files : d[f] = new) => \A f \in Files : d[f] # good}

(* WgMonitor: the first of two peers has a name that DNS does not know. *)

MCPeers == <<q, p>>

(* GrepChild: terms that end, hang, break and are refused, some with more hits *)
(* than are shown.                                                             *)

Term(kind, hits, child) == [kind |-> kind, hits |-> hits, child |-> child]
MCTerms == {Term("bad", {}, "ends"), Term("literal", {1, 3}, "ends"),
            Term("regex", {1, 2, 3}, "ends"), Term("regex", {1}, "ends"),
            Term("regex", {2}, "hangs"), Term("regex", {}, "breaks")}
MCLocation == <<"f", "g", "g">>
=============================================================================
