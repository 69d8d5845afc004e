------------------------- MODULE MCAutomationStore -------------------------
(* Instances of AutomationStore for TLC. *)
EXTENDS AutomationStore

Auto(id, alias, ok) == [id |-> id, alias |-> alias, ok |-> ok]

\* No alias is an id; two contents for "a".
EntryPlain == {Auto("a", "x", TRUE), Auto("a", "y", TRUE), Auto("b", "y", FALSE)}

MCEntity == [a \in Aliases |-> "automation." \o a]
=============================================================================
