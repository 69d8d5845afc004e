----------------------------- MODULE MCRefScan -----------------------------
(* Instances of Reading for TLC, and the cases of the functions.  The modules  *)
(* of functions that Reading leaves to TLC have their constants where their    *)
(* cases are.                                                                  *)
EXTENDS Reading, MCWiring

Ro == INSTANCE MCResolver
Sc == INSTANCE MCSplice
Rl == INSTANCE MCRelated
Lc == INSTANCE MCLeaves

CONSTANTS conf, a, b, dir, gone, out

(* RefScan *)

MCListing == [d \in {dir, gone} |-> IF d = dir THEN {b, out} ELSE {}]

Plain(incl, holds) ==
  [kind |-> "plain", incl |-> incl, hint |-> TRUE, holds |-> holds]

Other(kind, hint) ==
  [kind |-> kind, incl |-> {}, hint |-> hint, holds |-> FALSE]

\* Includes that make cycles, diamonds, dead ends and ways out.
MCIncludes == {{}, {conf}, {a, b}, {a, dir}, {out, gone}}

MCNodes ==
  {Plain(i, h) : i \in MCIncludes, h \in BOOLEAN}
    \cup {Other("plain", FALSE), Other("missing", FALSE), Other("unparseable", TRUE)}
    \cup {Other(k, h) : k \in {"denied", "broken"}, h \in BOOLEAN}

-----------------------------------------------------------------------------

MCCases ==
  [m \in {"wiring", "resolver", "splice", "leaves", "related", "registry"} |->
     CASE m = "wiring"   -> WiringCases
       [] m = "resolver" -> Ro!ResolverCases
       [] m = "splice"   -> Sc!SpliceCases
       [] m = "leaves"   -> Lc!LeavesCases
       [] m = "related"  -> Rl!RelatedCases
       [] m = "registry" -> Rl!RegistryCases]

\* Errors are reported if and only if there is one below, a later file's value
\* replaces an earlier one's whole, and without merges every file is in the answer.
IncludesResolve ==
  of = "resolver" =>
    /\ Ro!ErrorsAreReal(case, "conf") /\ Ro!MergesAreShallow(case, "conf")
    /\ Ro!NothingIsLost(case, "conf")

\* The automations that HA loads and that mention an entity are named, with what
\* stands under a key so called; and a reference is reported from either end.
RelationsAreTrue ==
  /\ of = "related" => Rl!NamesWhatBreaks(case, "t")
  /\ of = "registry" => Rg!RelationsAreMutual(case)
=============================================================================
