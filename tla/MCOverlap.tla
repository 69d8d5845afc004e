----------------------------- MODULE MCOverlap ------------------------------
(* Instances of Overlap for TLC. *)
EXTENDS Overlap, TLC

CONSTANTS ip, host \* WgTunnel

(* WgTunnel: a literal-IP and a hostname configuration.                        *)

MCAddr == [c \in {ip, host} |-> IF c = ip THEN "a" ELSE "b"]

(* TemplateStore: "a" as HA wants it, "b" not; a full block with a trigger, and *)
(* one that has "a" twice and leaves a domain key empty.                       *)

A == [uid |-> "a", name |-> "A", dom |-> "sensor", ok |-> TRUE]
B == [uid |-> "b", name |-> "B", dom |-> "sensor", ok |-> FALSE]
In(dom, item) == [dom |-> dom, item |-> item]
MCItems  == {A, B}
MCBlocks == {[trig |-> TRUE, keys |-> {"sensor", "select"}, list |-> <<In("sensor", A), In("select", B)>>],
             [trig |-> FALSE, keys |-> {"sensor", "select"}, list |-> <<In("sensor", A), In("sensor", A)>>]}

(* MappingStore: a UI helper beside the YAML ones of its domain, and one in a  *)
(* domain of its own.                                                          *)

MCUi == {<<"counter", "k">>, <<"button", "l">>}

(* Slots are alike, and so are the starts of one tunnel.                       *)

Symmetry == Permutations(Slots) \cup Permutations(Starts)
=============================================================================
