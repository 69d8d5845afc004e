----------------------------- MODULE MCWgTunnel -----------------------------
(* Instances of WgTunnel for TLC: a literal-IP and two hostname configurations, *)
(* two of them with one address.                                              *)
EXTENDS WgTunnel

CONSTANTS ip, host, host2

MCAddr == [c \in {ip, host, host2} |-> IF c = host2 THEN "b" ELSE "a"]
=============================================================================
