--------------------------- MODULE MCConfigWrite ---------------------------
(* Instances of ConfigWrite for TLC. *)
EXTENDS ConfigWrite, TLC

CONSTANTS f1, f2, good, new, bad

\* Request slots are interchangeable.
Slots == Permutations(Reqs)

\* Home Assistant refuses a configuration with a broken file in it.
ValidPerFile == {d \in [Files -> Image] : \A f \in Files : d[f] \notin {bad, Torn}}
=============================================================================
