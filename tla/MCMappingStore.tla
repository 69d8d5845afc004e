--------------------------- MODULE MCMappingStore --------------------------
(* Instances of MappingStore for TLC. *)
EXTENDS MappingStore

\* A UI helper beside the YAML ones of its domain, and one in a domain of its own.
MCUi == {<<"counter", "k">>, <<"button", "l">>}
=============================================================================
