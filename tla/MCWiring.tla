------------------------------ MODULE MCWiring ------------------------------
(* Configurations for Wiring: up to three keys of the domain, every kind of   *)
(* value under them, every kind of package directory; a directory holds the   *)
(* conventional file, another one, secrets.yaml and a link out of the         *)
(* configuration.                                                             *)
EXTENDS Sequences, SequencesExt

In(tag, path) == [tag |-> tag, path |-> path]

MCPath       == {"conv", "m", "other", "secrets", "out", "pack", "bare", "pack2",
                 "names", "dir", "far", "packs", "nowhere"}
MCKey        == {"d", "d ui", "d old", "d2"}
MCKeys       == <<"d", "d ui", "d old">>
MCMembers    == [p \in MCPath |->
                   CASE p = "dir"   -> <<"conv", "m", "secrets", "out">>
                     [] p = "packs" -> <<"pack", "bare", "pack2", "names">>
                     [] OTHER       -> <<>>]
MCConfigures == [p \in MCPath |->
                   CASE p = "pack" -> <<"d">> [] p = "pack2" -> <<"d", "d2">> [] OTHER -> <<>>]
\* A package "x" in configuration.yaml, and two in a file that lists them by name.
MCByName     == [p \in MCPath \cup {"configuration.yaml"} |->
                   CASE p = "configuration.yaml" -> {<<"x", "d">>}
                     [] p = "names"              -> {<<"x", "d">>, <<"y", "d2">>}
                     [] OTHER                    -> {}]

Values == {In("include", f) : f \in {"conv", "other", "out"}}
            \cup {In(t, "dir") : t \in {"merge_named", "merge_list", "named", "list"}}
            \cup {In("merge_list", "out"), In("merge_named", "far"),
                  In("inline", "nowhere"), In("other", "nowhere")}

Packages == {In("other", "nowhere"), In("inline", "nowhere")}
              \cup {In(t, "packs") : t \in {"named", "merge_named", "list"}}
              \cup {In("include", f) : f \in {"pack", "bare", "names", "out"}}

WiringCases == [sound : BOOLEAN, keys : SeqOf(Values, 3), packages : Packages]
=============================================================================
