----------------------------- MODULE MCResolver -----------------------------
(* Documents for Resolver: configuration.yaml, "conf", includes two files and *)
(* a directory that includes one another, and paths that are missing, denied, *)
(* empty or tagged as nobody knows.                                           *)
EXTENDS Sequences, SequencesExt

N(key, tag, to)  == [key |-> key, tag |-> tag, to |-> to]
Doc(kind, nodes) == [kind |-> kind, nodes |-> nodes]

MCMembers == [d \in {"d", "gone", "out"} |-> IF d = "d" THEN <<"a", "secrets", "b">> ELSE <<>>]
MCStem    == [f \in {"a", "b"} |-> f]

INSTANCE Resolver WITH
  Missing <- {"missing"}, Denied <- {"out"}, Members <- MCMembers,
  Secrets <- {"secrets"}, Stem <- MCStem

Firsts == {N("k", t, "d") : t \in DirTags} \cup {N("k", "include", f) : f \in {"a", "conf"}}
            \cup {N("k", "merge_named", "gone")}
Others == {N("l", "include", f) : f \in {"a", "b", "missing", "out"}}
            \cup {N("l", "leaf", ""), N("l", "new", "a"), N("l", "list", "out")}
Inner  == {N("k", "include", "b"), N("k", "include", "conf"), N("k", "leaf", "")}
Ends   == {N("k", "leaf", ""), N("k", "include", "a")}

Docs(firsts) ==
  {Doc("other", <<>>)}
    \cup {Doc(kind, <<x>>) : kind \in {"map", "list"}, x \in firsts}
    \cup {Doc("map", <<x, N("l", "leaf", "")>>) : x \in firsts}

Confs == {Doc("map", <<x>>) : x \in Firsts} \cup {Doc("map", <<x, y>>) : x \in Firsts, y \in Others}

ResolverCases == [conf : Confs, a : Docs(Inner), b : Docs(Ends)]
=============================================================================
