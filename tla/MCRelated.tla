----------------------------- MODULE MCRelated ------------------------------
(* Configurations for Related: automations in a list, in files of their own,   *)
(* inline and in packages, at indices 1 and 10, beside keys that begin alike,  *)
(* under labels of two words, and other things that are called automation;     *)
(* and registries of three entities, two config entries and a device.          *)
EXTENDS Sequences, TLC

H == <<"h">>               \* homeassistant
P == <<"p">>               \* packages
A == <<"a">>               \* automation
U == <<"a", " ", "u">>     \* automation ui
L == <<"a", " ", "u", " ", "v">> \* automation ui old
R == <<"r">>               \* rest_command
S == <<"a", "s">>          \* automations, which is no automation key
K == <<"k">>               \* a package
E == <<"e">>               \* entity_id, in an automation
I1  == <<"[", "1", "]">>
I10 == <<"[", "1", "0", "]">>

MCStem       == [f \in {"m", "n"} |-> <<f>>]
MCMembers    == [d \in {"dir"} |-> <<"m", "n">>]
MCRegistered == [id \in {"1"} |-> "t"]

INSTANCE Related WITH
  Root <- "root", HaKeys <- {A, U, L}, AutoKeys <- {A, U}, Packages <- <<H, P>>, Index <- <<I1, I10>>,
  Stem <- MCStem, Members <- MCMembers, Registered <- MCRegistered

Dict(path, id, alias) == [path |-> path, id |-> id, alias |-> alias]

\* Two automations; the second one is the entity asked about.
Two(path) == {Dict(Append(path, I1), "", "x"), Dict(Append(path, I10), "1", "y")}

Tree(root, dicts, includes) == [root |-> root, dicts |-> dicts, includes |-> includes]

\* Nothing, everything or one automation mentions the entity.
Hitting(tree, hits) ==
  [root |-> tree.root, dicts |-> tree.dicts, includes |-> tree.includes, hits |-> hits]
WithHits(trees) ==
  UNION {{Hitting(t, {}), Hitting(t, {d.path \o <<E, I1>> : d \in t.dicts})}
           \cup {Hitting(t, {Append(d.path, E)}) : d \in t.dicts} : t \in trees}

ListFile == Tree("list", Two(<<>>), <<>>)
OneFile  == Tree("map", {Dict(<<>>, "2", "z")}, <<>>)
PackList == Tree("map", Two(<<A>>) \cup {Dict(<<S>>, "", "s")}, <<>>)
PackOne  == Tree("map", {Dict(<<A>>, "", "z"), Dict(<<S>>, "", "s")}, <<>>)

Inc(path, tag, to) == [path |-> path, tag |-> tag, to |-> to]

Includes == {<<>>, <<Inc(<<A>>, "!include", "f")>>, <<Inc(<<H, P, K>>, "!include", "f")>>,
             <<Inc(<<A>>, "!include_dir_merge_list", "dir")>>,
             <<Inc(<<U>>, "!include_dir_list", "dir")>>,
             <<Inc(<<H, P>>, "!include_dir_named", "dir")>>}

Roots ==
  {Tree("map", dicts, x \o y) :
     dicts \in {{}, Two(<<U>>), {Dict(<<H, P, K, A>>, "", "w")}}, x \in Includes, y \in Includes}

\* A rest_command called automation, alone and beside automations; automations
\* under a label of two words; a package called automation.
OddRoots ==
  {Tree("map", dicts, x) :
     dicts \in {{Dict(<<R, A>>, "", "r")}, {Dict(<<R, A>>, "", "r")} \cup Two(<<U>>), Two(<<L>>),
               {Dict(<<H, P, A>>, "", ""), Dict(<<H, P, A, A>>, "", "w")}},
     x \in {<<>>, <<Inc(<<A>>, "!include", "f")>>, <<Inc(<<L>>, "!include", "f")>>,
            <<Inc(<<R, A>>, "!include", "f")>>, <<Inc(<<H, P, A>>, "!include", "f")>>}}

\* Home Assistant would accept the file where it is included: a list of
\* automations, one automation, or a package.
Fits(inc, tree) ==
  LET one == \E d \in tree.dicts : d.path = <<>>
  IN  CASE inc.path \notin {<<A>>, <<U>>, <<L>>, <<R, A>>} -> tree.root = "map" /\ ~one
        [] inc.tag = "!include"                  -> tree.root = "list" \/ one
        [] inc.tag = "!include_dir_list"         -> one
        [] OTHER                                 -> tree.root = "list"

Sensible(conf) ==
  \A i \in DOMAIN conf["root"].includes :
    LET inc == conf["root"].includes[i]
    IN  \A k \in DOMAIN Targets(inc) : Fits(inc, conf[Targets(inc)[k]])

Configurations(roots, files, ms, ns) ==
  {conf \in {("root" :> r) @@ ("f" :> f) @@ ("m" :> m) @@ ("n" :> n) :
      r \in WithHits(roots), f \in WithHits(files), m \in WithHits(ms), n \in ns} : Sensible(conf)}

AnyFile == {ListFile, OneFile, PackList, PackOne}

RelatedCases ==
  Configurations(Roots, AnyFile, AnyFile, {Hitting(ListFile, {<<I10, E>>}), Hitting(OneFile, {<<E>>})})
    \cup Configurations(OddRoots, AnyFile, {OneFile}, {Hitting(OneFile, {})})

RegistryCases ==
  [configs  : [{"x", "y", "z"} -> SUBSET {"c1", "c2"}],
   device   : {("x" :> "none") @@ ("y" :> d) @@ ("z" :> d) : d \in {"none", "d"}},
   mentions : {("c1" :> m) @@ ("c2" :> n) : m \in SUBSET {"x", "y", "d"}, n \in {{}, {"x"}, {"z", "d"}}},
   nodes    : {{}, {{"x", "y"}, {"x", "y", "z"}}}]
=============================================================================
