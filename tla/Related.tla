------------------------------- MODULE Related -------------------------------
(***************************************************************************)
(* GET /v1/related/entity: what is related to an entity - the answer people *)
(* look at before they delete one - as far as it is the automations whose  *)
(* configuration mentions the entity (Registries has the registries).      *)
(*                                                                         *)
(* A configuration is a function from files to trees.  A tree says whether *)
(* its root is a list or a map, and holds the dicts that matter in it,     *)
(* the places of the strings that mention the entity, and its !include     *)
(* tags in document order.  A place in a tree is a path: a sequence of     *)
(* segments, each of them the sequence of characters it is written with,   *)
(* an index being <<"[", ..., "]">>.                                       *)
(***************************************************************************)
EXTENDS Naturals, Sequences, SequencesExt, FiniteSetsExt

CONSTANTS Root,          \* configuration.yaml
          HaKeys,        \* segments: automation, with any label
          AutoKeys,      \* those that _AUTOMATION_KEY_RE knows: labels of one word
          Packages,      \* <<homeassistant, packages>>
          Index,         \* Index[i]: the segment for the i-th item of a list
          Stem,          \* Stem[f]: the segment a directory include gives file f
          Members,       \* Members[d]: the files of directory d, in order
          Registered     \* Registered[id]: the registry's entity of automation id

-----------------------------------------------------------------------------
(* What Home Assistant loads (external) *)

Targets(inc) == IF inc.tag = "!include" THEN <<inc.to>> ELSE Members[inc.to]

\* Where the k-th file of an !include lands, in the tree it is included into.
Landing(inc, k) ==
  CASE inc.tag = "!include_dir_list"  -> Append(inc.path, Index[k])
    [] inc.tag = "!include_dir_named" -> Append(inc.path, Stem[Targets(inc)[k]])
    [] OTHER                          -> inc.path

\* Every file of a resolved configuration with the path it lands at.
Mounts(conf) ==
  LET under(m) == {[file |-> Targets(inc)[k], at |-> m.at \o Landing(inc, k)] :
                     <<inc, k>> \in {p \in ToSet(conf[m.file].includes) \X (1 .. 3) :
                                      p[2] \in DOMAIN Targets(p[1])}}
      deeper(ms, n) == ms \cup UNION {under(m) : m \in ms}
  IN  FoldLeft(deeper, {[file |-> Root, at |-> <<>>]}, <<1, 2, 3>>)

\* Whether a place is that of the value of a key, or of an item of it.
IsUnder(at, keyed(_)) ==
  at # <<>> /\ (keyed(at) \/ (Head(Last(at)) = "[" /\ keyed(Front(at))))

\* An automation is under an automation key at top level or in a package.
IsAutomation(at, keys) ==
  IsUnder(at, LAMBDA p : \/ Len(p) = 1 /\ p[1] \in keys
                         \/ Len(p) = 4 /\ SubSeq(p, 1, 2) = Packages /\ p[4] \in keys)

HaAutomations(conf, keys) ==
  UNION {{[file |-> m.file, dict |-> d] :
            d \in {e \in conf[m.file].dicts : IsAutomation(m.at \o e.path, keys)}} : m \in Mounts(conf)}

-----------------------------------------------------------------------------
(* Attribution of a hit to an automation *)

\* The characters of a rendered path.
Render(path) ==
  FlattenSeq([i \in DOMAIN path |->
    IF i = 1 \/ Head(path[i]) = "[" THEN path[i] ELSE <<".">> \o path[i]])

\* Mutant of PathStartsWith: [1] claims what is in [10].
PathStartsWithAnyhow(path, prefix) == IsPrefix(prefix, path)

PathStartsWith(path, prefix) ==
  /\ IsPrefix(prefix, path)
  /\ \/ prefix = <<>> \/ Len(path) = Len(prefix)
     \/ path[Len(prefix) + 1] \in {".", "["}

\* The longest prefix among the blocks, none when no block has one.
OwningBlock(blocks, hit) ==
  LET owners == {b \in blocks : PathStartsWith(Render(hit), Render(b.path))}
  IN  {b \in owners : \A a \in owners : Len(Render(a.path)) <= Len(Render(b.path))}

\* _keyed_automation_nodes: values of automation keys, whatever they are keys of,
\* at any depth but never inside one another.
IsKeyedNode(path) == path # <<>> /\ {i \in DOMAIN path : path[i] \in AutoKeys} = {Len(path)}

AutomationBlocks(tree, kind) ==
  {d \in tree.dicts :
     \/ kind = "list" /\ tree.root = "list" /\ Len(d.path) = 1
     \/ kind \in {"list", "single"} /\ tree.root = "map" /\ d.path = <<>>
     \/ IsUnder(d.path, IsKeyedNode)}

-----------------------------------------------------------------------------
(* The walk *)

\* The files in the order of iter_config_trees: breadth first, each once.
Walk(conf) ==
  LET queue(q, f) == IF f \in DOMAIN conf /\ ~Contains(q, f) THEN Append(q, f) ELSE q
      visit(q, n) ==
        IF n > Len(q) THEN q
        ELSE FoldLeft(queue, q, FlattenSeq([i \in DOMAIN conf[q[n]].includes |->
                                              Targets(conf[q[n]].includes[i])]))
  IN  FoldLeft(visit, <<Root>>, [n \in 1 .. Cardinality(DOMAIN conf) |-> n])

\* _automation_include_kinds: what one tree says of the files its automation
\* keys include.
IncludeKinds(tree) ==
  LET keyed == SelectSeq(tree.includes, LAMBDA inc :
                 IsKeyedNode(inc.path) /\ inc.tag \in {"!include", "!include_dir_merge_list", "!include_dir_list"})
  IN  FlattenSeq([i \in DOMAIN keyed |->
        [k \in DOMAIN Targets(keyed[i]) |->
           [file |-> Targets(keyed[i])[k],
            kind |-> IF keyed[i].tag = "!include_dir_list" THEN "single" ELSE "list"]]])

\* file_kinds when the n-th file of the walk is looked at: the first word stands.
KindOf(conf, order, n) ==
  LET said == SelectSeq(FlattenSeq([i \in 1 .. n |-> IncludeKinds(conf[order[i]])]),
                        LAMBDA x : x.file = order[n])
  IN  IF said = <<>> THEN "none" ELSE said[1].kind

EntityId(dict) == IF dict.id \in DOMAIN Registered THEN Registered[dict.id] ELSE dict.alias

\* automation_references.
AutomationReferences(conf, entity) ==
  LET order == Walk(conf)
      named(n) == UNION {OwningBlock(AutomationBlocks(conf[order[n]], KindOf(conf, order, n)), hit) :
                           hit \in conf[order[n]].hits}
  IN  UNION {{[file |-> order[n], dict |-> d] : d \in {b \in named(n) : EntityId(b) # entity}} :
               n \in DOMAIN order}

-----------------------------------------------------------------------------
(* Properties of a configuration and an entity *)

Mentions(conf, a) == \E hit \in conf[a.file].hits : IsPrefix(a.dict.path, hit)

\* An automation file is reached through the automation key first, as
\* automation_references says it always is.
KindsInTime(conf) ==
  LET order == Walk(conf)
  IN  \A n, m \in DOMAIN order :
        (\E x \in ToSet(IncludeKinds(conf[order[m]])) : x.file = order[n]) => m < n

\* What stands where an automation could, under any key so called - and the
\* automations that one of them hides, in a package called automation.
Lookalikes(conf) ==
  UNION {{[file |-> m.file, dict |-> d] :
            d \in {e \in conf[m.file].dicts :
                     IsUnder(m.at \o e.path, LAMBDA p : p # <<>> /\ Last(p) \in AutoKeys)}} : m \in Mounts(conf)}
Hidden(a) == Cardinality({i \in DOMAIN a.dict.path : a.dict.path[i] \in AutoKeys}) > 1

\* "the useful answer to what breaks if I delete sensor.x is the automation
\* that would break" (related.py): every automation Home Assistant loads that
\* mentions the entity is named - unless its key has a label of several words, or
\* it is hidden - and nothing is named that does not mention it, or that is
\* neither an automation nor under a key called so.  Never the entity itself.
NamesWhatBreaks(conf, entity) ==
  KindsInTime(conf) =>
    LET named == AutomationReferences(conf, entity)
        breaks(as) == {a \in as : Mentions(conf, a) /\ EntityId(a.dict) # entity}
    IN  /\ {a \in breaks(HaAutomations(conf, AutoKeys)) : ~Hidden(a)} \subseteq named
        /\ named \subseteq breaks(HaAutomations(conf, HaKeys) \cup Lookalikes(conf))
=============================================================================
