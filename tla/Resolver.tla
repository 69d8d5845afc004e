------------------------------ MODULE Resolver ------------------------------
(***************************************************************************)
(* yaml_resolver.YamlResolver: one file of the configuration with          *)
(* everything it includes in its place.                                    *)
(*                                                                         *)
(* A document is [kind, nodes]: a mapping or a list, or an empty or scalar *)
(* document; nodes are its values, each with its key, tag and target.  Of  *)
(* the result, what matters here is which files' text stands where: a      *)
(* result is [kind, at, from], at[k] the files that make up the value      *)
(* under k, from those that make up all of it.                             *)
(***************************************************************************)
EXTENDS Naturals, Sequences, SequencesExt, Relation

CONSTANTS
  Missing, \* paths where there is no file
  Denied,  \* paths _check_path refuses
  Members, \* Members[dir]: what include_dir_files lists; a path that is no
           \* directory has none
  Secrets, \* file names is_denied skips in a directory
  Stem     \* Stem[f]: the file's name, a key of !include_dir_named

DirTags  == {"named", "list", "merge_named", "merge_list"}
Plain    == {"leaf", "preserved"} \* _resolve_tag's third track: kept as text

Result(kind, at, from) == [kind |-> kind, at |-> at, from |-> from]

\* A resolution under way: the visited set, the error that ends it ("" while
\* there is none), and what came out so far, value by value.
Step(visited, err, out) == [visited |-> visited, err |-> err, out |-> out]

Fails(visited, err) == Step(visited, err, <<>>)

\* Mutant of Leave: a file once visited stays visited.
LeaveNot(visited, f) == visited

\* visited.discard, when a file is done.
Leave(visited, f) == visited \ {f}

\* The values of a document of this kind under their keys, from[i] the files
\* value i is made of.
Assemble(f, kind, nodes, values) ==
  LET from(i) == {f} \cup values[i].from
      all     == {f} \cup UNION {from(i) : i \in DOMAIN nodes}
  IN  CASE kind = "map"  ->
             Result("map", [k \in {nodes[i].key : i \in DOMAIN nodes} |->
                              from(CHOOSE i \in DOMAIN nodes : nodes[i].key = k)], all)
        [] kind = "list" -> Result("list", [i \in DOMAIN nodes |-> from(i)], all)
        [] OTHER         -> Result("other", <<>>, {f})

Union(values) == UNION {v.from : v \in ToSet(values)}

\* dict.update.
Overwrite(acc, v) ==
  [k \in DOMAIN acc \cup DOMAIN v.at |-> IF k \in DOMAIN v.at THEN v.at[k] ELSE acc[k]]

Joined(kind, at) == Result(kind, at, UNION {at[k] : k \in DOMAIN at})

\* Mutant of MergeNamed: the first file's key stays.
MergeNamedFirst(maps) == Joined("map", FoldLeft(Overwrite, <<>>, Reverse(maps)))

\* A key defined in two files is the later file's.
MergeNamed(maps) == Joined("map", FoldLeft(Overwrite, <<>>, maps))

\* _include_dir_named, _list, _merge_list and _merge_named, from the members'
\* results; a merge drops the members of the other shape.
Combine(tag, files, values) ==
  LET Of(kind) == SelectSeq(values, LAMBDA v : v.kind = kind)
  IN  CASE tag = "named" ->
             Joined("map", [k \in {Stem[f] : f \in ToSet(files)} |->
                              values[CHOOSE i \in DOMAIN files : Stem[files[i]] = k].from])
        [] tag = "list"       -> Joined("list", [i \in DOMAIN values |-> values[i].from])
        [] tag = "merge_list" -> Joined("list", FlattenSeq([i \in DOMAIN Of("list") |-> Of("list")[i].at]))
        [] OTHER              -> MergeNamed(Of("map"))

\* Mutant of Listed: only the directory's first file.
ListedOne(dir) == SubSeq(Members[dir], 1, 1)

\* include_dir_files, without the denied names.
Listed(dir) == SelectSeq(Members[dir], LAMBDA f : f \notin Secrets)

\* _resolve_file, for one file after another until one fails.
RECURSIVE Resolve(_, _, _)
Resolve(docs, files, visited) ==
  LET ResolveNode(step, n) ==
        LET Keep(s, v) == Step(s.visited, s.err, Append(step.out, v))
            leaf       == Result("other", <<>>, {})
            inner      == Resolve(docs, Listed(n.to), step.visited)
            file       == Resolve(docs, <<n.to>>, step.visited)
        IN  IF step.err # "" THEN step
            ELSE IF n.tag \in Plain THEN Keep(step, leaf)
            ELSE IF n.tag \notin DirTags \cup {"include"} THEN Fails(step.visited, "unknown")
            ELSE IF n.to \in Denied THEN Fails(step.visited, "denied")
            ELSE IF n.tag \in DirTags
              THEN IF inner.err # "" THEN inner ELSE Keep(inner, Combine(n.tag, Listed(n.to), inner.out))
            ELSE IF n.to \in Missing THEN Fails(step.visited, "missing")
            ELSE IF file.err # "" THEN file
            ELSE Keep(file, file.out[1])
      ResolveFile(step, f) ==
        LET doc   == docs[f]
            inner == FoldLeft(ResolveNode, Step(step.visited \cup {f}, "", <<>>), doc.nodes)
        IN  IF step.err # "" THEN step
            ELSE IF f \in Denied THEN Fails(step.visited, "denied")
            ELSE IF f \in step.visited THEN Fails(step.visited, "circular")
            ELSE IF inner.err # "" THEN inner
            ELSE Step(Leave(inner.visited, f), "",
                      Append(step.out, Assemble(f, doc.kind, doc.nodes, inner.out)))
  IN  FoldLeft(ResolveFile, Step(visited, "", <<>>), files)

\* load(f, resolve=True), f a file.
Load(docs, f) == Resolve(docs, <<f>>, {})

-----------------------------------------------------------------------------
(* Properties of a set of documents *)

Leads(n) == CASE n.tag \in DirTags /\ n.to \notin Denied -> ToSet(Members[n.to]) \ Secrets
              [] n.tag = "include"                       -> {n.to}
              [] OTHER                                   -> {}

Graph(docs) ==
  TransitiveClosure([f, g \in DOMAIN docs |-> \E n \in ToSet(docs[f].nodes) : g \in Leads(n)],
                    DOMAIN docs)

Below(docs, f) == {f} \cup {g \in DOMAIN docs : Graph(docs)[f, g]}

NodesBelow(docs, f) == UNION {ToSet(docs[g].nodes) : g \in Below(docs, f)}

\* What may go wrong somewhere below f.
Reasons(docs, f) ==
  {r \in {"circular", "unknown", "denied", "missing"} :
     CASE r = "circular" -> \E g \in Below(docs, f) : Graph(docs)[g, g]
       [] r = "unknown"  -> \E n \in NodesBelow(docs, f) : n.tag \notin DirTags \cup Plain \cup {"include"}
       [] r = "denied"   -> \E n \in NodesBelow(docs, f) :
                              \/ n.tag \in DirTags \cup {"include"} /\ n.to \in Denied
                              \/ Leads(n) \cap Denied # {}
       [] r = "missing"  -> \E n \in NodesBelow(docs, f) : n.tag = "include" /\ n.to \in Missing}

\* A file included twice is no cycle; whatever is wrong below is an error, of a
\* kind that is there ("Degrading was the bug; failing loudly is the fix").
ErrorsAreReal(docs, f) ==
  LET err == Load(docs, f).err IN
  IF Reasons(docs, f) = {} THEN err = "" ELSE err \in Reasons(docs, f)

\* _include_dir_merge_named: "A key defined in two files is the later file's
\* value, whole"; and a merge takes nothing from files of the other shape.
MergesAreShallow(docs, f) ==
  LET top      == Head(docs[f].nodes)
      Doc(g)   == Load(docs, g).out[1]
      maps     == SelectSeq(Listed(top.to), LAMBDA g : Doc(g).kind = "map")
      Winner(k) == maps[SelectLastInSeq(maps, LAMBDA g : k \in DOMAIN Doc(g).at)]
      keys     == UNION {DOMAIN Doc(g).at : g \in ToSet(maps)}
  IN  docs[f].nodes # <<>> /\ top.tag = "merge_named" /\ Load(docs, f).err = "" =>
        Doc(f).at[top.key] =
          {f} \cup UNION {Doc(Winner(k)).at[k] : k \in keys}

\* Without merges, every file below is in the answer: nothing is left out
\* without an error.
NothingIsLost(docs, f) ==
  LET r == Load(docs, f) IN
  r.err = "" /\ (\A n \in NodesBelow(docs, f) : n.tag \notin {"merge_named", "merge_list"})
    => r.out[1].from = Below(docs, f)
=============================================================================
