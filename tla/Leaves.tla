------------------------------- MODULE Leaves -------------------------------
(***************************************************************************)
(* surgical.splice_leaves: ref replace rewrites single scalars where they  *)
(* stand in the text.                                                      *)
(*                                                                         *)
(* A file is its scalars' texts, and for every leaf of the parsed tree the *)
(* scalar it is read from: several leaves share one through an alias, and  *)
(* a leaf merged in (<<: *base) has none that its own path leads to, but   *)
(* shares one that another leaf's does.  A text is a sequence of tokens:   *)
(*   "old", "new"  the target and its replacement, "word" anything else    *)
(*   "split"       the target broken by an escape, whole in the value only *)
(*   "anchor"      an anchor named like the target, in the text only       *)
(*   "narrow"      a style that cannot hold the replacement: quotes it     *)
(*                 ends, a plain scalar it turns into a date that is none  *)
(*   "header"      a block scalar's first line, which may hold the target  *)
(*                 in a comment                                            *)
(* A part of a text, and a value, is a function from the positions of the  *)
(* tokens it is made of: rewriting moves none.                             *)
(***************************************************************************)
EXTENDS Naturals, Sequences, FiniteSets, Functions

Token == {"old", "new", "word", "split", "anchor", "narrow", "header"}

\* The texts of a file as it is found.
Text == {t \in Seq(Token) : \A i \in DOMAIN t : t[i] = "header" => i = 1}

File == {f \in [texts : Seq(Text), leaves : Seq([reads : Nat, merged : BOOLEAN])] :
           \A l \in DOMAIN f.leaves : f.leaves[l].reads \in DOMAIN f.texts}

\* What the parser makes of a text (external: ruamel); "fresh" is an anchor
\* renamed, which nothing aliases; a replacement that its style cannot hold is
\* read as anything but itself, or not at all.
ValueOf(text) ==
  [i \in {j \in DOMAIN text : text[j] \notin {"anchor", "fresh", "narrow", "header"}} |->
     CASE text[i] = "split"                           -> "old"
       [] text[i] = "new" /\ "narrow" \in Range(text) -> "broken"
       [] OTHER                                       -> text[i]]

Occurrences(text) == Cardinality({i \in DOMAIN text : text[i] \in {"old", "anchor", "header"}})

\* rewrite: every whole-token match in a piece of text.
Rewritten(text) ==
  [i \in DOMAIN text |-> CASE text[i] = "old"    -> "new"
                           [] text[i] = "anchor" -> "fresh"
                           [] text[i] = "header" -> "note"
                           [] OTHER              -> text[i]]

\* The tree: what each leaf reads as, and after _replace_tree.
Values(file)  == [l \in DOMAIN file.leaves |-> ValueOf(file.texts[file.leaves[l].reads])]
Replaced(file) == [l \in DOMAIN file.leaves |-> Rewritten(Values(file)[l])]

\* _replace_tree: the leaves that hold the target.
Changed(file) == {l \in DOMAIN file.leaves : "old" \in Range(Values(file)[l])}

\* _node_at: the scalars the changed leaves' paths lead to, each once.
Spans(file) == {file.leaves[l].reads : l \in {k \in Changed(file) : ~file.leaves[k].merged}}

\* Mutant of BodyStart: a block scalar's header is content.
BodyStartAtHeader(text) == 1

\* _scalar_body_start.
BodyStart(text) == IF text # <<>> /\ Head(text) = "header" THEN 2 ELSE 1

Body(text) == Restrict(text, {i \in DOMAIN text : i >= BodyStart(text)})

\* Mutant of CountsAgree: any substitution will do.
CountsAgreeEnough(text) == Occurrences(Body(text)) > 0

\* As many substitutions in the text as in the value.
CountsAgree(text) ==
  /\ Occurrences(Body(text)) > 0
  /\ Occurrences(Body(text)) = Occurrences(ValueOf(text))

SpliceText(text) ==
  [i \in DOMAIN text |-> IF i \in DOMAIN Body(text) THEN Rewritten(Body(text))[i] ELSE text[i]]

Spliced(file) ==
  [file EXCEPT !.texts = [s \in DOMAIN @ |-> IF s \in Spans(file) THEN SpliceText(@[s]) ELSE @[s]]]

\* Mutant of SpliceLeaves: the spliced text is not parsed again.
SpliceLeavesUnread(file) ==
  {f \in {Spliced(file)} : Spans(file) # {} /\ \A s \in Spans(file) : CountsAgree(file.texts[s])}

\* splice_leaves: at most one file, none when it has to be dumped whole.
SpliceLeaves(file) ==
  {f \in {Spliced(file)} : /\ Spans(file) # {}
                           /\ \A s \in Spans(file) : CountsAgree(file.texts[s])
                           /\ Values(f) = Replaced(file)}

-----------------------------------------------------------------------------
(* Properties of a file *)

\* INVARIANTS.md C-14: only the bytes of the matching scalars change.  A spliced
\* file reads as the tree that was meant, and what changed is the target, where a
\* value reads it - no anchor, no comment, no text of a leaf that does not hold it.
OnlyValuesChange(file) ==
  \A f \in SpliceLeaves(file) :
    /\ Values(f) = Replaced(file)
    /\ \A s \in DOMAIN file.texts : \A i \in DOMAIN file.texts[s] :
         f.texts[s][i] # file.texts[s][i] => <<file.texts[s][i], f.texts[s][i]>> = <<"old", "new">>

\* A file whose texts are plain and can hold the replacement - a comment in a block
\* scalar's header or a shared scalar is no reason - is not dumped whole.
PlainIsSpliced(file) ==
  /\ Changed(file) # {}
  /\ \A s \in DOMAIN file.texts : Range(file.texts[s]) \cap {"split", "anchor", "narrow"} = {}
  /\ \A l \in DOMAIN file.leaves : file.leaves[l].merged =>
       \E k \in DOMAIN file.leaves : file.leaves[k] = [reads |-> file.leaves[l].reads, merged |-> FALSE]
  => SpliceLeaves(file) # {}
=============================================================================
