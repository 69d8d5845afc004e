------------------------------ MODULE MCSplice ------------------------------
(* Files and edits for Splice: up to two entries, a comment before, between   *)
(* and after them, blank lines, block scalars that end in what looks like a   *)
(* comment, an anchor and its alias, a flow collection, no final line ending. *)
EXTENDS Sequences, SequencesExt, Splice

E(key, content) == [key |-> key, content |-> content]

Contents  == {<<"body">>, <<"bar", "hash">>, <<"body", "bar">>}
Trailers  == {<<>>, <<"note">>, <<"blank", "note">>}

TextLine(k) == IF k = "note" THEN Line("hash", 0, "", FALSE, 0) ELSE Line(k, 0, "", TRUE, 0)
TextOf(kinds) == [i \in DOMAIN kinds |-> TextLine(kinds[i])]

TextOfEntry(key, ref, content, trailer) ==
  <<Line("head", key, ref, FALSE, 0)>> \o TextOf(content) \o TextOf(trailer)

Numbered(lines) == [i \in DOMAIN lines |-> [lines[i] EXCEPT !.at = i]]

First  == {<<>>} \cup {TextOfEntry(1, ref, c, t) : ref \in {"", "def"}, c \in Contents, t \in Trailers}
Second == {<<>>, TextOfEntry(2, "use", <<>>, <<>>)} \cup {TextOfEntry(2, "", c, t) : c \in Contents, t \in Trailers}

Texts == {Numbered(TextOf(top) \o x \o y) : top \in {<<>>, <<"note">>}, x \in First, y \in Second}

\* Files the splice may handle, and one of each whose entries' lines cannot be told.
SpliceFiles ==
  {f \in [lines : Texts, flow : BOOLEAN, starts : {TRUE}, eol : BOOLEAN]
            \cup [lines : Texts, flow : {FALSE}, starts : {FALSE}, eol : {TRUE}] :
     IsYaml(f.lines) /\ (f.starts \/ Heads(f.lines) # {})}

Edits ==
  [kind : {"replace"}, where : 1 .. 2, entry : {E(3, c) : c \in Contents}]
    \cup [kind : {"delete"}, where : 1 .. 2, entry : {E(3, <<>>)}]
    \cup [kind : {"append"}, where : {0}, entry : {E(3, c) : c \in Contents}]

\* An entry is there to be replaced or deleted.
SpliceCases ==
  {s \in [file : SpliceFiles, edit : Edits] :
     s.edit.kind = "append" \/ s.edit.where <= Cardinality(Heads(s.file.lines))}
=============================================================================
