------------------------------- MODULE Splice -------------------------------
(***************************************************************************)
(* surgical.save_entry: one entry of a YAML list or mapping is replaced,   *)
(* deleted or appended by changing its own lines - or, when that cannot be *)
(* shown to give the meant content, by writing the whole file anew.        *)
(*                                                                         *)
(* A file is a sequence of lines.  A "head" begins an entry; "body" and    *)
(* "bar" continue it, a bar opening a block scalar; a "hash" line starts   *)
(* with #: content in a block scalar when it is deep enough, else a        *)
(* comment; and there are blank lines.  A head may define an anchor or be  *)
(* an alias, and has a key; the other lines' key is 0.  at is the line's   *)
(* number in the file as read, 0 for what is emitted.                      *)
(***************************************************************************)
EXTENDS Naturals, Sequences, FiniteSets, SequencesExt, FiniteSetsExt, Functions

Line(kind, key, ref, deep, at) ==
  [kind |-> kind, key |-> key, ref |-> ref, deep |-> deep, at |-> at]

LineType ==
  [kind : {"head", "body", "bar", "hash", "blank"}, key : Nat, ref : {"", "def", "use"},
   deep : BOOLEAN, at : Nat]

\* What an entry says, by the kinds of its lines: a hash is content only in a
\* block scalar.
Content ==
  {c \in Seq({"body", "bar", "hash"}) :
     \A i \in DOMAIN c : c[i] = "hash" =>
       \E b \in 1 .. i - 1 : c[b] = "bar" /\ \A j \in b + 1 .. i - 1 : c[j] = "hash"}

EntryType == [key : Nat, content : Content]

-----------------------------------------------------------------------------
(* YAML, as far as it matters (external: ruamel) *)

\* A finite set of numbers, in order.
Sorted(S) ==
  CHOOSE s \in Bijection(1 .. Cardinality(S), S) : \A i, j \in DOMAIN s : i < j => s[i] < s[j]

Heads(lines) == {i \in DOMAIN lines : lines[i].kind = "head"}

\* Blank lines and deep hashes do not end a block scalar.
InBlock(lines, i) ==
  \E b \in 1 .. i - 1 :
    /\ lines[b].kind = "bar"
    /\ \A j \in b + 1 .. i - 1 :
         lines[j].kind = "blank" \/ (lines[j].kind = "hash" /\ lines[j].deep)

IsContent(lines, i) ==
  \/ lines[i].kind \in {"body", "bar"}
  \/ lines[i].kind = "hash" /\ lines[i].deep /\ InBlock(lines, i)

\* The content lines of the entry that begins at line h.
Under(lines, h) ==
  {i \in h + 1 .. Len(lines) : IsContent(lines, i) /\ \A j \in h + 1 .. i : lines[j].kind # "head"}

ContentOf(lines, h) ==
  LET s == Sorted(Under(lines, h)) IN [n \in DOMAIN s |-> lines[s[n]].kind]

\* The definitions an alias at line h can stand for: the last one counts.
Anchors(lines, h) == {g \in Heads(lines) : g < h /\ lines[g].ref = "def"}

IsYaml(lines) ==
  /\ \A i \in DOMAIN lines : IsContent(lines, i) => \E h \in Heads(lines) : h < i
  /\ \A h \in Heads(lines) : lines[h].ref = "use" => Anchors(lines, h) # {}

Parse(lines) ==
  LET s == Sorted(Heads(lines))
      source(h) == IF lines[h].ref = "use" THEN Max(Anchors(lines, h)) ELSE h
  IN  [n \in DOMAIN s |-> [key |-> lines[s[n]].key, content |-> ContentOf(lines, source(s[n]))]]

Emit(e) ==
  <<Line("head", e.key, "", FALSE, 0)>>
    \o [i \in DOMAIN e.content |-> Line(e.content[i], 0, "", TRUE, 0)]

\* yaml.dump of the whole tree: entry after entry, here with blank lines after
\* each that bring all to one height.
Dump(data) ==
  LET height == Max({Len(Emit(data[n])) : n \in DOMAIN data} \cup {0})
      entry(p) == CHOOSE n \in DOMAIN data : p \in (n - 1) * height + 1 .. n * height
      text(e, i) == IF i \in DOMAIN Emit(e) THEN Emit(e)[i] ELSE Line("blank", 0, "", FALSE, 0)
  IN  [p \in 1 .. Len(data) * height |-> text(data[entry(p)], p - (entry(p) - 1) * height)]

-----------------------------------------------------------------------------
(* The splice *)

\* A file as it is found.  starts: the entries' first lines can be told, and the
\* edited one is among them; not so with a comment between a dash and what it
\* stands before, with two entries on a line, with a list entry that is an alias,
\* whose mark is its anchor's, or with a key that is no string.
File == {f \in [lines : Seq(LineType), flow : BOOLEAN, starts : BOOLEAN, eol : BOOLEAN] :
           /\ IsYaml(f.lines) /\ \A i \in DOMAIN f.lines : f.lines[i].at = i
           /\ f.starts \/ Heads(f.lines) # {}}

\* What a route does to it: where is the entry's place among the entries.

Edit == [kind : {"replace", "delete", "append"}, where : Nat, entry : EntryType]

\* An entry is there to be replaced or deleted.
Case == {c \in [file : File, edit : Edit] :
           c.edit.kind # "append" => c.edit.where \in 1 .. Cardinality(Heads(c.file.lines))}

\* _entry_line_starts where it can tell, and the limit that is passed to _content_end.
Start(lines, where) == Sorted(Heads(lines))[where]
Limit(lines, where) ==
  IF where < Cardinality(Heads(lines)) THEN Start(lines, where + 1) - 1 ELSE Len(lines)

\* Mutant of ContentEnd: what lies before the next entry goes with this one.
ContentEndAtLimit(lines, first, last) == last

\* The last line that is neither blank nor starts with #.
ContentEnd(lines, first, last) ==
  Max({i \in first .. last : lines[i].kind \notin {"blank", "hash"}} \cup {first - 1})

\* _entry_block: trailing comments of the emitted entry are dropped - or what
\* looks like one.
EntryBlock(e) == SubSeq(Emit(e), 1, ContentEnd(Emit(e), 1, Len(Emit(e))))

\* Mutant of AppendTo: no line ending is added where the file has none.
AppendToGlued(file, block) ==
  IF file.eol \/ file.lines = <<>> THEN file.lines \o block
  ELSE Front(file.lines) \o Tail(block)

\* _append.
AppendTo(file, block) == file.lines \o block

\* _splice.
Spliced(file, edit) ==
  LET lines == file.lines
      first == Start(lines, edit.where)
      end   == ContentEnd(lines, first, Limit(lines, edit.where))
      block == IF edit.kind = "delete" THEN <<>> ELSE EntryBlock(edit.entry)
  IN  IF edit.kind = "append" THEN AppendTo(file, block)
      ELSE SubSeq(lines, 1, first - 1) \o block \o SubSeq(lines, end + 1, Len(lines))

\* Mutant of ParsesBack: the spliced text is trusted.
ParsesBackAlways(lines, data) == TRUE

\* _parses_back_to; a text with no entry at all parses to null, not to an empty
\* list.
ParsesBack(lines, data) ==
  IsYaml(lines) /\ Heads(lines) # {} /\ Parse(lines) = data

\* What the route did to the parsed tree.
Edited(data, edit) ==
  CASE edit.kind = "append"  -> Append(data, edit.entry)
    [] edit.kind = "delete"  -> RemoveAt(data, edit.where)
    [] edit.kind = "replace" -> [data EXCEPT ![edit.where] = edit.entry]

\* save_entry: the lines written, and whether they are the spliced ones.
Saved(file, edit) ==
  LET data  == Edited(Parse(file.lines), edit)
      lines == Spliced(file, edit)
  IN  IF ~file.flow /\ file.starts /\ ParsesBack(lines, data)
      THEN [lines |-> lines, surgical |-> TRUE]
      ELSE [lines |-> Dump(data), surgical |-> FALSE]

-----------------------------------------------------------------------------
(* Properties of a file and an edit *)

\* "the splice can only ever change *formatting*, never content".
ContentIsMeant(file, edit) ==
  Parse(Saved(file, edit).lines) = Edited(Parse(file.lines), edit)

\* The lines that make up an entry: from its head to its last content line.
Own(lines, where) ==
  LET h == Start(lines, where)
  IN  {i \in DOMAIN lines : \E n \in Under(lines, h) \cup {h} : i \in h .. n}

\* INVARIANTS.md C-14: "change one entry's lines in the file and leave every
\* other byte exactly as it was" - comments and blank lines between entries
\* among them, in their order.
OthersKeepTheirLines(file, edit) ==
  LET own == IF edit.kind = "append" THEN {} ELSE Own(file.lines, edit.where)
      new == Saved(file, edit).lines
  IN  Saved(file, edit).surgical =>
        /\ \A i \in DOMAIN file.lines \ own : \E j \in DOMAIN new : new[j] = file.lines[i]
        /\ \A i, j \in {n \in DOMAIN new : new[n].at > 0} : i < j => new[i].at < new[j].at

\* A file whose entries each begin on a line of their own, with neither flow style,
\* nor anchors, nor a block scalar that ends in what looks like a comment, is never
\* written anew.
PlainIsSurgical(file, edit) ==
  /\ ~file.flow /\ file.starts /\ Edited(Parse(file.lines), edit) # <<>>
  /\ \A l \in Range(file.lines) : l.ref = "" /\ (l.kind = "hash" => ~l.deep)
  /\ "hash" \notin Range(edit.entry.content)
  => Saved(file, edit).surgical
=============================================================================
