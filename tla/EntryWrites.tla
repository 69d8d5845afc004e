---------------------------- MODULE EntryWrites ----------------------------
(***************************************************************************)
(* What the single-entry routes promise of a configuration file            *)
(* (INVARIANTS.md, C-14): each write adds, replaces or removes one entry   *)
(* and leaves every other one, and their order, as it was.                 *)
(***************************************************************************)
EXTENDS Naturals, Sequences

CONSTANT Entry
VARIABLE entries

Without(s, i) == SubSeq(s, 1, i - 1) \o SubSeq(s, i + 1, Len(s))

Replace(i, e) == entries' = [entries EXCEPT ![i] = e]
Remove(i)     == entries' = Without(entries, i)
Add(e)        == entries' = Append(entries, e)

Init == entries \in Seq(Entry)

Next ==
  \/ \E i \in DOMAIN entries, e \in Entry : Replace(i, e)
  \/ \E i \in DOMAIN entries : Remove(i)
  \/ \E e \in Entry : Add(e)

Spec == Init /\ [][Next]_entries
=============================================================================
