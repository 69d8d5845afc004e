------------------------------ MODULE MCLeaves ------------------------------
(* Files for Leaves: two scalars with an anchor, a block header or a style    *)
(* too narrow for the replacement before up to two tokens, read by three      *)
(* leaves, one of them an alias or merged in.                                 *)
EXTENDS Sequences, SequencesExt, Leaves

Scalars == {start \o rest : start \in {<<>>, <<"header">>, <<"anchor">>, <<"narrow">>},
                            rest \in SeqOf({"old", "word", "split"}, 2)}

Leaf(span, merged) == [reads |-> span, merged |-> merged]

LeavesCases ==
  [texts  : [1 .. 2 -> Scalars],
   leaves : {<<Leaf(1, FALSE), Leaf(s, m), Leaf(2, FALSE)>> : s \in 1 .. 2, m \in BOOLEAN}]
=============================================================================
