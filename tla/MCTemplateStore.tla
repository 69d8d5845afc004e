-------------------------- MODULE MCTemplateStore --------------------------
(* The instance of TemplateStore whose create is confirmed by another entity. *)
EXTENDS TemplateStore

Sensor(uid, name, ok) == [uid |-> uid, name |-> name, dom |-> "sensor", ok |-> ok]

\* The bad one is called what the other one is called.
Namesake == {Sensor("a", "A", TRUE), Sensor("b", "A", FALSE)}

NamesakeBlocks == {[trig |-> FALSE, keys |-> {"sensor"},
                    list |-> <<[dom |-> "sensor", item |-> Sensor("a", "A", TRUE)]>>]}
=============================================================================
