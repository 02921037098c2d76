--------------------------- MODULE MCObjectTransfer ---------------------------
(* Instances of ObjectTransfer for TLC. *)
EXTENDS ObjectTransfer

CONSTANTS me, first, second

Three == <<1, 2, 3>>
Two == <<4, 5>>
Both == <<first, second>>
One == <<second>>

\* One node is reliable and pulls keep objects; one is reliable while the other
\* may be adding the object; none is reliable.
Mixed == {[reliable |-> {second}, inPlace |-> {}, keeps |-> TRUE],
          [reliable |-> {second}, inPlace |-> {first}, keeps |-> FALSE],
          [reliable |-> {}, inPlace |-> {}, keeps |-> FALSE]}
Keeping == {[reliable |-> {second}, inPlace |-> {}, keeps |-> TRUE]}
===============================================================================
