------------------------------- MODULE MCWire -------------------------------
(* Wire for TLC: empty, single and repeated elements, null and present      *)
(* values, both flags, every error code in the answers.                     *)
EXTENDS Wire

MCShapes ==
    {[len |-> n, null |-> none, flag |-> f, error |-> "None"] :
        n \in 0 .. MaxElems, none \in BOOLEAN, f \in {"true", "false"}}

MCErrorShapes ==
    {[len |-> 1, null |-> FALSE, flag |-> "false", error |-> e] : e \in DOMAIN KafkaErrorCode}

MCResponseShapes == MCShapes \cup MCErrorShapes
MCClientIds == {"client", Null}
=============================================================================
