--------------------------- MODULE MCSchemaRegistry ---------------------------
(* Instance for TLC: two subjects and four definitions, of two types, one of   *)
(* them malformed; ids 1 and 2 are produced alone and in batches, and 0 is what a  *)
(* batch with a small base offset starts with.                                *)
EXTENDS SchemaRegistry, TLC

Symmetric == Permutations(Subjects)

MCDefinitions == {"user", "order", "array", "bad"}
MCTypeOf(d) == IF d = "array" THEN "Json" ELSE "Avro"
MCParses(d) == d # "bad"
MCTopName(d) == CASE d = "user" -> "User" [] d = "order" -> "Order" [] OTHER -> "none"
MCReferences == {<<>>}

Value(null, lead) == [null |-> null, lead |-> lead]
Bytes(empty, lead, batch, values) ==
    [empty |-> empty, lead |-> lead, batch |-> batch, values |-> values]
MCPayloads == {Bytes(TRUE, {}, FALSE, {}), Bytes(FALSE, {}, FALSE, {}),
               Bytes(FALSE, {1}, FALSE, {}), Bytes(FALSE, {0}, TRUE, {Value(FALSE, {1})}),
               Bytes(FALSE, {}, TRUE, {Value(FALSE, {1}), Value(FALSE, {2}), Value(TRUE, {})}),
               Bytes(FALSE, {}, TRUE, {Value(FALSE, {})})}
==============================================================================
