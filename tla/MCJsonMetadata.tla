--------------------------- MODULE MCJsonMetadata ---------------------------
(***************************************************************************)
(* A small instance of JsonMetadata: three containers that may be nested   *)
(* one level too deep, in each other and in themselves.                    *)
(***************************************************************************)
EXTENDS JsonMetadata

CONSTANTS root, middle, innermost

Nodes == {root, middle, innermost}

Scalar(type, value) == [type |-> type, value |-> value]
Scalars == {Scalar("int", 3), Scalar("int", 4), Scalar("bool", 1), Scalar("nan", 0)}

Text(t) == [type |-> "str", text |-> t]
Number(t) == [type |-> "int", text |-> t]
First == [position |-> 1]

NamesAndPositions == {Text("j"), Text("k"), Number("1"), First}

Holding(form, key, x) == [form |-> form, items |-> [k \in {key} |-> x]]

Built ==
    {[form |-> "list", items |-> << >>], Holding("dict", Number("1"), Scalar("int", 3)),
     Holding("tuple", First, Scalar("int", 3)), Holding("proxy", Text("j"), innermost)}
        \cup {Holding("list", First, x) : x \in {innermost} \cup (Scalars \ {Scalar("bool", 1)})}
        \cup {Holding("dict", Text("j"), x) : x \in Nodes}
        \cup {[form |-> "dict", items |-> [k \in {Text("j"), Text("k")} |->
                  IF k = Text("j") THEN middle ELSE Scalar("bool", 1)]]}
=============================================================================
