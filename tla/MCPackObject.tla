---------------------------- MODULE MCPackObject ----------------------------
(***************************************************************************)
(* An instance of PackObject: lengths and offsets at the limits of the     *)
(* codings, alone and two by two.                                          *)
(***************************************************************************)
EXTENDS PackObject

Copies == [from : {"parent"}, offset : {0, 1, 257, 65536, 16777216}, length : {1, 256, 65536, 65793}]
Data == [from : {"delta"}, data : {<<0>>, <<255, 145>>, [i \in 1..127 |-> 128 + i]}]

ScriptSet == {<<p>> : p \in Copies \cup Data}
    \cup {<<p, q>> : p \in Copies \cup Data, q \in Data \cup {c \in Copies : c.offset = 257}}

Objects == [type : {0, 1, 2, 3, 4, 6}, length : {0, 15, 16, 2047, 2048, 262143, 262144, 16777216}]
=============================================================================
