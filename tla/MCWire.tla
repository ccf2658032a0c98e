------------------------------- MODULE MCWire -------------------------------
(* Instances of Wire for model checking. *)
EXTENDS Wire

\* Values of which no two fields of a message share a byte
Fixed(type, f, seed) ==
    LET at == CHOOSE i \in DOMAIN Writes[type] : Writes[type][i] = f
    IN [i \in 1 .. Width[f] |-> seed + 10 * at + i]
FixedFields(type) == Fields(type) \cap DOMAIN Width

VarFieldsOf(type) == Fields(type) \cap VarFields

\* Messages of a type: two fillings of the fixed fields, two strings, the tags
\* of a header, all combinations of the values of variable length.
Samples(type, values) ==
    {[f \in Fields(type) |->
        IF f = "headerTag" THEN <<80 + (seed % 8)>>
        ELSE IF f = "origin" THEN [i \in 1 .. (1 + (seed % 3)) |-> 5 + i]
        ELSE IF f \in VarFields THEN var[f]
        ELSE Fixed(type, f, seed)] :
            seed \in {0, 101}, var \in [VarFieldsOf(type) -> values]}

\* The largest lengths that survive in one, two and four bytes, those that are one more
\* and are lost, and one of eight bytes
AllLengths(type) ==
    Samples(type, Thresholds \cup {Bytes(127), Bytes(16383),
                                   <<255, 255, 255, 31, 0, 0, 0, 0>>,
                                   <<1, 0, 0, 32, 0, 0, 0, 0>>})

=============================================================================
