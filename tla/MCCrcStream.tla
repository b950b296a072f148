---------------------------- MODULE MCCrcStream ----------------------------
(***************************************************************************)
(* CrcStream with small parameter sets over short strings, and the sets of  *)
(* pycrc's table over its check string, each with the programs generated    *)
(* for it.                                                                  *)
(***************************************************************************)
EXTENDS CrcStream, CrcModels

Set(width, poly, xor_in, xor_out) ==
    [width : {width}, poly : {poly}, reflect_in : BOOLEAN, xor_in : {xor_in},
     reflect_out : BOOLEAN, xor_out : {xor_out}]

\* Widths around an octet and a nibble, odd and even polynomials, initial
\* values that are their own reflection or not; the last set has bits above
\* its width.
SmallSets ==
    UNION {Set(1, {0}, {0}, {}), Set(4, {0, 1}, {1}, {0, 1, 2, 3}), Set(5, {0, 3}, {0, 3}, {}),
           Set(5, {0, 2}, {0, 1, 2, 3, 4}, {}), Set(8, {0, 1, 2}, {7}, {0}),
           Set(8, {1, 2}, {6, 7}, {}), Set(11, {0, 2, 7}, {0, 9}, {10}),
           Set(5, {0, 3, 6, 8}, {1, 4, 7}, {2, 9})}

\* A byte with few bits first, or last.
SmallStrings == {<<{7}, {0, 1, 4}, {0, 6}>>, <<{1, 2, 5, 6, 7}, {0}>>}

\* No, one, all but one, or all parameters are left to run time.
Unknown == {U \in SUBSET Parameters : Cardinality(U) \in {0, 1, 5, 6}}

GeneratedFor(unknown) ==
    [algorithm : {"bit-by-bit", "bit-by-bit-fast"}, undefined : unknown,
     table_idx_width : {8}, c_std : {"C89", "C99"}]
    \cup
    [algorithm : {"table-driven"}, undefined : unknown,
     table_idx_width : {1, 2, 4, 8}, c_std : {"C99"}]

\* For a model every parameter is a constant, or none is.
MCCases ==
    [raw : SmallSets, program : GeneratedFor(Unknown), in_str : SmallStrings]
    \cup
    [raw : {models[m].params : m \in getList}, program : GeneratedFor({{}, Parameters}),
     in_str : {CheckString}]

(***************************************************************************)
(* Every parameter set of the table has the checksum the table gives; that  *)
(* of crc-64-jones is the one of the initial value 0, which is not the one  *)
(* in the table.                                                            *)
(***************************************************************************)
ModelsCheck ==
    in_str = CheckString /\ done = Len(in_str) =>
        \E m \in getList :
            /\ raw = models[m].params
            /\ (Checksum("table_driven") = models[m].check) <=> (m # "crc-64-jones")
=============================================================================
