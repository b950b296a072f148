----------------------------- MODULE GeneratedC -----------------------------
(***************************************************************************)
(* The C functions the templates of crc_symtable.py generate: crc_init,     *)
(* crc_update, crc_finalize and crc_table_gen of the three algorithms.      *)
(*                                                                          *)
(* A generated program is a record g = [algorithm, undefined,               *)
(* table_idx_width, c_std]: `undefined' are the parameters not given to     *)
(* pycrc, which the program takes from cfg.  raw are the parameters as the  *)
(* user wrote them; Options.parse masks them with the width if it knows     *)
(* it, get_config those of cfg at run time.                                 *)
(***************************************************************************)
EXTENDS CrcAlgorithms

Parameters == {"width", "poly", "reflect_in", "xor_in", "reflect_out", "xor_out"}

\* What Options.parse lets through.
Programs ==
    [algorithm : {"bit-by-bit", "bit-by-bit-fast", "table-driven"},
     undefined : SUBSET Parameters, table_idx_width : {1, 2, 4, 8}, c_std : {"C89", "C99"}]

Masked(raw) ==
    [raw EXCEPT !.poly = @ \cap Mask(raw), !.xor_in = @ \cap Mask(raw),
                !.xor_out = @ \cap Mask(raw)]

\* A parameter is a constant of the program unless it is undefined.
Given(g, names) == names \cap g.undefined = {}

\* $cfg_poly and so on: a constant is masked only if the width was known.
Cfg(raw, g) ==
    LET Value(name, w) == IF {"width", name} \cap g.undefined = {"width"} THEN w ELSE w \cap Mask(raw)
    IN [raw EXCEPT !.poly = Value("poly", @), !.xor_in = Value("xor_in", @),
                   !.xor_out = Value("xor_out", @)]

\* The bits of the type crc_t; an unsigned long has 64 here.
TypeBits(raw, g) ==
    IF ~Given(g, {"width"}) THEN 64
    ELSE IF raw.width <= 8 THEN 8
    ELSE IF raw.width <= 16 THEN (IF g.c_std = "C89" THEN 32 ELSE 16)
    ELSE IF raw.width <= 32 /\ g.c_std # "C89" THEN 32
    ELSE 64

\* An assignment to a crc_t.
CrcT(raw, g, x) == x \cap Ones(TypeBits(raw, g))

\* An assignment to a $c_bool: C89 has only int.
CBool(g, x) == (IF g.c_std = "C89" THEN x \cap Ones(32) ELSE x) # {}

\* $crc_do_shift and $cfg_shift
DoShift(raw, g) == g.algorithm = "table-driven" /\ (raw.width < 8 \/ ~Given(g, {"width"}))
Shift(raw, g) == IF DoShift(raw, g) THEN CrcShift(raw) ELSE 0

\* $constant_crc_init: __get_init_value has a value.
ConstantCrcInit(g) ==
    Given(g, CASE g.algorithm = "bit-by-bit" -> {"xor_in", "width", "poly"}
               [] g.algorithm = "bit-by-bit-fast" -> {"xor_in"}
               [] OTHER -> {"reflect_in", "xor_in", "width"})

\* $inline_crc_finalize
InlineCrcFinalize(g) ==
    /\ g.algorithm \in {"bit-by-bit-fast", "table-driven"}
    /\ Given(g, {"width", "reflect_in", "reflect_out", "xor_out"})

-----------------------------------------------------------------------------
\* $crc_init_function of c_bit_by_bit
BitByBitCInit(raw, g) ==
    LET cfg == Cfg(raw, g)
        back == [i \in 0 .. raw.width - 1 |-> [crc \in Word |->
                   IF 0 \in crc
                   THEN ShiftRight(CrcT(raw, g, Xor(crc, cfg.poly)), 1) \cup {MSB(raw)}
                   ELSE ShiftRight(crc, 1)]]
    IN Times(raw.width, back, CrcT(raw, g, cfg.xor_in)) \cap Mask(raw)

\* $crc_init_function of c_table_driven; << binds closer than & in C.
TableCInit(raw, g) ==
    LET cfg == Cfg(raw, g)
        shift == Shift(raw, g)
    IN IF raw.reflect_in
       THEN ShiftLeft(reflect(cfg.xor_in \cap Mask(raw), raw.width), shift)
       ELSE cfg.xor_in \cap ShiftLeft(Mask(raw), shift)

\* __get_init_value
ConstantInit(raw, g) ==
    CASE g.algorithm = "bit-by-bit" -> NonDirectInit(Masked(raw))
      [] g.algorithm = "bit-by-bit-fast" -> Cfg(raw, g).xor_in
      [] OTHER -> ShiftLeft(ReflectIf(raw.reflect_in, Masked(raw).xor_in, raw.width), Shift(raw, g))

crc_init(raw, g) ==
    CrcT(raw, g,
         IF ConstantCrcInit(g) THEN ConstantInit(raw, g)
         ELSE CASE g.algorithm = "bit-by-bit" -> BitByBitCInit(raw, g)
                [] g.algorithm = "bit-by-bit-fast" -> Cfg(raw, g).xor_in \cap Mask(raw)
                [] OTHER -> TableCInit(raw, g))

-----------------------------------------------------------------------------
\* crc = (crc << 1) | bit, reduced by the polynomial if the highest bit was 1.
BitByBitCPass(raw, g, crc, bit) ==
    CrcT(raw, g, XorIf(CBool(g, crc \cap {MSB(raw)}), ShiftLeft(crc, 1) \cup bit, Cfg(raw, g).poly))

BitByBitCOctet(raw, g, crc, data) ==
    LET c == ReflectIf(raw.reflect_in, data, 8)
        pass == [i \in 0 .. 7 |-> [r \in Word |->
                   BitByBitCPass(raw, g, r, IF 7 - i \in c THEN {0} ELSE {})]]
    IN Times(8, pass, crc) \cap Mask(raw)

\* Mutant: the octet is reflected and its bits are taken from the other end.
BitByBitFastCOctet_Twice(raw, g, crc, data) ==
    LET c == ReflectIf(raw.reflect_in, data, 8)
        pass == [k \in 0 .. 7 |-> [r \in Word |->
            LET i == IF raw.reflect_in THEN k ELSE 7 - k IN
            CrcT(raw, g, XorIf(CBool(g, r \cap {MSB(raw)}) # (i \in c), ShiftLeft(r, 1),
                               Cfg(raw, g).poly))]]
    IN Times(8, pass, crc) \cap Mask(raw)

\* The octet is reflected if cfg->reflect_in says so, a constant reflect_in
\* only turns the loop over its bits round.
BitByBitFastCOctet(raw, g, crc, data) ==
    LET upwards == raw.reflect_in /\ Given(g, {"reflect_in"})
        c == ReflectIf(raw.reflect_in /\ ~upwards, data, 8)
        pass == [k \in 0 .. 7 |-> [r \in Word |->
            LET i == IF upwards THEN k ELSE 7 - k IN
            CrcT(raw, g, XorIf(CBool(g, r \cap {MSB(raw)}) # (i \in c), ShiftLeft(r, 1),
                               Cfg(raw, g).poly))]]
    IN Times(8, pass, crc) \cap Mask(raw)

\* crc_table: __get_table_init, or an entry of crc_table_gen.
CTableEntry(raw, g, i) ==
    IF Given(g, {"width", "poly", "reflect_in"}) THEN TableEntry(Masked(raw), g.table_idx_width, i)
    ELSE
    LET shift == Shift(raw, g)
        first == ShiftLeft(ReflectIf(raw.reflect_in, i, g.table_idx_width),
                           raw.width - g.table_idx_width + shift)
        pass == [j \in 0 .. g.table_idx_width - 1 |-> [r \in Word |->
            CrcT(raw, g, XorIf(MSB(raw) + shift \in r, ShiftLeft(r, 1),
                               ShiftLeft(Cfg(raw, g).poly, shift)))]]
        last == Times(g.table_idx_width, pass, CrcT(raw, g, first))
    IN (IF raw.reflect_in THEN ShiftLeft(reflect(ShiftRight(last, shift), raw.width), shift) ELSE last)
           \cap ShiftLeft(Mask(raw), shift)

\* The 8 / table_idx_width steps for an octet; each names the bits of the
\* octet it takes.  $crc_table_mask is applied last.
TableCStep(raw, g, crc, bits) ==
    LET shift == Shift(raw, g)
        idx == Ones(g.table_idx_width)
    IN CrcT(raw, g,
            IF raw.reflect_in
            THEN Xor(CTableEntry(raw, g, Xor(ShiftRight(crc, shift), bits) \cap idx),
                     ShiftRight(crc, g.table_idx_width))
            ELSE Xor(CTableEntry(raw, g, Xor(ShiftRight(crc, raw.width - g.table_idx_width + shift),
                                             bits) \cap idx),
                     ShiftLeft(crc, g.table_idx_width - shift)))

\* __get_table_core_algorithm_ni and _ri
TableCOctet(raw, g, crc, data) ==
    LET n == g.table_idx_width
        step == [i \in 0 .. (8 \div n) - 1 |-> [r \in Word |->
            TableCStep(raw, g, r, ShiftRight(data, IF raw.reflect_in THEN i * n ELSE 8 - (i + 1) * n))]]
    IN Times(8 \div n, step, crc) \cap (IF n = 8 THEN ShiftLeft(Mask(raw), Shift(raw, g)) ELSE Ones(64))

\* One call for a chunk of the data.
crc_update(raw, g, crc, data) ==
    LET one_octet == [c \in Octet |-> [r \in Word |->
            CASE g.algorithm = "bit-by-bit" -> BitByBitCOctet(raw, g, r, c)
              [] g.algorithm = "bit-by-bit-fast" -> BitByBitFastCOctet(raw, g, r, c)
              [] OTHER -> TableCOctet(raw, g, r, c)]]
    IN OverOctets(one_octet, crc, data) \cap ShiftLeft(Mask(raw), Shift(raw, g))

-----------------------------------------------------------------------------
\* crc_finalize, from its template or, inline, $crc_final_value.
crc_finalize(raw, g, crc) ==
    LET cfg == Cfg(raw, g)
        pass == [i \in 0 .. raw.width - 1 |-> [r \in Word |-> BitByBitCPass(raw, g, r, {})]]
        whole == IF g.algorithm = "bit-by-bit" THEN Times(raw.width, pass, crc)
                                               ELSE ShiftRight(crc, Shift(raw, g))
        turned == ReflectIf(IF g.algorithm = "table-driven" THEN raw.reflect_in # raw.reflect_out
                                                            ELSE raw.reflect_out,
                            whole, raw.width)
    IN CrcT(raw, g, IF InlineCrcFinalize(g) THEN Xor(turned, cfg.xor_out)
                                            ELSE Xor(turned, cfg.xor_out) \cap Mask(raw))
=============================================================================
