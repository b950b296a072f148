--------------------------- MODULE CrcAlgorithms ---------------------------
(***************************************************************************)
(* Class Crc of pycrc (crc_algorithms.py), which rfidbts_downlink.py        *)
(* imports, and the loop over the octets of a file in pycrc.py.             *)
(*                                                                          *)
(* A word is the set of the positions of its 1 bits, so exclusive or is the *)
(* symmetric difference, a mask a range, and no width is too large.  The    *)
(* parameters of a CRC are a record p = [width, poly, reflect_in, xor_in,   *)
(* reflect_out, xor_out]; poly, as in the code, is without its highest      *)
(* term.  The methods iterate over the octets of in_str; the operators      *)
(* named *Octet are the bodies of these loops.                              *)
(***************************************************************************)
EXTENDS Integers, Sequences, FiniteSetsExt

Xor(a, b) == SymDiff(a, b)
ShiftLeft(x, n) == {i + n : i \in x}
ShiftRight(x, n) == {i - n : i \in {j \in x : j >= n}}

Word == SUBSET Nat

\* The word of n ones.
Ones(n) == 0 .. n - 1

Octet == SUBSET Ones(8)

\* Xor with y under a condition: `if b: x ^= y'.
XorIf(b, x, y) == IF b THEN Xor(x, y) ELSE x

\* f[0], f[1] .. f[n - 1] applied to the register, one after the other.
Times(n, f, register) ==
    LET pass[i \in 0 .. n] == IF i = 0 THEN register ELSE f[i - 1][pass[i - 1]]
    IN pass[n]

\* A loop over in_str: f[c] is what its body does to the register for octet c.
OverOctets(f, register, in_str) ==
    Times(Len(in_str), [i \in 0 .. Len(in_str) - 1 |-> f[in_str[i + 1]]], register)

-----------------------------------------------------------------------------
MSB(p) == p.width - 1
Mask(p) == Ones(p.width)
CrcShift(p) == IF p.width < 8 THEN 8 - p.width ELSE 0

reflect(data, width) == {width - 1 - i : i \in data \cap Ones(width)}

ReflectIf(b, data, width) == IF b THEN reflect(data, width) ELSE data

\* Mutant: the direct algorithms' initial value.
NonDirectInit_Direct(p) == p.xor_in \cap Mask(p)

\* __get_nondirect_init
NonDirectInit(p) ==
    LET back == [i \in 0 .. p.width - 1 |-> [crc \in Word |->
                   IF 0 \in crc THEN ShiftRight(Xor(crc, p.poly), 1) \cup {MSB(p)}
                                ELSE ShiftRight(crc, 1)]]
    IN Times(p.width, back, p.xor_in) \cap Mask(p)

\* The last two lines of every method.
Finish(p, register) == Xor(ReflectIf(p.reflect_out, register, p.width), p.xor_out)

-----------------------------------------------------------------------------
\* A bit moves into the register, the highest moves out.
BitByBitBit(p, register, bit) ==
    XorIf(MSB(p) \in register, (ShiftLeft(register, 1) \cap Mask(p)) \cup bit, p.poly)

BitByBitOctet(p, register, c) ==
    LET octet == ReflectIf(p.reflect_in, c, 8)
        pass == [i \in 0 .. 7 |-> [r \in Word |->
                   BitByBitBit(p, r, IF 7 - i \in octet THEN {0} ELSE {})]]
    IN Times(8, pass, register)

\* What is left of bit_by_bit when the string is used up: the augmented bits.
BitByBitEnd(p, register) ==
    LET pass == [i \in 0 .. p.width - 1 |-> [r \in Word |-> BitByBitBit(p, r, {})]]
    IN Finish(p, Times(p.width, pass, register))

bit_by_bit(p, in_str) ==
    BitByBitEnd(p, OverOctets([c \in Octet |-> [r \in Word |-> BitByBitOctet(p, r, c)]],
                              NonDirectInit(p), in_str))

-----------------------------------------------------------------------------
BitByBitFastOctet(p, register, c) ==
    LET octet == ReflectIf(p.reflect_in, c, 8)
        pass == [i \in 0 .. 7 |-> [r \in Word |->
                   XorIf((MSB(p) \in r) # (7 - i \in octet), ShiftLeft(r, 1), p.poly)]]
    IN Times(8, pass, register) \cap Mask(p)

bit_by_bit_fast(p, in_str) ==
    Finish(p, OverOctets([c \in Octet |-> [r \in Word |-> BitByBitFastOctet(p, r, c)]],
                         p.xor_in, in_str))

-----------------------------------------------------------------------------
TableEntry(p, idx_width, i) ==
    LET shift == CrcShift(p)
        first == ShiftLeft(ReflectIf(p.reflect_in, i, idx_width), p.width - idx_width + shift)
        pass == [j \in 0 .. idx_width - 1 |-> [r \in Word |->
                   XorIf(MSB(p) + shift \in r, ShiftLeft(r, 1), ShiftLeft(p.poly, shift))]]
        last == Times(idx_width, pass, first)
    IN (IF p.reflect_in THEN ShiftLeft(reflect(ShiftRight(last, shift), p.width), shift) ELSE last)
           \cap ShiftLeft(Mask(p), shift)

\* The table is indexed by a word of TableIdxWidth bits.
gen_table(p, idx_width) == [i \in SUBSET Ones(idx_width) |-> TableEntry(p, idx_width, i)]

TableInit(p) ==
    LET shift == CrcShift(p)
        direct == ShiftLeft(p.xor_in, shift)
    IN IF p.reflect_in THEN ShiftLeft(reflect(direct, p.width + shift), shift) ELSE direct

\* TableIdxWidth is 8: "The Python version cannot handle tables of an index
\* width other than 8".
TableDrivenOctet(p, tbl, register, c) ==
    LET shift == CrcShift(p)
        kept == ShiftLeft(Mask(p), shift)
    IN IF p.reflect_in
       THEN LET tblidx == Xor(ShiftRight(register, shift), c) \cap Ones(8)
            IN Xor(ShiftRight(register, 8), tbl[tblidx]) \cap kept
       ELSE LET tblidx == Xor(ShiftRight(register, p.width - 8 + shift), c) \cap Ones(8)
            IN Xor(ShiftLeft(register, 8 - shift), tbl[tblidx]) \cap kept

TableDrivenEnd(p, register) ==
    LET shift == CrcShift(p) IN
    Finish(p, IF p.reflect_in THEN reflect(register, p.width + shift) \cap Mask(p)
                              ELSE ShiftRight(register, shift))

table_driven(p, in_str) ==
    LET tbl == gen_table(p, 8) IN
    TableDrivenEnd(p, OverOctets([c \in Octet |-> [r \in Word |-> TableDrivenOctet(p, tbl, r, c)]],
                                 TableInit(p), in_str))

-----------------------------------------------------------------------------
\* Mutant: octets are never reflected.
FileOctet_AsTheyAre(p, register, c) ==
    LET pass == [j \in 0 .. 7 |-> [r \in Word |->
                   XorIf((MSB(p) \in r) # (7 - j \in c), ShiftLeft(r, 1), p.poly)]]
    IN Times(8, pass, register) \cap Mask(p)

\* pycrc.py: crc_file_update for one octet.
FileOctet(p, register, c) ==
    LET octet == ReflectIf(p.reflect_in, c, 8)
        pass == [j \in 0 .. 7 |-> [r \in Word |->
                   XorIf((MSB(p) \in r) # (7 - j \in octet), ShiftLeft(r, 1), p.poly)]]
    IN Times(8, pass, register) \cap Mask(p)

\* pycrc.py: where check_file starts.
FileInit(p) == ReflectIf(p.reflect_in, p.xor_in, p.width)

check_file(p, contents) ==
    Finish(p, OverOctets([c \in Octet |-> [r \in Word |-> FileOctet(p, r, c)]], FileInit(p), contents))
=============================================================================
