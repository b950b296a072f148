----------------------------- MODULE CrcStream -----------------------------
(***************************************************************************)
(* The checksums pycrc computes of one string: by the three algorithms of   *)
(* class Crc, by check_file, and by a generated C program that is handed    *)
(* the string in chunks, against the remainder of a polynomial division.    *)
(***************************************************************************)
EXTENDS GeneratedC, Downlink

CONSTANTS
    MaxChunk,       \* bound on the octets of one call of the program
    Cases           \* records [raw, program, in_str]: parameters as the user
                    \* writes them, a generated program, and a string of octets

ASSUME MaxChunkAssumption == MaxChunk \in Nat

ASSUME CasesAssumption ==
    \A c \in Cases :
        /\ c.raw \in [width : Nat \ {0}, poly : Word, reflect_in : BOOLEAN, xor_in : Word,
                      reflect_out : BOOLEAN, xor_out : Word]
        /\ c.program \in Programs
        /\ c.in_str \in Seq(Octet)

VARIABLES
    raw,            \* the parameters
    program,        \* the generated program
    in_str,         \* the string
    done,           \* the number of its octets the loops have taken
    register,       \* `register' of the methods and of check_file
    crc             \* the crc_t between two calls of the program

vars == <<raw, program, in_str, done, register, crc>>

\* Options.parse gives class Crc masked parameters.
p == Masked(raw)

Methods == {"bit_by_bit", "bit_by_bit_fast", "table_driven", "check_file"}

\* In C a shift by a negative count is undefined: it would take a table index
\* narrower than what an octet has over the width.
ShiftsAreDefined(r, g) ==
    g.algorithm = "table-driven" /\ ~r.reflect_in /\ g.table_idx_width < 8
        => g.table_idx_width >= CrcShift(r)

Init ==
    /\ \E c \in Cases :
        /\ ShiftsAreDefined(c.raw, c.program)
        /\ raw = c.raw
        /\ program = c.program
        /\ in_str = c.in_str
    /\ done = 0
    /\ register = [m \in Methods |->
                     CASE m = "bit_by_bit" -> NonDirectInit(p)
                       [] m = "bit_by_bit_fast" -> p.xor_in
                       [] m = "table_driven" -> TableInit(p)
                       [] m = "check_file" -> FileInit(p)]
    /\ crc = crc_init(raw, program)

\* The next n octets of the string go through every loop.
Update(n) ==
    LET chunk == SubSeq(in_str, done + 1, done + n)
        tbl == gen_table(p, 8)
        Body(m) == [c \in Octet |-> [r \in Word |->
            CASE m = "bit_by_bit" -> BitByBitOctet(p, r, c)
              [] m = "bit_by_bit_fast" -> BitByBitFastOctet(p, r, c)
              [] m = "table_driven" -> TableDrivenOctet(p, tbl, r, c)
              [] m = "check_file" -> FileOctet(p, r, c)]]
    IN /\ done + n <= Len(in_str)
       /\ done' = done + n
       /\ register' =
             [m \in Methods |-> OverOctets(Body(m), register[m], chunk)]
       /\ crc' = crc_update(raw, program, crc, chunk)
       /\ UNCHANGED <<raw, program, in_str>>

Next == \E n \in 0 .. MaxChunk : Update(n)

Spec == Init /\ [][Next]_vars

-----------------------------------------------------------------------------
Taken == SubSeq(in_str, 1, done)

\* What each method returns for the string so far.
Checksum(method) ==
    CASE method = "bit_by_bit" -> BitByBitEnd(p, register[method])
      [] method = "table_driven" -> TableDrivenEnd(p, register[method])
      [] OTHER -> Finish(p, register[method])

\* The remainder of polynomial a (a set of exponents) by x^w + poly.
Remainder(a, w, poly) ==
    LET top == IF a = {} THEN w ELSE Max(a \cup {w})
        cancel == [k \in 0 .. top - w |-> [r \in Word |->
                     XorIf(top - k \in r, r, ShiftLeft(poly \cup {w}, top - k - w))]]
    IN Times(top - w + 1, cancel, a)

\* The string as a polynomial, its first bit the coefficient of the highest power.
Polynomial(s) ==
    UNION {ShiftLeft(ReflectIf(p.reflect_in, s[i], 8), 8 * (Len(s) - i)) : i \in DOMAIN s}

\* The definition of a CRC: the message, with the initial value added to its
\* first bits, times x^width, modulo the polynomial.
CRC ==
    Finish(p, Remainder(Xor(ShiftLeft(Polynomial(Taken), p.width),
                            ShiftLeft(p.xor_in, 8 * done)),
                        p.width, p.poly))

(***************************************************************************)
(* The three algorithms compute the remainder, so check_string never finds *)
(* "different checksums!"; bit_by_bit only if the polynomial is odd or the  *)
(* initial value 0, for it takes the initial value backwards ("A valid CRC  *)
(* polynomial must be odd").                                                *)
(***************************************************************************)
AlgorithmsAgree ==
    /\ Checksum("bit_by_bit_fast") = CRC
    /\ Checksum("table_driven") = CRC
    /\ 0 \in p.poly \/ p.xor_in = {} => Checksum("bit_by_bit") = CRC

(***************************************************************************)
(* check_file agrees with check_string as long as the initial value is its *)
(* own reflection or the input is not reflected: it starts its bit by bit   *)
(* loop where the table driven one would start.                             *)
(***************************************************************************)
FileAgrees ==
    (p.reflect_in => reflect(p.xor_in, p.width) = p.xor_in) => Checksum("check_file") = CRC

\* The CRC-5 of EPC Gen2, and the bits of octets as the reader sends them.
EPC5 == [width |-> 5, poly |-> {0, 3}, reflect_in |-> FALSE, xor_in |-> {0, 3},
         reflect_out |-> FALSE, xor_out |-> {}]

Bits(s) ==
    [n \in 1 .. 8 * Len(s) |-> IF 7 - ((n - 1) % 8) \in s[((n - 1) \div 8) + 1] THEN 1 ELSE 0]

(***************************************************************************)
(* make3_crc_5 is class Crc with these parameters, and the query of the     *)
(* controller, a constant, ends with the CRC of its 17 other bits: a tag    *)
(* drops any other.                                                         *)
(***************************************************************************)
DownlinkAgrees ==
    raw = EPC5 =>
        LET sent == make3_crc_5(Bits(Taken)) IN
        /\ {5 - k : k \in {j \in 1 .. 5 : sent[j] = 1}} = Checksum("bit_by_bit_fast")
        /\ make3_crc_5(SubSeq(query_cmd, 1, 17)) = SubSeq(query_cmd, 18, 22)

-----------------------------------------------------------------------------
\* Where a generated program goes wrong.
\* A narrow CRC that is not reflected: the register is shifted by the index
\* width less crc_shift.
NarrowTable ==
    program.algorithm = "table-driven" /\ raw.width < 8 /\ ~raw.reflect_in
        /\ program.table_idx_width < 8

\* xor_in & mask << shift is xor_in & (mask << shift).
UnbracketedInit ==
    program.algorithm = "table-driven" /\ raw.width < 8 /\ ~raw.reflect_in
        /\ ~ConstantCrcInit(program)

\* An int does not hold the highest bit.
WideBool ==
    program.algorithm # "table-driven" /\ program.c_std = "C89" /\ raw.width > 32

\* Bits above a width unknown to pycrc are shifted down by crc_init.
UnmaskedInit ==
    program.algorithm = "bit-by-bit" /\ ~ConstantCrcInit(program)
        /\ ~(Cfg(raw, program).poly \cup Cfg(raw, program).xor_in \subseteq Mask(raw))

ProgramSays == crc_finalize(raw, program, crc)

PycrcSays ==
    Checksum(CASE program.algorithm = "bit-by-bit" -> "bit_by_bit"
               [] program.algorithm = "bit-by-bit-fast" -> "bit_by_bit_fast"
               [] OTHER -> "table_driven")

(***************************************************************************)
(* Whichever parameters are constants of the generated program and however  *)
(* the string is cut into chunks, it computes what pycrc computes, with     *)
(* these four exceptions.                                                   *)
(***************************************************************************)
ProgramAgrees ==
    NarrowTable \/ UnbracketedInit \/ WideBool \/ UnmaskedInit \/ ProgramSays = PycrcSays

(***************************************************************************)
(* "C/C++ code can now be generated for the table-driven algorithm with     *)
(* widths that are not byte-ligned or less than 8."                         *)
(***************************************************************************)
TableProgramsAgree ==
    program.algorithm = "table-driven" => ProgramSays = PycrcSays
=============================================================================
