------------------------------ MODULE Downlink ------------------------------
(***************************************************************************)
(* The CRC-5 of reader commands: make3_crc_5 of rfidbts_downlink.py, which  *)
(* bts_top.py has a copy of.  Bits are kept in strings, the first bit of a  *)
(* register is its highest.                                                 *)
(***************************************************************************)
EXTENDS Integers, Sequences

string_xor(str1, str2) == [i \in DOMAIN str1 |-> IF str1[i] # str2[i] THEN 1 ELSE 0]

preset == <<0, 1, 0, 0, 1>>

\* Mutant: the bit is lost that is shifted out.
Turn_Blind(register, bit) ==
    LET shifted == Append(Tail(register), 0) IN
    IF bit = 1 THEN string_xor(shifted, preset) ELSE shifted

\* One turn of the loop of make3_crc_5.
Turn(register, bit) ==
    LET shifted == Append(Tail(register), 0)
        flag == register[1] # bit
    IN IF flag THEN string_xor(shifted, preset) ELSE shifted

make3_crc_5(bit_stream) ==
    LET after[i \in 0 .. Len(bit_stream)] ==
            IF i = 0 THEN preset ELSE Turn(after[i - 1], bit_stream[i])
    IN after[Len(bit_stream)]

\* The bits rfidbts_controller::setup_query sends, the last five their CRC.
query_cmd == <<1, 0, 0, 0, 0, 1, 0, 1, 0, 0, 0, 0, 0, 0, 0, 0, 0, 1, 1, 1, 1, 1>>
=============================================================================
