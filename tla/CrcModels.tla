----------------------------- MODULE CrcModels -----------------------------
(***************************************************************************)
(* Class CrcModels of pycrc: the named parameter sets with the checksum the *)
(* table gives for the string "123456789".  Numbers are written in groups   *)
(* of 16 bits, the highest first.                                           *)
(***************************************************************************)
EXTENDS CrcAlgorithms, TLC

\* The word of a number below 2^16.
BitsOf(n) == {i \in 0 .. 15 : (n \div 2^i) % 2 = 1}

Number(groups) ==
    UNION {ShiftLeft(BitsOf(groups[k]), 16 * (Len(groups) - k)) : k \in DOMAIN groups}

\* Mutant: initial value and final exclusive or change places.
Model_Swapped(width, poly, reflect_in, xor_in, reflect_out, xor_out, check) ==
    [params |-> [width |-> width, poly |-> Number(poly),
                 reflect_in |-> reflect_in, xor_in |-> Number(xor_out),
                 reflect_out |-> reflect_out, xor_out |-> Number(xor_in)],
     check |-> Number(check)]

Model(width, poly, reflect_in, xor_in, reflect_out, xor_out, check) ==
    [params |-> [width |-> width, poly |-> Number(poly),
                 reflect_in |-> reflect_in, xor_in |-> Number(xor_in),
                 reflect_out |-> reflect_out, xor_out |-> Number(xor_out)],
     check |-> Number(check)]

to_crc_16 ==
    "crc-5" :>
        Model(5, <<\h0005>>, TRUE, <<\h001F>>, TRUE, <<\h001F>>, <<\h0019>>) @@
    "crc-8" :>
        Model(8, <<\h0007>>, FALSE, <<\h0000>>, FALSE, <<\h0000>>, <<\h00F4>>) @@
    "dallas-1-wire" :>
        Model(8, <<\h0031>>, TRUE, <<\h0000>>, TRUE, <<\h0000>>, <<\h00A1>>) @@
    "crc-15" :>
        Model(15, <<\h4599>>, FALSE, <<\h0000>>, FALSE, <<\h0000>>, <<\h059E>>) @@
    "crc-16" :>
        Model(16, <<\h8005>>, TRUE, <<\h0000>>, TRUE, <<\h0000>>, <<\hBB3D>>) @@
    "crc-16-usb" :>
        Model(16, <<\h8005>>, TRUE, <<\hFFFF>>, TRUE, <<\hFFFF>>, <<\hB4C8>>) @@
    "crc-16-modbus" :>
        Model(16, <<\h8005>>, TRUE, <<\hFFFF>>, TRUE, <<\h0000>>, <<\h4B37>>) @@
    "ccitt" :>
        Model(16, <<\h1021>>, FALSE, <<\hFFFF>>, FALSE, <<\h0000>>, <<\h29B1>>) @@
    "r-crc-16" :>
        Model(16, <<\h0589>>, FALSE, <<\h0000>>, FALSE, <<\h0001>>, <<\h007E>>) @@
    "kermit" :>
        Model(16, <<\h1021>>, TRUE, <<\h0000>>, TRUE, <<\h0000>>, <<\h2189>>) @@
    "x-25" :>
        Model(16, <<\h1021>>, TRUE, <<\hFFFF>>, TRUE, <<\hFFFF>>, <<\h906E>>) @@
    "xmodem" :>
        Model(16, <<\h1021>>, FALSE, <<\h0000>>, FALSE, <<\h0000>>, <<\h31C3>>) @@
    "zmodem" :>
        Model(16, <<\h1021>>, FALSE, <<\h0000>>, FALSE, <<\h0000>>, <<\h31C3>>)

from_crc_24 ==
    "crc-24" :>
        Model(24, <<\h0086, \h4CFB>>, FALSE, <<\h00B7, \h04CE>>, FALSE, <<\h0000>>, <<\h0021, \hCF02>>) @@
    "crc-32" :>
        Model(32, <<\h04C1, \h1DB7>>, TRUE, <<\hFFFF, \hFFFF>>, TRUE, <<\hFFFF, \hFFFF>>, <<\hCBF4, \h3926>>) @@
    "crc-32c" :>
        Model(32, <<\h1EDC, \h6F41>>, TRUE, <<\hFFFF, \hFFFF>>, TRUE, <<\hFFFF, \hFFFF>>, <<\hE306, \h9283>>) @@
    "crc-32-mpeg" :>
        Model(32, <<\h04C1, \h1DB7>>, FALSE, <<\hFFFF, \hFFFF>>, FALSE, <<\h0000>>, <<\h0376, \hE6E7>>) @@
    "posix" :>
        Model(32, <<\h04C1, \h1DB7>>, FALSE, <<\h0000>>, FALSE, <<\hFFFF, \hFFFF>>, <<\h765E, \h7680>>) @@
    "jam" :>
        Model(32, <<\h04C1, \h1DB7>>, TRUE, <<\hFFFF, \hFFFF>>, TRUE, <<\h0000>>, <<\h340B, \hC6D9>>) @@
    "xfer" :>
        Model(32, <<\h00AF>>, FALSE, <<\h0000>>, FALSE, <<\h0000>>, <<\hBD0B, \hE338>>) @@
    "crc-64" :>
        Model(64, <<\h001B>>, TRUE, <<\h0000>>, TRUE, <<\h0000>>, <<\h46A5, \hA938, \h8A5B, \hEFFE>>) @@
    "crc-64-jones" :>
        Model(64, <<\hAD93, \hD235, \h94C9, \h35A9>>, TRUE, <<\hFFFF, \hFFFF, \hFFFF, \hFFFF>>, TRUE, <<\h0000>>, <<\hE9C6, \hD914, \hC4B8, \hD9CA>>)

models == to_crc_16 @@ from_crc_24

getList == DOMAIN models

\* None for a model that is not in the table.
getParams(model) == IF model \in getList THEN {models[model].params} ELSE {}

\* The octets of "123456789", the check string of the table.
CheckString == [i \in 1 .. 9 |-> BitsOf(48 + i)]
=============================================================================
