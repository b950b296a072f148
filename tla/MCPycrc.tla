------------------------------- MODULE MCPycrc -------------------------------
(***************************************************************************)
(* Pycrc over command lines that leave parameters to run time, set them     *)
(* more than once, or are wrong in every way parse looks for; and over      *)
(* texts of the macro language, sound and damaged.                          *)
(***************************************************************************)
EXTENDS Pycrc

\* Spellings in upper and lower case.
Pairs == {<<"CCITT", "ccitt">>, <<"KERMIT", "kermit">>, <<"ALL", "all">>, <<"C-MAIN", "c-main">>,
          <<"C89", "c89">>, <<"C99", "c99">>, <<"ANSI", "ansi">>}

MCLower(word) ==
    IF \E q \in Pairs : q[1] = word THEN (CHOOSE q \in Pairs : q[1] = word)[2] ELSE word
MCUpper(word) ==
    IF \E q \in Pairs : q[2] = word THEN (CHOOSE q \in Pairs : q[2] = word)[1] ELSE word

Arg(option, value) == <<option, TRUE, value>>
Unreadable(option) == <<option, FALSE, "">>

-----------------------------------------------------------------------------
\* The parameters that are not left to run time; poly and xor_in have bits
\* above a width of 5.
Given(unknown, width, reflect_in, reflect_out) ==
    LET all == << Arg("width", width), Arg("poly", {0, 3, 6}), Arg("reflect_in", reflect_in),
                  Arg("xor_in", {0, 3, 7}), Arg("reflect_out", reflect_out), Arg("xor_out", {1}) >>
    IN SelectSeq(all, LAMBDA arg : OptionOf(arg) \notin unknown)

Line(action, algorithm, std, given) ==
    <<Arg("generate", action), Arg("algorithm", algorithm), Arg("c_std", std)>> \o given

\* Parameters left to run time; the parser takes some 700 steps for a file.
FewOrMost == {U \in SUBSET CrcParameters : Cardinality(U) \notin {3, 4}}

GenerateLines ==
    {Line("C-MAIN", a, std, Given({}, w, r[1], r[2])) :
        a \in Algorithms, std \in {"c89", "C99"}, w \in {5, 8}, r \in BOOLEAN \X BOOLEAN}
    \cup
    {Line("c-main", a, "C99", Given(U, 8, TRUE, FALSE)) : a \in Algorithms, U \in FewOrMost}
    \cup
    {Line("c-main", a, "ansi", Given({parameter}, 5, FALSE, FALSE)) :
        a \in Algorithms, parameter \in CrcParameters}
    \cup
    {Line(action, "table-driven", "C99", Given(U, 8, TRUE, FALSE) \o more) :
        action \in {"h", "c", "c-main"}, U \in {{}, {"width"}, {"poly"}},
        more \in {<<Arg("table_idx_width", 4), Arg("output_file", "crc.c"), Arg("symbol_prefix", "x_"),
                    Arg("include_file", T(Text("x.h")))>>,
                  <<Arg("include_file", I("HOME"))>>}}
    \cup
    {Line(action, a, "C99", Given({}, 8, TRUE, FALSE)) :
        action \in {"table", "h", "d"}, a \in {"all", "table-driven", "bit-by-bit"}}

\* Up to three options that say something about the same parameters.
Order == {Arg("model", "CCITT"), Arg("model", "crc-8"), Arg("poly", {0, 1}), Arg("xor_in", {0, 20}),
          Arg("reflect_in", TRUE)}
OrderLines == {<<Arg("algorithm", "bit-by-bit-fast")>> \o s : s \in UNION {[1 .. n -> Order] : n \in 1 .. 3}}

\* Checksums.
Checks == {Arg("check_string", <<{0, 7}, {1}>>), Arg("check_hexstring", <<3, 1, 15>>),
             Arg("check_hexstring", <<1, -1>>), Arg("check_file", "data"), Arg("check_file", "missing")}
CheckLines ==
    {<<Arg("algorithm", a)>> \o Given(U, 5, TRUE, TRUE) \o <<s>> :
        a \in Algorithms \cup {"ALL", "crc"}, U \in {{}, {"poly"}}, s \in Checks}
    \cup
    {Given({"poly"}, w, FALSE, FALSE) \o <<Arg("poly", {1}), s>> : w \in {0, 5}, s \in Checks}

\* Options that contradict each other or say nothing.
OddLines ==
    {<<Arg("model", "kermit")>> \o more :
        more \in {<<Arg("verbose", "")>>, <<Arg("", "file")>>, <<Unreadable("poly")>>,
                  <<Arg("table_idx_width", 3)>>, <<Arg("table_idx_width", 4)>>, <<Arg("c_std", "K&R")>>,
                  <<Arg("check_file", "data"), Arg("generate", "h")>>,
                  <<Arg("check_file", "data"), Arg("check_hexstring", <<1>>)>>}}
    \cup {<<Arg("model", "crc-9")>>, << >>, <<Arg("verbose", ""), Arg("generate", "h"), Arg("algorithm", "bit-by-bit")>>}

MCCommandLines == GenerateLines \cup OrderLines \cup CheckLines \cup OddLines

MCFiles == [data |-> <<{0, 4, 5}, {1}>>]

-----------------------------------------------------------------------------
\* Options of a caller of the parser.
CallerOptions ==
    Parsed([Defaults EXCEPT !.width = <<8>>, !.algorithm = <<"table-driven">>,
                            !.reflect_in = <<TRUE>>, !.reflect_out = <<FALSE>>])

MCNumberOf(n) == n
MCDictionary ==
    <<Num(0), Num(8), Num(9), Word("C89"), Word("C99"), Word("False"), Word("True"), Word("Undefined"),
      Word("a"), Word("b")>>

A == T(Text("+"))
B == T(Text("-"))
Width(op, n) == Comparison(Id("crc_width"), op, Num(n))

\* Alternatives, blocks and symbols in one another; symbols without a value.
Trees ==
    { <<A, When(Is("c_std", "C99"), <<B>>), A>>,
      <<Choice(<<Arm(OneOf(Width("<", 8), Is("c_std", "C89")), <<A>>),
                 Arm(Both(Width("<=", 8), Isnt("crc_poly", "b")), <<B, I("cfg_poly")>>)>>,
               <<Block(<<A, A>>)>>)>>,
      <<Either(Comparison(Word("a"), ">", Word("b")), <<A>>, <<Block(<<B>>), I("crc_t")>>), B>>,
      <<Block(<<T(Escape), I("cfg_width")>>), I("no_symbol")>>,
      <<When(Comparison(Id("crc_shift"), ">=", Id("no_symbol")), <<A>>)>>,
      <<When(Comparison(Id("include_file"), "==", Word("Undefined")), <<I("include_file")>>)>>,
      <<Either(Is("include_file", "Undefined"), <<A>>, <<I("include_file")>>)>>,
      <<When(OneOf(Both(Is("c_std", "C99"), Width(">", 9)), Is("c_std", "C89")), <<A, I("nop")>>), I("nop")>> }

Without(s, i) == SubSeq(s, 1, i - 1) \o SubSeq(s, i + 1, Len(s))
Replaced(s, i, l) == SubSeq(s, 1, i - 1) \o <<l>> \o SubSeq(s, i + 1, Len(s))
Between(s, i, l) == SubSeq(s, 1, i) \o <<l>> \o SubSeq(s, i + 1, Len(s))

\* Texts with one lexeme less, other or more.
Damaged(s) ==
    {Without(s, i) : i \in DOMAIN s}
    \cup {Replaced(s, i, l) : i \in DOMAIN s, l \in {If, Else, Close, And, RP, Text("+")}}
    \cup {Between(s, i, l) : i \in 0 .. Len(s), l \in {Open, Close, LP, RP, Elif, Word("a")}}
    \cup {s \o <<Dollar>>} \cup {Between(s, i, Dollar) : i \in {j \in DOMAIN s : s[j] = Open}}

Sources(texts, tree) == {[opt |-> CallerOptions, tree |-> tree, text |-> t] : t \in texts}

MCTexts ==
    UNION {Sources({Unparse(t, layout) : layout \in BOOLEAN}, <<t>>) : t \in Trees}
    \cup UNION {Sources(Damaged(Unparse(t, FALSE)), << >>) : t \in Trees}
=============================================================================
