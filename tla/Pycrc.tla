------------------------------- MODULE Pycrc -------------------------------
(***************************************************************************)
(* The program pycrc (pycrc.py): options, then the parameters if it is to   *)
(* be verbose, then one action, a checksum or a generated file; and the     *)
(* macro parser for any other caller that hands it a text.                  *)
(***************************************************************************)
EXTENDS Options, MacroParser, GeneratedScope

CONSTANTS
    Texts,      \* what other callers parse: records [opt, tree, text]
    Files       \* the files there are, with their contents

VARIABLES
    argv,       \* the command line
    taken,      \* the number of its arguments that optparse has taken
    values,     \* parser.values
    opts,       \* the attributes of Options once they are set
    phase,      \* "options", "verbose", "action", "generating" or "exited"; "caller"
    status,     \* the exit status
    printed     \* what is printed, or written to the output file

main == <<argv, taken, values, opts, phase, status, printed>>
vars == <<parser, main>>

Init ==
    /\ \/ phase = "options" /\ argv \in CommandLines
       \/ phase = "caller" /\ argv = << >>
    /\ taken = 0
    /\ values = Defaults
    /\ opts = << >>
    /\ status = 0
    /\ printed = << >>
    /\ source = [opt |-> << >>, tree |-> << >>, text |-> << >>]
    /\ lex = NewLexer
    /\ stack = << >>
    /\ out_str = << >>
    /\ outcome = "idle"

Exit(with) ==
    /\ phase' = "exited"
    /\ status' = with
    /\ UNCHANGED <<argv, taken, values, opts, parser>>

Quietly == UNCHANGED printed

-----------------------------------------------------------------------------
\* Arguments, by optparse; then the rest of Options.parse.
TakeArgument ==
    /\ phase = "options"
    /\ taken < Len(argv)
    /\ IF Acceptable(argv[taken + 1])
       THEN /\ values' = Stored(argv[taken + 1], values)
            /\ taken' = taken + 1
            /\ UNCHANGED <<argv, opts, phase, status, printed, parser>>
       ELSE Exit(2) /\ Quietly

ParseTree(o, tree) ==
    ParseText([opt |-> o, tree |-> <<tree>>, text |-> Unparse(tree, TRUE)], lex)

\* The text of print_parameters.
parameters ==
    <<I("crc_width"), I("crc_poly"), I("crc_reflect_in"), I("crc_xor_in"), I("crc_reflect_out"),
      I("crc_xor_out"), I("crc_algorithm")>>

FinishOptions ==
    /\ phase = "options"
    /\ taken = Len(argv)
    /\ IF Rejected(values) THEN Exit(1) /\ Quietly
       ELSE LET parsed == Parsed(values) IN
            /\ opts' = <<parsed>>
            /\ IF parsed.Verbose THEN phase' = "verbose" /\ ParseTree(parsed, parameters)
                                 ELSE phase' = "action" /\ UNCHANGED parser
            /\ UNCHANGED <<argv, taken, values, status, printed>>

\* mp.parse returns None, and not None is true: nothing is printed.
PrintParameters ==
    /\ phase = "verbose"
    /\ outcome # "running"
    /\ Exit(1) /\ Quietly

-----------------------------------------------------------------------------
Params(o) ==
    [width |-> o.Width[1], poly |-> o.Poly[1], xor_in |-> o.XorIn[1], xor_out |-> o.XorOut[1],
     reflect_in |-> o.ReflectIn[1], reflect_out |-> o.ReflectOut[1]]

With(p, algorithm, string) ==
    CASE algorithm = "bit-by-bit" -> Crc!bit_by_bit(p, string)
      [] algorithm = "bit-by-bit-fast" -> Crc!bit_by_bit_fast(p, string)
      [] algorithm = "table-driven" -> Crc!table_driven(p, string)

\* check_string: one algorithm after the other, and they have to agree.
check_string(o, string) ==
    LET crcs == {With(Params(o), a, string) : a \in o.Algorithm} IN
    IF Cardinality(crcs) = 1
    THEN Exit(0) /\ printed' = << Num(CHOOSE crc \in crcs : TRUE) >>
    ELSE Exit(1) /\ Quietly

HexDigit == 0 .. 15

\* unhexlify
Unhexlified(digits) ==
    [i \in 1 .. Len(digits) \div 2 |-> Crc!BitsOf(16 * digits[2 * i - 1] + digits[2 * i])]

CheckString ==
    /\ phase = "action"
    /\ opts[1].Action = "check_string"
    /\ check_string(opts[1], opts[1].CheckString)

CheckHexString ==
    /\ phase = "action"
    /\ opts[1].Action = "check_hexstring"
    /\ LET given == opts[1].CheckHexString[1]
           digits == IF Len(given) % 2 # 0 THEN <<0>> \o given ELSE given
       IN IF \A i \in DOMAIN digits : digits[i] \in HexDigit
          THEN check_string(opts[1], Unhexlified(digits))
          ELSE Exit(1) /\ Quietly

\* A file that is there may still fail to be read.
CheckFile ==
    /\ phase = "action"
    /\ opts[1].Action = "check_file"
    /\ LET name == opts[1].CheckFile[1] IN
       \/ /\ name \in DOMAIN Files
          /\ Exit(0)
          /\ printed' = << Num(Crc!check_file(Params(opts[1]), Files[name])) >>
       \/ Exit(1) /\ Quietly

\* in_str
Generated(action) ==
    CASE action = "generate_h" -> <<I("h_template")>>
      [] action = "generate_c" -> <<I("c_template")>>
      [] action = "generate_c_main" -> <<I("c_template"), T(NL), T(NL), I("main_template")>>
      [] action = "generate_table" -> <<I("crc_table_init")>>

Generate ==
    /\ phase = "action"
    /\ opts[1].Action \in {"generate_h", "generate_c", "generate_c_main", "generate_table"}
    /\ ParseTree(opts[1], Generated(opts[1].Action))
    /\ phase' = "generating"
    /\ UNCHANGED <<argv, taken, values, opts, status, printed>>

\* Only the output file can fail to be written.
WriteOutput ==
    /\ phase = "generating"
    /\ outcome = "done"
    /\ \/ Exit(0) /\ printed' = out_str
       \/ Defined(opts[1].OutputFile) /\ Exit(1) /\ Quietly

\* Nothing catches what the parser raises.
Traceback ==
    /\ phase = "generating"
    /\ outcome \notin {"running", "done"}
    /\ Exit(1) /\ Quietly

-----------------------------------------------------------------------------
CallParser ==
    /\ phase = "caller"
    /\ outcome = "idle"
    /\ \E src \in Texts : ParseText(src, lex)
    /\ UNCHANGED main

Parse == ParserStep /\ UNCHANGED main

Next ==
    \/ TakeArgument \/ FinishOptions \/ PrintParameters
    \/ CheckString \/ CheckHexString \/ CheckFile
    \/ Generate \/ WriteOutput \/ Traceback
    \/ CallParser \/ Parse

\* A program does not stop in the middle of the parser: while that is running
\* steps are taken.
RunsOn == []<>(outcome # "running") \/ []<><<TRUE>>_vars

Spec == Init /\ [][Next]_vars /\ RunsOn

-----------------------------------------------------------------------------
\* The parser as its callers see it.
ParserStatus == IF outcome \in {"idle", "running", "done"} THEN outcome ELSE "failed"

Printer == INSTANCE MacroMeaning
    WITH printed <- IF outcome = "done" THEN SelectSeq(out_str, LAMBDA l : l \notin {SP, NL}) ELSE << >>,
         status <- ParserStatus

(***************************************************************************)
(* The parser prints what the syntax tree of the text says, however symbols *)
(* expand to texts with alternatives of their own, and wherever the text    *)
(* has spaces and line feeds; and it comes to an end.                       *)
(***************************************************************************)
PrintsTheMeaning == Printer!Spec

(***************************************************************************)
(* The parser takes the texts of the grammar and no others: what it reads   *)
(* while nothing is printed is held to it as well.                          *)
(***************************************************************************)
TakesTheGrammar ==
    phase = "caller" /\ outcome \notin {"idle", "running"}
        /\ (\A i \in DOMAIN source.text : source.text[i] \notin {SP, NL, Id("include_file")})
        => (outcome = "done") = IsData(opt, source.text, TRUE)

-----------------------------------------------------------------------------
(***************************************************************************)
(* Each parameter is what the last option says that sets it, be it its own  *)
(* or --model: an option before --model is overruled.                       *)
(***************************************************************************)
LastWordCounts ==
    \A o \in CrcParameters :
        LET setting == {i \in 1 .. taken : OptionOf(argv[i]) \in {o, "model"}}
            last == argv[Max(setting)]
        IN IF setting = {} THEN values[o] = << >>
           ELSE values[o] = << IF OptionOf(last) = "model"
                               THEN Crc!models[Lower(ValueOf(last))].params[o] ELSE ValueOf(last) >>

IsGenerating(o) == o.Action \notin NeedsParameters \/ o.Action = "generate_table"

(***************************************************************************)
(* The attributes that the rest of the program reads together fit together: *)
(* words keep to the width, a checksum is not computed with parameters      *)
(* missing, nor a file generated for several algorithms, and the table of   *)
(* a generated file has the width of its index.                             *)
(***************************************************************************)
OptionsConsistent ==
    opts # << >> =>
        LET o == opts[1]
            all == {o.Width, o.Poly, o.ReflectIn, o.XorIn, o.ReflectOut, o.XorOut}
        IN /\ \A word \in {o.Poly, o.XorIn, o.XorOut} :
                 Defined(word) /\ Defined(o.Mask) => word[1] \subseteq o.Mask[1]
           /\ o.UndefinedCrcParameters = ~AllDefined(all)
           /\ o.Action \in NeedsParameters => AllDefined(all)
           /\ IF IsGenerating(o)
              THEN Cardinality(o.Algorithm) = 1 /\ o.TableWidth = 2 ^ o.TableIdxWidth
              ELSE o.Algorithm # {} /\ o.TableIdxWidth = 8

\* What can still go wrong when the options are accepted.
Verbose(o) == o.Verbose
NoHex(o) == o.Action = "check_hexstring" /\ \E i \in DOMAIN o.CheckHexString[1] :
                                               o.CheckHexString[1][i] \notin HexDigit
EvenPoly(o) ==
    /\ o.Action \in {"check_string", "check_hexstring"}
    /\ 0 \notin o.Poly[1]
    /\ Cardinality(o.Algorithm) > 1
MacroInName(o) == Defined(o.IncludeFile) /\ o.IncludeFile[1].node = "id"

(***************************************************************************)
(* Options that are accepted do their work.  What fails is a file, a string *)
(* that is no hex string, an even polynomial (only warned of) that makes    *)
(* the algorithms differ, an include file with a $ in its name, and         *)
(* --verbose, which always does.                                            *)
(***************************************************************************)
AcceptedOptionsWork ==
    phase = "exited" /\ opts # << >> =>
        LET o == opts[1] IN
        \/ status = 0 /\ printed # << >>
        \/ Verbose(o) \/ NoHex(o) \/ EvenPoly(o) \/ MacroInName(o)
        \/ o.Action = "check_file" \/ Defined(o.OutputFile)

(***************************************************************************)
(* A generated C file, with the header of the same options, declares what   *)
(* it uses and agrees with it on the cfg, for every choice of parameters    *)
(* left to run time; and a program sets every member of the cfg.  The one   *)
(* exception is the type crc_t in xtoi, which takes no --symbol-prefix.     *)
(***************************************************************************)
GeneratedCompiles ==
    LET Sound(o, c) ==
            /\ Compiles(c, IF o.SymbolPrefix = "crc_" THEN {} ELSE {Name("crc_", "t")})
            /\ o.Action = "generate_c_main" => AssignedFields(c) = Fields(c)
    IN phase = "exited" /\ status = 0 /\ opts # << >>
           /\ opts[1].Action \in {"generate_c", "generate_c_main"}
           => Sound(opts[1], COf(Meaning(opts[1], <<I("h_template")>>, TRUE) \o printed))
=============================================================================
