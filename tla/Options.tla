------------------------------ MODULE Options ------------------------------
(***************************************************************************)
(* Class Options of pycrc (crc_opt.py): optparse takes the arguments one    *)
(* after the other and keeps what each option says, a model saying six      *)
(* things at once; then everything is checked and put together.             *)
(*                                                                          *)
(* An argument is a triple: an option ("" for a positional argument),       *)
(* whether check_hex or check_bool can read its value, and the value.       *)
(* Widths are numbers, values of the width are words (sets of bit           *)
(* positions), strings sequences of octets, hex strings of digits.          *)
(* What may be None is a sequence of at most one value.                     *)
(***************************************************************************)
EXTENDS SymbolTable

Crc == INSTANCE CrcModels

CONSTANTS
    CommandLines,   \* sequences of arguments
    Lower(_),       \* str.lower
    Upper(_)        \* str.upper

CrcParameters == {"width", "poly", "reflect_in", "xor_in", "reflect_out", "xor_out"}
Strings == {"generate", "algorithm", "c_std", "symbol_prefix", "crc_type", "include_file", "output_file",
            "check_string", "check_hexstring", "check_file"}
Numbers == {"table_idx_width"}

\* The defaults of the options.
Defaults ==
    [o \in CrcParameters \cup Strings \cup Numbers \cup {"verbose", "args"} |->
        CASE o = "algorithm" -> <<"all">>
          [] o = "c_std" -> <<"C99">>
          [] o = "verbose" -> FALSE
          [] OTHER -> << >>]

\* Mutant: the initial value of a model is forgotten.
model_cb_NoXorIn(name, vals) ==
    [o \in DOMAIN vals |->
        IF o \in CrcParameters \ {"xor_in"} THEN <<Crc!models[name].params[o]>> ELSE vals[o]]

model_cb(name, vals) ==
    [o \in DOMAIN vals |->
        IF o \in CrcParameters THEN <<Crc!models[name].params[o]>> ELSE vals[o]]

OptionOf(arg) == arg[1]
IsReadable(arg) == arg[2]
ValueOf(arg) == arg[3]

\* Whether optparse can do anything with an argument; it exits with 2 if not.
Acceptable(arg) ==
    IsReadable(arg) /\ (OptionOf(arg) = "model" => Lower(ValueOf(arg)) \in Crc!getList)

Stored(arg, vals) ==
    CASE OptionOf(arg) = "model" -> model_cb(Lower(ValueOf(arg)), vals)
      [] OptionOf(arg) = "verbose" -> [vals EXCEPT !.verbose = TRUE]
      [] OptionOf(arg) = "" -> [vals EXCEPT !.args = Append(@, ValueOf(arg))]
      [] OTHER -> [vals EXCEPT ![OptionOf(arg)] = <<ValueOf(arg)>>]

-----------------------------------------------------------------------------
Algorithm(vals) ==
    LET alg == Lower(vals.algorithm[1]) IN
    CASE alg = "all" -> Algorithms
      [] alg \in Algorithms -> {alg}
      [] OTHER -> {}

Actions == [h |-> "generate_h", c |-> "generate_c"] @@ ("c-main" :> "generate_c_main")
               @@ [table |-> "generate_table"]

\* The action of the last of the four that is given, the default if none is.
Action(vals) ==
    CASE Defined(vals.generate) -> Actions[Lower(vals.generate[1])]
      [] ~Defined(vals.generate) /\ Defined(vals.check_file) -> "check_file"
      [] ~Defined(vals.generate) /\ ~Defined(vals.check_file) /\ Defined(vals.check_hexstring) ->
             "check_hexstring"
      [] OTHER -> "check_string"

OpCount(vals) ==
    Cardinality({o \in {"check_string", "check_hexstring", "check_file", "generate"} : Defined(vals[o])})

UndefinedParameters(vals) == {o \in CrcParameters : ~Defined(vals[o])}

NeedsParameters == {"check_string", "check_hexstring", "check_file", "generate_table"}

\* The errors of parse itself: it exits with 1.
Rejected(vals) ==
    \/ Defined(vals.table_idx_width) /\ vals.table_idx_width[1] \notin {1, 2, 4, 8}
    \/ Defined(vals.width) /\ vals.width[1] <= 0
    \/ Algorithm(vals) = {}
    \/ Upper(vals.c_std[1]) \notin {"ANSI", "C89", "C99"}
    \/ /\ Defined(vals.generate)
       /\ \/ Lower(vals.generate[1]) \notin DOMAIN Actions
          \/ IF Action(vals) = "generate_table"
             THEN ~(Algo_Table_Driven \subseteq Algorithm(vals))
             ELSE Cardinality(Algorithm(vals)) # 1
    \/ OpCount(vals) > 1
    \/ Defined(vals.args)
    \/ UndefinedParameters(vals) # {} /\ Action(vals) \in NeedsParameters

\* Mutant: the polynomial keeps its bits above the width.
WithinWidth_Not(vals, value) == value

\* A value loses the bits above the width.
WithinWidth(vals, value) ==
    IF Defined(vals.width) /\ Defined(value)
    THEN <<value[1] \cap Crc!Ones(vals.width[1])>> ELSE value

\* The attributes when nothing was rejected.  Checksums are computed with
\* tables of 256 entries, whatever the option says, but TableWidth is still
\* that of the option.
Parsed(vals) ==
    LET idx_width == IF Defined(vals.table_idx_width) THEN vals.table_idx_width[1] ELSE 8
        width == vals.width
    IN [Width |-> width,
        Poly |-> WithinWidth(vals, vals.poly),
        XorIn |-> WithinWidth(vals, vals.xor_in),
        XorOut |-> WithinWidth(vals, vals.xor_out),
        ReflectIn |-> vals.reflect_in,
        ReflectOut |-> vals.reflect_out,
        MSB_Mask |-> IF Defined(width) THEN <<{width[1] - 1}>> ELSE << >>,
        Mask |-> IF Defined(width) THEN <<Crc!Ones(width[1])>> ELSE << >>,
        TableIdxWidth |-> IF Defined(vals.generate) THEN idx_width ELSE 8,
        TableWidth |-> 2 ^ idx_width,
        UndefinedCrcParameters |-> UndefinedParameters(vals) # {},
        Algorithm |-> IF Defined(vals.generate) /\ Action(vals) = "generate_table"
                      THEN Algo_Table_Driven ELSE Algorithm(vals),
        CStd |-> IF Upper(vals.c_std[1]) = "C99" THEN "C99" ELSE "C89",
        SymbolPrefix |-> IF Defined(vals.symbol_prefix) THEN vals.symbol_prefix[1] ELSE "crc_",
        CrcType |-> vals.crc_type,
        IncludeFile |-> vals.include_file,
        OutputFile |-> vals.output_file,
        Action |-> Action(vals),
        CheckString |-> IF Defined(vals.check_string) THEN vals.check_string[1] ELSE Crc!CheckString,
        CheckHexString |-> vals.check_hexstring,
        CheckFile |-> vals.check_file,
        Verbose |-> vals.verbose]
=============================================================================
