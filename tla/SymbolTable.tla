---------------------------- MODULE SymbolTable ----------------------------
(***************************************************************************)
(* Class SymbolTable of pycrc (crc_symtable.py): the symbols of the macro   *)
(* language for the options of an invocation.                               *)
(*                                                                          *)
(* An attribute of opt that may be None is a sequence of at most one value; *)
(* opt.Algorithm, a mask, is the set of its algorithms.  Names of files and *)
(* what a comment says are one word each; only the include file is a node,  *)
(* for a $ in its name is read as the parser reads any.                     *)
(***************************************************************************)
EXTENDS CTemplates

Algo_Bit_by_Bit == {"bit-by-bit"}
Algo_Bit_by_Bit_Fast == {"bit-by-bit-fast"}
Algo_Table_Driven == {"table-driven"}
Algorithms == Algo_Bit_by_Bit \cup Algo_Bit_by_Bit_Fast \cup Algo_Table_Driven

Defined(value) == value # << >>
AllDefined(values) == << >> \notin values

\* __pretty_str, __pretty_hex and __pretty_bool
pretty(value) == IF Defined(value) THEN Num(value[1]) ELSE Word("Undefined")
pretty_bool(value) ==
    Word(CASE value = << >> -> "Undefined" [] value = <<TRUE>> -> "True" [] value = <<FALSE>> -> "False")

-----------------------------------------------------------------------------
\* __get_init_value: whether the initial value is known
get_init_value(opt) ==
    CASE opt.Algorithm = Algo_Bit_by_Bit -> AllDefined({opt.XorIn, opt.Width, opt.Poly})
      [] opt.Algorithm = Algo_Bit_by_Bit_Fast -> Defined(opt.XorIn)
      [] opt.Algorithm = Algo_Table_Driven -> AllDefined({opt.ReflectIn, opt.XorIn, opt.Width})
      [] OTHER -> TRUE

constant_crc_table(opt) == AllDefined({opt.Width, opt.Poly, opt.ReflectIn})

simple_crc_update_def(opt) ==
    \/ /\ opt.Algorithm \in {Algo_Bit_by_Bit, Algo_Bit_by_Bit_Fast}
       /\ AllDefined({opt.Width, opt.Poly, opt.ReflectIn})
    \/ opt.Algorithm = Algo_Table_Driven /\ AllDefined({opt.Width, opt.ReflectIn})

inline_crc_finalize(opt) ==
    /\ opt.Algorithm \in {Algo_Bit_by_Bit_Fast, Algo_Table_Driven}
    /\ AllDefined({opt.Width, opt.ReflectIn, opt.ReflectOut, opt.XorOut})

\* Mutant: bit-by-bit needs the polynomial only to update.
simple_crc_finalize_def_NoPoly(opt) ==
    CASE opt.Algorithm \in {Algo_Bit_by_Bit, Algo_Bit_by_Bit_Fast} ->
             AllDefined({opt.Width, opt.ReflectOut, opt.XorOut})
      [] opt.Algorithm = Algo_Table_Driven ->
             AllDefined({opt.Width, opt.ReflectIn, opt.ReflectOut, opt.XorOut})
      [] OTHER -> FALSE

simple_crc_finalize_def(opt) ==
    CASE opt.Algorithm = Algo_Bit_by_Bit -> AllDefined({opt.Width, opt.Poly, opt.ReflectOut, opt.XorOut})
      [] opt.Algorithm = Algo_Bit_by_Bit_Fast -> AllDefined({opt.Width, opt.ReflectOut, opt.XorOut})
      [] opt.Algorithm = Algo_Table_Driven ->
             AllDefined({opt.Width, opt.ReflectIn, opt.ReflectOut, opt.XorOut})
      [] OTHER -> FALSE

use_reflect_func(opt) == ~(opt.ReflectOut = <<FALSE>> /\ opt.ReflectIn = <<FALSE>>)

static_reflect_func(opt) ==
    /\ opt.Algorithm # Algo_Table_Driven
    /\ ~(Defined(opt.ReflectOut) /\ opt.Algorithm = Algo_Bit_by_Bit_Fast)

\* The elif of crc_algorithm: of several algorithms it names none.
crc_algorithm(opt) ==
    IF Cardinality(opt.Algorithm) = 1 THEN CHOOSE a \in opt.Algorithm : TRUE ELSE "UNDEFINED"

do_shift(opt) == opt.Algorithm = Algo_Table_Driven /\ (opt.Width = << >> \/ opt.Width[1] < 8)

-----------------------------------------------------------------------------
\* Words of the symbols that are no C.
OneWord == {"datetime", "program_version", "program_url", "filename", "header_filename",
            "header_protection", "underlying_crc_t"}

Parameters ==
    {"crc_width", "crc_poly", "crc_xor_in", "crc_xor_out", "crc_mask", "crc_msb_mask", "crc_shift",
     "crc_reflect_in", "crc_reflect_out"}

\* The values the constructor puts into the table.
Parameter(opt, id) ==
    CASE id = "crc_width" -> pretty(opt.Width)
      [] id = "crc_poly" -> pretty(opt.Poly)
      [] id = "crc_xor_in" -> pretty(opt.XorIn)
      [] id = "crc_xor_out" -> pretty(opt.XorOut)
      [] id = "crc_mask" -> pretty(opt.Mask)
      [] id = "crc_msb_mask" -> pretty(opt.MSB_Mask)
      [] id = "crc_shift" ->
             pretty(IF ~do_shift(opt) THEN <<0>>
                    ELSE IF Defined(opt.Width) THEN <<8 - opt.Width[1]>> ELSE << >>)
      [] id = "crc_reflect_in" -> pretty_bool(opt.ReflectIn)
      [] id = "crc_reflect_out" -> pretty_bool(opt.ReflectOut)

\* Each is read from the constant or, when that is Undefined, from cfg.
Configured ==
    [cfg_width |-> <<"crc_width", "width">>, cfg_poly |-> <<"crc_poly", "poly">>,
     cfg_reflect_in |-> <<"crc_reflect_in", "reflect_in">>, cfg_xor_in |-> <<"crc_xor_in", "xor_in">>,
     cfg_reflect_out |-> <<"crc_reflect_out", "reflect_out">>,
     cfg_xor_out |-> <<"crc_xor_out", "xor_out">>,
     cfg_table_idx_width |-> <<"crc_table_idx_width", "table_idx_width">>,
     cfg_table_width |-> <<"crc_table_width", "table_width">>,
     cfg_mask |-> <<"crc_mask", "crc_mask">>, cfg_msb_mask |-> <<"crc_msb_mask", "msb_mask">>,
     cfg_shift |-> <<"crc_shift", "crc_shift">>]

Shifted == [cfg_poly_shifted |-> "cfg_poly", cfg_mask_shifted |-> "cfg_mask",
            cfg_msb_mask_shifted |-> "cfg_msb_mask"]

GeneratedNames ==
    [crc_t |-> "t", cfg_t |-> "cfg_t", crc_reflect_function |-> "reflect",
     crc_table_gen_function |-> "table_gen", crc_init_function |-> "init",
     crc_update_function |-> "update", crc_finalize_function |-> "finalize"]

Decisions ==
    {"constant_crc_init", "constant_crc_table", "simple_crc_update_def", "inline_crc_finalize",
     "simple_crc_finalize_def", "use_reflect_func", "static_reflect_func", "crc_do_shift",
     "undefined_parameters", "use_cfg_t"}

Decision(opt, id) ==
    CASE id = "constant_crc_init" -> get_init_value(opt)
      [] id = "constant_crc_table" -> constant_crc_table(opt)
      [] id = "simple_crc_update_def" -> simple_crc_update_def(opt)
      [] id = "inline_crc_finalize" -> inline_crc_finalize(opt)
      [] id = "simple_crc_finalize_def" -> simple_crc_finalize_def(opt)
      [] id = "use_reflect_func" -> use_reflect_func(opt)
      [] id = "static_reflect_func" -> static_reflect_func(opt)
      [] id = "crc_do_shift" -> do_shift(opt)
      [] id \in {"undefined_parameters", "use_cfg_t"} -> opt.UndefinedCrcParameters

\* In C89 there is no bool.
c_bool == <<Either(Is("c_std", "C89"), << >>, <<C("bool")>>)>>

Templates ==
    [nop |-> << >>,
     c_bool |-> c_bool, c_true |-> c_bool, c_false |-> c_bool,
     source_header |-> source_header,
     crc_final_value |-> crc_final_value,
     h_template |-> h_template, c_template |-> c_template,
     main_template |-> main_template, getopt_template |-> getopt_template,
     c_table |-> c_table, c_bit_by_bit |-> c_bit_by_bit,
     c_bit_by_bit_fast |-> c_bit_by_bit_fast, c_table_driven |-> c_table_driven,
     crc_reflect_function_def |-> crc_reflect_function_def,
     crc_reflect_function_body |-> crc_reflect_function_body,
     crc_table_gen_function_def |-> crc_table_gen_function_def,
     crc_init_function_def |-> crc_init_function_def,
     crc_update_function_def |-> crc_update_function_def,
     crc_finalize_function_def |-> crc_finalize_function_def,
     crc_reflect_doc |-> Comment,
     crc_table_gen_doc |-> Comment \o <<I("cfg_t")>>,
     crc_init_doc |-> CommentOnCfg(True("use_cfg_t")),
     crc_update_doc |-> CommentOnCfg(NotTrue("simple_crc_update_def")),
     crc_finalize_doc |-> CommentOnCfg(NotTrue("simple_crc_finalize_def"))]

\* The inner loop of a table driven update, once for each part of an octet.
Repeated(opt, body) == FlattenSeq([i \in 1 .. 8 \div opt.TableIdxWidth |-> body])

core_algorithm_ni(opt) ==
    LET shr == IF Defined(opt.Width) THEN << >> ELSE BySize("cfg_width", "cfg_table_idx_width")
        reg_shift == <<Either(True("crc_do_shift"), <<I("cfg_table_idx_width"), I("cfg_shift")>>,
                              <<I("cfg_table_idx_width")>>)>>
    IN IF opt.Algorithm # Algo_Table_Driven THEN << >>
       ELSE Repeated(opt, shr \o <<I("crc_table_mask"), Called("crc_table")>> \o reg_shift
                          \o (IF opt.TableIdxWidth = 8 THEN <<I("cfg_mask_shifted")>> ELSE << >>))

core_algorithm_ri(opt) ==
    IF opt.Algorithm # Algo_Table_Driven THEN << >>
    ELSE Repeated(opt, <<Shift, I("crc_table_mask"), Called("crc_table"), I("cfg_table_idx_width")>>
                       \o (IF opt.TableIdxWidth = 8 THEN <<I("cfg_mask_shifted")>> ELSE << >>))

(***************************************************************************)
(* What getTerminal returns.  It keeps what it has computed in a table of   *)
(* the class, which another object with other options finds there; the      *)
(* program makes one object only, for which the values below are those.     *)
(***************************************************************************)
getTerminal(opt, id) ==
    CASE id \in DOMAIN Templates -> Value(Templates[id])
      [] id \in Decisions -> Value(<<T(pretty_bool(<<Decision(opt, id)>>))>>)
      [] id \in DOMAIN Configured -> Value(cfg_or_constant(Configured[id][1], Configured[id][2]))
      [] id \in DOMAIN Shifted -> Value(shifted(Shifted[id]))
      [] id \in DOMAIN GeneratedNames -> Value(<<T(Name(opt.SymbolPrefix, GeneratedNames[id]))>>)
      [] id \in OneWord -> Value(<<T(Text(id))>>)
      [] id \in Parameters -> Value(<<T(Parameter(opt, id))>>)
      [] id = "crc_table_idx_width" -> Value(<<T(Num(opt.TableIdxWidth))>>)
      [] id = "crc_table_width" -> Value(<<T(Num(2 ^ opt.TableIdxWidth))>>)
      [] id = "crc_table_mask" -> Value(<<T(Num(opt.TableWidth - 1))>>)
      [] id = "c_std" -> Value(<<T(Word(opt.CStd))>>)
      [] id = "crc_prefix" -> Value(<<T(Text(opt.SymbolPrefix))>>)
      [] id = "include_file" ->
             IF Defined(opt.IncludeFile) THEN Value(opt.IncludeFile) ELSE NoValue
      [] id = "crc_algorithm" -> Value(<<T(Word(crc_algorithm(opt)))>>)
      [] id = "crc_init_value" ->
             Value(IF get_init_value(opt) THEN <<T(Text("init"))>> ELSE << >>)
      [] id = "crc_table_init" ->
             Value(<<T(IF opt.Algorithm = Algo_Table_Driven /\ constant_crc_table(opt)
                       THEN Text("table") ELSE Num(0))>>)
      [] id = "crc_table_core_algorithm_ni" -> Value(core_algorithm_ni(opt))
      [] id = "crc_table_core_algorithm_ri" -> Value(core_algorithm_ri(opt))
      [] OTHER -> Unknown
=============================================================================
