---------------------------- MODULE CTemplates -----------------------------
(***************************************************************************)
(* The templates of pycrc (crc_symtable.py), what the generated header and  *)
(* C files are made from.                                                   *)
(*                                                                          *)
(* Of the C they keep what decides whether it compiles: names, parameters   *)
(* and arguments in parentheses, the braces of function bodies, the ; of    *)
(* declarations, members of the cfg_t structure, and stdbool.h.  A comment  *)
(* is one lexeme.                                                           *)
(***************************************************************************)
EXTENDS MacroLanguage

\* A name of the C; those that are not written out begin with a prefix.
Name(prefix, base) == <<"name", prefix, base>>
C(lexeme) == T(<<"c", lexeme>>)
Member(field) == T(<<"member", field>>)         \* cfg->field
Assigned(field) == T(<<"assigned", field>>)     \* cfg->field = ...
Field(field) == T(<<"field", field>>)           \* in the structure itself
Called(name) == T(Name("", name))

-----------------------------------------------------------------------------
\* Conditions that many templates share.
Undefined(name) == Is(name, "Undefined")
True(name) == Is(name, "True")
NotTrue(name) == Isnt(name, "True")
False(name) == Is(name, "False")

\* $if ($crc_x != Undefined) {:$crc_x:} $else {:cfg->field:}
cfg_or_constant(crc_x, field) == <<Either(Isnt(crc_x, "Undefined"), <<I(crc_x)>>, <<Member(field)>>)>>

\* A value shifted to the left when the table is wider than the CRC.
shifted(cfg_x) == <<Either(True("crc_do_shift"), <<I(cfg_x), I("cfg_shift")>>, <<I(cfg_x)>>)>>

Shift == When(True("crc_do_shift"), <<I("cfg_shift")>>)
BySize(width, idx) == <<I(width), I(idx), I("cfg_shift")>>

Reflected(values) == <<I("crc_reflect_function"), T(LP)>> \o values \o <<T(RP)>>
ReflectedCrc == Reflected(<<I("cfg_width")>>)

-----------------------------------------------------------------------------
crc_final_value ==
    << Choice(<<Arm(Is("crc_algorithm", "table-driven"),
                    <<Either(Comparison(Id("crc_reflect_in"), "==", Id("crc_reflect_out")),
                             <<Shift, I("crc_xor_out")>>,
                             Reflected(<<Shift, I("crc_width")>>) \o <<I("crc_xor_out")>>)>>),
                Arm(True("crc_reflect_out"), Reflected(<<I("crc_width")>>) \o <<I("crc_xor_out")>>)>>,
              <<Block(<<I("crc_xor_out")>>)>>) >>

\* The structure for what is not known before the generated code runs.
cfg_struct ==
    << When(Undefined("crc_width"), <<Field("width")>>),
       When(Undefined("crc_poly"), <<I("crc_t"), Field("poly")>>),
       When(Undefined("crc_reflect_in"), <<I("c_bool"), Field("reflect_in")>>),
       When(Undefined("crc_xor_in"), <<I("crc_t"), Field("xor_in")>>),
       When(Undefined("crc_reflect_out"), <<I("c_bool"), Field("reflect_out")>>),
       When(Undefined("crc_xor_out"), <<I("crc_t"), Field("xor_out")>>),
       When(Undefined("crc_width"),
            <<I("crc_t"), Field("msb_mask"), I("crc_t"), Field("crc_mask"), Field("crc_shift")>>) >>

include == When(Isnt("include_file", "Undefined"), <<I("include_file")>>)

h_template ==
    << I("source_header"), I("header_protection"), include,
       When(Both(True("undefined_parameters"), Isnt("c_std", "C89")), <<C("stdbool")>>),
       I("underlying_crc_t"), I("crc_t"), C(";"),
       When(True("undefined_parameters"), cfg_struct \o <<I("cfg_t"), C(";")>>),
       When(Both(True("use_reflect_func"), NotTrue("static_reflect_func")),
            <<I("crc_reflect_doc"), I("crc_reflect_function_def"), C(";")>>),
       When(Both(Is("crc_algorithm", "table-driven"), NotTrue("constant_crc_table")),
            <<I("crc_table_gen_doc"), I("crc_table_gen_function_def"), C(";")>>),
       I("crc_init_doc"),
       Choice(<<Arm(False("constant_crc_init"), <<I("crc_init_function_def"), C(";")>>),
                Arm(Is("c_std", "C89"),
                    <<C("#define"), I("crc_init_function"), T(LP), T(RP), I("crc_init_value"), Shift>>)>>,
              <<Block(<<I("crc_init_function_def"), I("nop"), C("{"), I("crc_init_value"), Shift, C("}")>>)>>),
       I("crc_update_doc"), I("crc_update_function_def"), C(";"),
       I("crc_finalize_doc"),
       Either(True("inline_crc_finalize"),
              <<Either(Is("c_std", "C89"),
                       <<C("#define"), I("crc_finalize_function"), T(LP), T(RP), I("crc_final_value")>>,
                       <<I("crc_finalize_function_def"), I("nop"), C("{"), I("crc_final_value"), C("}")>>)>>,
              <<I("crc_finalize_function_def"), C(";")>>),
       I("header_protection") >>

source_header ==
    << T(Text("comment")), I("filename"), I("datetime"), I("program_version"), I("program_url"),
       I("crc_width"), I("crc_poly"), I("crc_xor_in"), I("crc_reflect_in"), I("crc_xor_out"),
       I("crc_reflect_out"), I("crc_algorithm") >>

Comment == <<T(Text("comment"))>>
CommentOnCfg(cond) == Comment \o <<When(cond, Comment)>>

\* $crc_t $function(const $cfg_t *cfg, parameters) or without cfg
Signature(function, cfg, parameters) ==
    <<I("crc_t"), I(function), T(LP)>> \o (IF cfg THEN <<I("cfg_t")>> ELSE << >>)
    \o parameters \o <<T(RP)>>

crc_reflect_function_def == Signature("crc_reflect_function", FALSE, <<I("crc_t")>>)

crc_reflect_function_body ==
    LET either(name) == OneOf(Undefined(name), True(name)) IN
    << When(OneOf(either("crc_reflect_in"), either("crc_reflect_out")),
            <<I("crc_reflect_doc"), I("crc_reflect_function_def"), I("nop"),
              C("{"), I("crc_t"), C("}")>>) >>

crc_table_gen_function_def == <<I("crc_table_gen_function"), T(LP), I("cfg_t"), T(RP)>>

crc_init_function_def ==
    <<Either(False("constant_crc_init"), Signature("crc_init_function", TRUE, << >>),
             Signature("crc_init_function", FALSE, << >>))>>

crc_update_function_def ==
    <<Either(NotTrue("simple_crc_update_def"), Signature("crc_update_function", TRUE, <<I("crc_t")>>),
             Signature("crc_update_function", FALSE, <<I("crc_t")>>))>>

crc_finalize_function_def ==
    <<Either(NotTrue("simple_crc_finalize_def"), Signature("crc_finalize_function", TRUE, <<I("crc_t")>>),
             Signature("crc_finalize_function", FALSE, <<I("crc_t")>>))>>

-----------------------------------------------------------------------------
c_template ==
    << I("source_header"), include, I("header_filename"),
       When(OneOf(True("undefined_parameters"),
                  OneOf(Is("crc_algorithm", "bit-by-bit"), Is("crc_algorithm", "bit-by-bit-fast"))),
            <<When(Isnt("c_std", "C89"), <<C("stdbool")>>)>>),
       When(Both(True("use_reflect_func"), True("static_reflect_func")),
            <<I("crc_reflect_function_def"), C(";")>>),
       Choice(<<Arm(Is("crc_algorithm", "bit-by-bit"), <<I("c_bit_by_bit")>>),
                Arm(Is("crc_algorithm", "bit-by-bit-fast"), <<I("c_bit_by_bit_fast")>>),
                Arm(Is("crc_algorithm", "table-driven"), <<I("c_table_driven")>>)>>, << >>) >>

c_table ==
    Comment \o
    << When(True("undefined_parameters"), <<I("crc_init_function")>> \o Comment),
       Either(NotTrue("constant_crc_table"),
              <<I("crc_t"), Called("crc_table"), C(";"), I("crc_table_width")>>,
              <<I("crc_t"), Called("crc_table"), C(";"), I("crc_table_width"), I("crc_table_init")>>) >>

\* crc = reflect(crc) if it is to be reflected, which cfg may have to tell.
ReflectIf(crc_x, member, reflected) ==
    Choice(<<Arm(Undefined(crc_x), <<member>> \o reflected), Arm(True(crc_x), reflected)>>, << >>)

c_bit_by_bit ==
    << When(True("use_reflect_func"), <<I("crc_reflect_function_body")>>),
       When(False("constant_crc_init"),
            <<I("crc_init_doc"), I("crc_init_function_def"), I("nop"),
              C("{"), I("c_bool"), I("crc_t"), I("cfg_xor_in"), I("cfg_width"), I("cfg_poly"),
              I("cfg_msb_mask"), I("cfg_mask"), C("}")>>),
       I("crc_update_doc"), I("crc_update_function_def"), I("nop"),
       C("{"), I("c_bool"), ReflectIf("crc_reflect_in", I("cfg_reflect_in"), Reflected(<< >>)),
       I("cfg_msb_mask"), I("cfg_poly"), I("cfg_mask"), I("cfg_mask"), C("}"),
       I("crc_finalize_doc"), I("crc_finalize_function_def"), I("nop"),
       C("{"), I("c_bool"), I("cfg_width"), I("cfg_msb_mask"), I("cfg_poly"),
       ReflectIf("crc_reflect_out", I("cfg_reflect_out"), ReflectedCrc),
       I("cfg_xor_out"), I("cfg_mask"), C("}") >>

c_bit_by_bit_fast ==
    << When(True("use_reflect_func"), <<I("crc_reflect_function_body")>>),
       When(False("constant_crc_init"),
            <<I("crc_init_doc"), I("crc_init_function_def"), I("nop"),
              C("{"), I("cfg_xor_in"), I("cfg_mask"), C("}")>>),
       I("crc_update_doc"), I("crc_update_function_def"), I("nop"),
       C("{"), I("c_bool"),
       When(Undefined("crc_reflect_in"), <<I("cfg_reflect_in")>> \o Reflected(<< >>)),
       Either(True("crc_reflect_in"), << >>, << >>),
       I("cfg_msb_mask"), I("cfg_poly"), I("cfg_mask"), I("cfg_mask"), C("}"),
       When(NotTrue("inline_crc_finalize"),
            <<I("crc_finalize_doc"), I("crc_finalize_function_def"), I("nop"),
              C("{"), ReflectIf("crc_reflect_out", Member("reflect_out"), ReflectedCrc),
              I("cfg_xor_out"), I("cfg_mask"), C("}")>>) >>

\* The initial register, shifted, and reflected if the input is.
table_driven_init ==
    LET initial == <<I("cfg_xor_in"), I("cfg_mask")>>
        reflected == Reflected(initial \o <<I("cfg_width")>>) \o <<Shift>>
    IN << Choice(<<Arm(Undefined("crc_reflect_in"),
                       <<I("cfg_reflect_in")>> \o reflected \o initial \o <<Shift>>),
                   Arm(True("crc_reflect_in"), reflected)>>,
                 <<Block(initial \o <<Shift>>)>>) >>

table_gen ==
    LET entry == <<Either(True("crc_do_shift"),
                          Reflected(<<I("cfg_shift"), I("cfg_width")>>) \o <<I("cfg_shift")>>,
                          ReflectedCrc)>>
    IN << I("crc_t"), I("cfg_table_width"),
          ReflectIf("crc_reflect_in", Member("reflect_in"), Reflected(<<I("cfg_table_idx_width")>>)),
          Either(True("crc_do_shift"), BySize("cfg_width", "cfg_table_idx_width"),
                 <<I("cfg_width"), I("cfg_table_idx_width")>>),
          I("cfg_table_idx_width"), I("cfg_msb_mask_shifted"), I("cfg_poly_shifted"),
          ReflectIf("crc_reflect_in", Member("reflect_in"), entry),
          Called("crc_table"), I("cfg_mask_shifted") >>

c_table_driven ==
    << I("c_table"),
       When(True("use_reflect_func"), <<I("crc_reflect_function_body")>>),
       When(False("constant_crc_init"),
            <<I("crc_init_doc"), I("crc_init_function_def"), I("nop"), C("{")>>
            \o table_driven_init \o <<C("}")>>),
       When(NotTrue("constant_crc_table"),
            <<I("crc_table_gen_doc"), I("crc_table_gen_function_def"), C("{")>> \o table_gen \o <<C("}")>>),
       I("crc_update_doc"), I("crc_update_function_def"), I("nop"),
       C("{"),
       Either(Undefined("crc_reflect_in"),
              <<Member("reflect_in"), I("crc_table_core_algorithm_ri"), I("crc_table_core_algorithm_ni")>>,
              <<Choice(<<Arm(True("crc_reflect_in"), <<I("crc_table_core_algorithm_ri")>>),
                         Arm(False("crc_reflect_in"), <<I("crc_table_core_algorithm_ni")>>)>>, << >>)>>),
       I("cfg_mask_shifted"), C("}"),
       When(False("inline_crc_finalize"),
            <<I("crc_finalize_doc"), I("crc_finalize_function_def"), I("nop"), C("{"), Shift,
              Choice(<<Arm(OneOf(Undefined("crc_reflect_in"), Undefined("crc_reflect_out")),
                           <<Choice(<<Arm(Both(Undefined("crc_reflect_in"), Undefined("crc_reflect_out")),
                                          <<Member("reflect_in"), Member("reflect_out")>>),
                                      Arm(Undefined("crc_reflect_out"),
                                          <<When(True("crc_reflect_in"), << >>), Member("reflect_out")>>),
                                      Arm(Undefined("crc_reflect_in"),
                                          <<When(True("crc_reflect_out"), << >>), Member("reflect_in")>>)>>,
                                    << >>)>> \o ReflectedCrc),
                       Arm(Comparison(Id("crc_reflect_in"), "!=", Id("crc_reflect_out")), ReflectedCrc)>>,
                     << >>),
              I("cfg_xor_out"), I("cfg_mask"), C("}")>>) >>

-----------------------------------------------------------------------------
\* print_params(const $cfg_t *cfg) or (void)
print_params == <<Called("print_params"), T(LP), When(True("undefined_parameters"), <<I("cfg_t")>>), T(RP)>>

\* A call, with &cfg as its first argument if cond.
CallOn(function, cond) == <<I(function), T(LP), When(cond, <<C("&cfg")>>), T(RP)>>

main_template ==
    << include, When(Isnt("c_std", "C89"), <<C("stdbool")>>), I("c_bool"), I("c_false") >>
    \o print_params \o << C(";"), I("getopt_template") >>
    \o print_params
    \o << C("{"), I("cfg_width"), I("cfg_width"), I("cfg_poly"),
          Either(Undefined("crc_reflect_in"), <<I("cfg_reflect_in")>>,
                 <<Either(True("crc_reflect_in"), << >>, << >>)>>),
          I("cfg_xor_in"),
          Either(Undefined("crc_reflect_out"), <<I("cfg_reflect_out")>>,
                 <<Either(True("crc_reflect_out"), << >>, << >>)>>),
          I("cfg_xor_out"), I("cfg_mask"), I("cfg_msb_mask"), C("}"),
          Called("main"), T(LP), T(RP), C("{"),
          When(True("undefined_parameters"), <<I("cfg_t")>>),
          I("crc_t"),
          Called("get_config"), T(LP), When(True("undefined_parameters"), <<C("&cfg")>>), T(RP),
          When(Both(Is("crc_algorithm", "table-driven"), NotTrue("constant_crc_table")),
               <<I("crc_table_gen_function"), T(LP), C("&cfg"), T(RP)>>) >>
    \o CallOn("crc_init_function", NotTrue("constant_crc_init"))
    \o CallOn("crc_update_function", NotTrue("simple_crc_update_def"))
    \o CallOn("crc_finalize_function", NotTrue("simple_crc_finalize_def"))
    \o << Called("print_params"), T(LP), When(True("undefined_parameters"), <<C("&cfg")>>), T(RP), C("}") >>

AnyFlag == OneOf(Undefined("crc_reflect_in"), Undefined("crc_reflect_out"))
AnyValue == OneOf(Undefined("crc_poly"), OneOf(Undefined("crc_xor_in"), Undefined("crc_xor_out")))

\* The C functions that read the command line of the generated program.
atob == <<I("c_bool"), Called("atob"), T(LP), T(RP)>>
xtoi == <<T(Name("crc_", "t")), Called("xtoi"), T(LP), T(RP)>>
get_config == <<Called("get_config"), T(LP), When(True("undefined_parameters"), <<I("cfg_t")>>), T(RP)>>

\* case of an option: what it is read with, and where it is put
Option(crc_x, reader, field) ==
    When(Undefined(crc_x), (IF reader = "atoi" THEN << >> ELSE <<Called(reader), T(LP), T(RP)>>)
                           \o <<Assigned(field)>>)

getopt_template ==
    << When(AnyFlag, atob \o <<C(";")>>), When(AnyValue, xtoi \o <<C(";")>>) >>
    \o get_config \o <<C(";")>>
    \o << When(AnyFlag, atob \o <<C("{"), I("c_bool"), I("c_true"), I("c_false"), C("}")>>),
          When(AnyValue, xtoi \o <<C("{"), T(Name("crc_", "t")), C("}")>>) >>
    \o get_config
    \o << C("{"),
          Option("crc_width", "atoi", "width"),
          Option("crc_poly", "xtoi", "poly"),
          Option("crc_reflect_in", "atob", "reflect_in"),
          Option("crc_xor_in", "xtoi", "xor_in"),
          Option("crc_reflect_out", "atob", "reflect_out"),
          Option("crc_xor_out", "xtoi", "xor_out"),
          I("c_true"),
          When(Undefined("crc_width"),
               <<Assigned("msb_mask"), Member("width"), Assigned("crc_mask"), Member("msb_mask"),
                 Assigned("crc_shift"), Member("width")>>),
          When(Undefined("crc_poly"), <<Assigned("poly"), I("cfg_mask")>>),
          When(Undefined("crc_xor_in"), <<Assigned("xor_in"), I("cfg_mask")>>),
          When(Undefined("crc_xor_out"), <<Assigned("xor_out"), I("cfg_mask")>>),
          C("}") >>
=============================================================================
