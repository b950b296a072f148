----------------------------- MODULE MacroLexer -----------------------------
(***************************************************************************)
(* Class Lexer of pycrc (crc_lexer.py).                                     *)
(*                                                                          *)
(* A text is a sequence of lexemes, pairs of a kind and what is written:    *)
(*    id    $name         open  {:          close  :}                       *)
(*    esc   $$            bad   a $ that begins nothing                     *)
(*    nl    line feed     sp    spaces      lp, rp  parentheses             *)
(*    op    a comparison  num   a number    word    a name or "a name"      *)
(*    and, or             with the space behind them                        *)
(*    any other kind: other characters                                      *)
(* What a lexeme is read as depends on the state of the lexer.  A lexer is  *)
(* a record of the attributes input_str, text, next_token and state.        *)
(***************************************************************************)
EXTENDS Integers, Sequences, FiniteSetsExt

None == "None"

Kind(lexeme) == lexeme[1]
Written(lexeme) == lexeme[2]

Id(name) == <<"id", name>>
Word(w) == <<"word", w>>
Num(n) == <<"num", n>>
Op(o) == <<"op", o>>
Text(t) == <<"text", t>>
If == Id("if")
Elif == Id("elif")
Else == Id("else")
Open == <<"open", "{:">>
Close == <<"close", ":}">>
LP == <<"lp", "(">>
RP == <<"rp", ")">>
And == <<"and", "and ">>
Or == <<"or", "or ">>
NL == <<"nl", "\n">>
SP == <<"sp", " ">>
Escape == <<"esc", "$$">>
Dollar == <<"bad", "$">>

\* The lexemes that begin with $, {: or :}.
Special == {"id", "open", "close", "esc", "bad"}

NewLexer == [input_str |-> << >>, text |-> << >>, next_token |-> None, state |-> "gibberish"]

set_str(lex, input_str) ==
    [lex EXCEPT !.input_str = input_str, !.text = << >>, !.next_token = None]

set_state(lex, new_state) == [lex EXCEPT !.state = new_state, !.next_token = None]

prepend(lex, in_str) == [lex EXCEPT !.input_str = in_str \o @]

\* A line feed that is all that is left is not skipped.
advance(lex, skip_nl) ==
    [lex EXCEPT !.next_token = None,
                !.input_str = IF skip_nl /\ Len(@) > 1 /\ @[1] = NL THEN Tail(@) ELSE @]

\* lstrip
RECURSIVE SkipSpaces(_)
SkipSpaces(s) == IF s # << >> /\ s[1] = SP THEN SkipSpaces(Tail(s)) ELSE s

\* Mutant: conditionally means never.
delete_spaces_Strict(lex, skip_unconditional) ==
    IF skip_unconditional
    THEN [lex EXCEPT !.next_token = None, !.input_str = SkipSpaces(@)]
    ELSE lex

delete_spaces(lex, skip_unconditional) ==
    LET new_input == SkipSpaces(lex.input_str) IN
    IF skip_unconditional \/ (new_input # << >> /\ new_input[1] \in {If, Elif, Else})
    THEN [lex EXCEPT !.next_token = None, !.input_str = new_input]
    ELSE lex

-----------------------------------------------------------------------------
\* The first n lexemes become the token's text.
Token(lex, n, token) ==
    [lex EXCEPT !.next_token = token,
                !.text = SubSeq(lex.input_str, 1, n),
                !.input_str = SubSeq(lex.input_str, n + 1, Len(lex.input_str))]

\* Gibberish reaches to the next special character; a lone $ at the end is
\* gibberish too, any other is left where it is.
parse_gibberish(lex) ==
    LET s == lex.input_str
        specials == {i \in DOMAIN s : Kind(s[i]) \in Special}
    IN CASE Kind(s[1]) = "id" -> Token(lex, 1, "identifier")
         [] Kind(s[1]) = "open" -> Token(lex, 1, "block_open")
         [] Kind(s[1]) = "close" -> Token(lex, 1, "block_close")
         [] Kind(s[1]) = "esc" -> [Token(lex, 1, "gibberish") EXCEPT !.text = <<Dollar>>]
         [] Kind(s[1]) = "bad" /\ Len(s) > 1 ->
                [lex EXCEPT !.next_token = "unknown", !.text = <<Dollar>>]
         [] OTHER ->
                Token(lex, IF specials = {} \/ Len(s) = 1 THEN Len(s) ELSE Min(specials) - 1,
                      "gibberish")

ExpressionTokens ==
    [id |-> "identifier", num |-> "num", op |-> "op", and |-> "and", or |-> "or",
     word |-> "str", lp |-> "par_open", rp |-> "par_close"]

parse_expr(lex) ==
    LET rest == [lex EXCEPT !.input_str = SkipSpaces(@)] IN
    IF rest.input_str = << >> THEN [rest EXCEPT !.next_token = "EOF"]
    ELSE IF Kind(rest.input_str[1]) \in DOMAIN ExpressionTokens
         THEN Token(rest, 1, ExpressionTokens[Kind(rest.input_str[1])])
         ELSE [rest EXCEPT !.next_token = "unknown"]

\* _parse_next
parse_next(lex) ==
    CASE lex.input_str = << >> -> [lex EXCEPT !.next_token = "EOF"]
      [] lex.input_str # << >> /\ lex.state = "gibberish" -> parse_gibberish(lex)
      [] lex.input_str # << >> /\ lex.state = "expr" -> parse_expr(lex)

\* The token is read once and kept.
peek(lex) == IF lex.next_token = None THEN parse_next(lex) ELSE lex
=============================================================================
