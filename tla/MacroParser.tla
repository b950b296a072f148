---------------------------- MODULE MacroParser ----------------------------
(***************************************************************************)
(* Class MacroParser of pycrc (crc_parser.py): recursive descent over the   *)
(* tokens of the lexer, printing as it goes.  The value of a symbol is not  *)
(* parsed by a call of its own but prepended to what is left of the input.  *)
(*                                                                          *)
(* The functions that call each other in turn are frames of stack, the top  *)
(* first: "data" is _parse_data, "block" what _parse_data_block does behind *)
(* the data, "if" what _parse_if_block does behind a conditional block.     *)
(* outcome is how the parser ends, by the exception raised if it fails.     *)
(***************************************************************************)
EXTENDS MacroLanguage

VARIABLES
    source,     \* what is parsed: opt, the tree of the text if it has one, and the text
    lex,
    stack,
    out_str,
    outcome     \* "running", "done" or an exception

parser == <<source, lex, stack, out_str, outcome>>

Frame(at, do_print) == [at |-> at, do_print |-> do_print]
Top == Head(stack)
Current == peek(lex)
opt == source.opt

Raise(exception) ==
    /\ outcome' = exception
    /\ UNCHANGED <<source, lex, stack, out_str>>

-----------------------------------------------------------------------------
(***************************************************************************)
(* Expressions.  The results have the lexer behind the expression, a value  *)
(* - a truth value, of a term a text - and what was raised.                 *)
(***************************************************************************)
Result(lx, val) == [lex |-> lx, val |-> val, raised |-> None]
Failed(exception, lx) == [lex |-> lx, val |-> FALSE, raised |-> exception]

\* What a term in parentheses is: no text.
TruthValue == << <<"truth", "value">> >>

RECURSIVE exp_or(_, _, _), exp_and(_, _, _)

exp_term(options, lx) ==
    LET tok == peek(lx)
        Parenthesised(inner) ==
            IF inner.raised # None THEN inner
            ELSE IF inner.lex.next_token # "par_close" THEN Failed("ParseError", inner.lex)
            ELSE Result(advance(inner.lex, FALSE), TruthValue)
    IN CASE tok.next_token = "identifier" ->
                IF TermIsKnown(options, tok.text[1])
                THEN Result(advance(tok, FALSE), TermText(options, tok.text[1]))
                ELSE Failed("ParseError", tok)
         [] tok.next_token \in {"str", "num"} -> Result(advance(tok, FALSE), tok.text)
         [] tok.next_token = "par_open" -> Parenthesised(exp_or(options, advance(tok, FALSE), FALSE))
         [] OTHER -> Failed("UnboundLocalError", advance(tok, FALSE))

\* Numbers are recognised by matching, which a truth value cannot be.
exp_comparison(options, lx) ==
    LET Compared(lhs, operator, rhs) ==
            IF rhs.raised # None THEN rhs
            ELSE IF TruthValue \in {lhs.val, rhs.val} THEN Failed("TypeError", rhs.lex)
            ELSE Result(rhs.lex, Compare(Written(operator.text[1]), lhs.val, rhs.val))
        ByOperator(lhs, operator) ==
            IF operator.next_token # "op" THEN Failed("ParseError", operator)
            ELSE Compared(lhs, operator, exp_term(options, advance(operator, FALSE)))
        Behind(lhs) == IF lhs.raised # None THEN lhs ELSE ByOperator(lhs, peek(lhs.lex))
    IN Behind(exp_term(options, lx))

exp_and(options, lx, ret) ==
    LET More(val, next) ==
            IF next.next_token = "and" THEN exp_and(options, advance(next, FALSE), val)
            ELSE Result(next, val)
        Behind(r) == IF r.raised # None THEN r ELSE More(r.val /\ ret, peek(r.lex))
    IN Behind(exp_comparison(options, lx))

exp_or(options, lx, ret) ==
    LET More(val, next) ==
            IF next.next_token = "or" THEN exp_or(options, advance(next, FALSE), val)
            ELSE Result(next, val)
        Behind(r) == IF r.raised # None THEN r ELSE More(r.val \/ ret, peek(r.lex))
    IN Behind(exp_and(options, lx, TRUE))

\* _parse_conditional_block up to its block: the lexer reads expressions from
\* here to the closing parenthesis.
Condition(options, lx) ==
    LET open == peek(set_state(advance(lx, FALSE), "expr"))
        Behind(exp) ==
            IF exp.raised # None THEN exp
            ELSE IF exp.lex.next_token # "par_close" THEN Failed("ParseError", exp.lex)
            ELSE Result(set_state(delete_spaces(advance(exp.lex, FALSE), TRUE), "gibberish"), exp.val)
    IN IF open.next_token # "par_open" THEN Failed("ParseError", open)
       ELSE Behind(exp_or(options, advance(open, FALSE), FALSE))

-----------------------------------------------------------------------------
\* parse
ParseText(src, lx) ==
    /\ source' = src
    /\ lex' = set_str(lx, src.text)
    /\ out_str' = << >>
    /\ stack' = <<Frame("data", TRUE)>>
    /\ outcome' = "running"

InData == outcome = "running" /\ Top.at = "data"

ParseGibberish ==
    /\ InData
    /\ Current.next_token = "gibberish"
    /\ out_str' = IF Top.do_print THEN out_str \o Current.text ELSE out_str
    /\ lex' = advance(Current, FALSE)
    /\ UNCHANGED <<source, stack, outcome>>

\* None cannot be prepended.
ParseIdentifier ==
    /\ InData
    /\ Current.next_token = "identifier"
    /\ Current.text # <<If>>
    /\ LET value == Terminal(opt, Written(Current.text[1])) IN
       \/ value.is = "unknown" /\ Raise("ParseError")
       \/ value.is = "None" /\ Top.do_print /\ Raise("TypeError")
       \/ /\ value.is = "value" \/ (value.is = "None" /\ ~Top.do_print)
          /\ lex' = IF Top.do_print
                    THEN prepend(advance(Current, FALSE), Unparse(value.data, TRUE))
                    ELSE advance(Current, FALSE)
          /\ UNCHANGED <<source, stack, out_str, outcome>>

\* _parse_data_block up to its data, called with lexer lx; below are the
\* frames to come back to.
OpenBlock(lx, do_print, below) ==
    LET tok == peek(lx) IN
    IF tok.next_token # "block_open" THEN Raise("ParseError")
    ELSE /\ lex' = advance(tok, TRUE)
         /\ stack' = <<Frame("data", do_print), Frame("block", do_print)>> \o below
         /\ UNCHANGED <<source, out_str, outcome>>

EnterBlock ==
    /\ InData
    /\ Current.next_token = "block_open"
    /\ OpenBlock(Current, Top.do_print, stack)

\* _parse_conditional_block: behind its block _parse_if_block goes on, and
\* prints only if it did not yet.
ConditionalBlock(lx, do_print, below) ==
    LET Behind(cond) ==
            IF cond.raised # None THEN Raise(cond.raised)
            ELSE OpenBlock(cond.lex, do_print /\ cond.val,
                           <<Frame("if", do_print /\ ~cond.val)>> \o below)
    IN Behind(Condition(opt, lx))

EnterIf ==
    /\ InData
    /\ Current.next_token = "identifier"
    /\ Current.text = <<If>>
    /\ ConditionalBlock(Current, Top.do_print, stack)

\* Mutant: the end of the text closes a block.
BlockCloses_AtEnd ==
    /\ outcome = "running"
    /\ Top.at = "block"
    /\ lex' = advance(Current, TRUE)
    /\ stack' = Tail(stack)
    /\ UNCHANGED <<source, out_str, outcome>>

BlockCloses ==
    /\ outcome = "running"
    /\ Top.at = "block"
    /\ IF Current.next_token # "block_close" THEN Raise("ParseError")
       ELSE /\ lex' = advance(Current, TRUE)
            /\ stack' = Tail(stack)
            /\ UNCHANGED <<source, out_str, outcome>>

\* Behind a conditional block: spaces go if an $elif or $else follows (or
\* another $if); otherwise the token that was read is left for the data.
AfterConditional ==
    /\ outcome = "running"
    /\ Top.at = "if"
    /\ LET tok == peek(delete_spaces(lex, FALSE))
           keyword == IF tok.next_token = "identifier" THEN tok.text ELSE << >>
       IN \/ keyword = <<Elif>> /\ ConditionalBlock(tok, Top.do_print, Tail(stack))
          \/ /\ keyword = <<Else>>
             /\ OpenBlock(delete_spaces(advance(tok, FALSE), TRUE), Top.do_print, Tail(stack))
          \/ /\ keyword \notin {<<Elif>>, <<Else>>}
             /\ lex' = tok
             /\ stack' = Tail(stack)
             /\ UNCHANGED <<source, out_str, outcome>>

\* _parse_data returns, to parse if nothing is below: only the end of the
\* text may come there.
LeaveData ==
    /\ InData
    /\ Current.next_token \in {"EOF", "block_close"}
    /\ stack' = Tail(stack)
    /\ outcome' = IF Len(stack) > 1 THEN "running"
                  ELSE IF Current.next_token = "EOF" THEN "done" ELSE "ParseError"
    /\ UNCHANGED <<source, lex, out_str>>

WrongToken ==
    /\ InData
    /\ Current.next_token = "unknown"
    /\ Raise("ParseError")

ParserStep ==
    \/ ParseGibberish \/ ParseIdentifier \/ EnterBlock \/ EnterIf
    \/ BlockCloses \/ AfterConditional \/ LeaveData \/ WrongToken
=============================================================================
