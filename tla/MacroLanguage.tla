--------------------------- MODULE MacroLanguage ---------------------------
(***************************************************************************)
(* The macro language of pycrc: texts as syntax trees, what a tree prints,  *)
(* and which sequences of lexemes are texts (the grammar in a comment of    *)
(* crc_parser.py, with expressions as the parser takes them).               *)
(*                                                                          *)
(* Data is a sequence of nodes: a lexeme that is printed, the name of a     *)
(* symbol, a block, or alternatives.  A condition is a sequence (or) of     *)
(* sequences (and) of comparisons.                                          *)
(***************************************************************************)
EXTENDS MacroLexer, SequencesExt

CONSTANTS
    Terminal(_, _),     \* what getTerminal returns for options and a name
    NumberOf(_),        \* the value of a number as it is written
    Dictionary          \* words and numbers in the order in which their spellings compare

\* Results of getTerminal: data, None, or a LookupError.
Value(data) == [is |-> "value", data |-> data]
NoValue == [is |-> "None"]
Unknown == [is |-> "unknown"]

T(lexeme) == [node |-> "text", lexeme |-> lexeme]
I(name) == [node |-> "id", name |-> name]
Block(data) == [node |-> "block", data |-> data]
Choice(arms, otherwise) == [node |-> "if", arms |-> arms, otherwise |-> otherwise]
Arm(cond, data) == [cond |-> cond, data |-> data]

\* Alternatives without and with an $else.
When(cond, data) == Choice(<<Arm(cond, data)>>, << >>)
Either(cond, data, otherwise) == Choice(<<Arm(cond, data)>>, <<Block(otherwise)>>)

Comparison(l, op, r) == << << [l |-> l, op |-> op, r |-> r] >> >>
Is(name, word) == Comparison(Id(name), "==", Word(word))
Isnt(name, word) == Comparison(Id(name), "!=", Word(word))
Both(c, d) == << c[1] \o d[1] >>
OneOf(c, d) == c \o d

-----------------------------------------------------------------------------
\* Elements of a sequence, each made a sequence, with a separator.
Joined(s, f(_), separator) ==
    FlattenSeq([i \in 1 .. 2 * Len(s) - 1 |->
                   IF i % 2 = 1 THEN f(s[(i + 1) \div 2]) ELSE separator])

Spelled(cond) ==
    LET Compared(c) == <<c.l, Op(c.op), c.r>>
        Conjunction(cs) == Joined(cs, Compared, <<And>>)
    IN Joined(cond, Conjunction, <<Or>>)

\* The lexemes of data; with layout, spaces and line feeds are where the
\* templates have them.
RECURSIVE Unparse(_, _)
Unparse(data, layout) ==
    LET sp == IF layout THEN <<SP>> ELSE << >>
        nl == IF layout THEN <<NL>> ELSE << >>
        Braces(d) == <<Open>> \o nl \o Unparse(d, layout) \o <<Close>>
        Lexemes(n) ==
            CASE n.node = "text" -> << n.lexeme >>
              [] n.node = "id" -> << Id(n.name) >>
              [] n.node = "block" -> Braces(n.data) \o nl
              [] n.node = "if" ->
                     FlattenSeq([i \in DOMAIN n.arms |->
                         (IF i = 1 THEN <<If>> ELSE sp \o <<Elif>>)
                         \o sp \o <<LP>> \o Spelled(n.arms[i].cond) \o <<RP>> \o sp
                         \o Braces(n.arms[i].data)])
                     \o (IF n.otherwise = << >> THEN nl
                         ELSE sp \o <<Else>> \o sp \o Unparse(n.otherwise, layout))
    IN FlattenSeq([i \in DOMAIN data |-> Lexemes(data[i])])

-----------------------------------------------------------------------------
IsNumber(text) == Len(text) = 1 /\ Kind(text[1]) = "num"

Place(text) == CHOOSE i \in DOMAIN Dictionary : Dictionary[i] = text[1]

\* Two numbers are compared as numbers, anything else as strings.
Compare(op, a, b) ==
    LET numeric == IsNumber(a) /\ IsNumber(b)
        Rank(text) == IF numeric THEN NumberOf(Written(text[1])) ELSE Place(text)
        same == IF numeric THEN Rank(a) = Rank(b) ELSE a = b
        less == Rank(a) < Rank(b)
    IN CASE op = "==" -> same
         [] op = "!=" -> ~same
         [] op = "<" -> less
         [] op = "<=" -> less \/ same
         [] op = ">" -> ~(less \/ same)
         [] op = ">=" -> ~less

\* A name in a condition stands for the text of its value, not for what that
\* prints.
TermIsKnown(opt, term) == Kind(term) = "id" => Terminal(opt, Written(term)).is # "unknown"

TermText(opt, term) ==
    IF Kind(term) # "id" THEN <<term>>
    ELSE LET value == Terminal(opt, Written(term)) IN
         IF value.is = "value" THEN Unparse(value.data, FALSE) ELSE <<Word("Undefined")>>

CondIsKnown(opt, cond) ==
    \A i \in DOMAIN cond : \A j \in DOMAIN cond[i] :
        TermIsKnown(opt, cond[i][j].l) /\ TermIsKnown(opt, cond[i][j].r)

Holds(opt, cond) ==
    \E i \in DOMAIN cond : \A j \in DOMAIN cond[i] :
        Compare(cond[i][j].op, TermText(opt, cond[i][j].l), TermText(opt, cond[i][j].r))

(***************************************************************************)
(* What data prints: the values of its symbols in their place, and of       *)
(* alternatives the first whose condition holds.  Failure is in the place   *)
(* of a symbol that does not exist, printed or not, and of one without      *)
(* value that is printed.                                                   *)
(***************************************************************************)
Failure == <<"failure", "">>

RECURSIVE Meaning(_, _, _)
Meaning(opt, data, do_print) ==
    LET Printed(s) == IF do_print THEN s ELSE << >>
        OfSymbol(value) ==
            CASE value.is = "unknown" -> <<Failure>>
              [] value.is = "None" -> Printed(<<Failure>>)
              [] value.is = "value" -> IF do_print THEN Meaning(opt, value.data, TRUE) ELSE << >>
        Taken(arms) ==
            LET true == {i \in DOMAIN arms : Holds(opt, arms[i].cond)}
            IN IF true = {} THEN Len(arms) + 1 ELSE Min(true)
        OfChoice(arms, otherwise, taken) ==
            FlattenSeq([i \in 1 .. Len(arms) + 1 |->
                Meaning(opt, IF i <= Len(arms) THEN arms[i].data ELSE otherwise, do_print /\ i = taken)])
        OfNode(n) ==
            CASE n.node = "text" -> Printed(<<IF n.lexeme = Escape THEN Dollar ELSE n.lexeme>>)
              [] n.node = "block" -> Meaning(opt, n.data, do_print)
              [] n.node = "id" -> OfSymbol(Terminal(opt, n.name))
              [] n.node = "if" ->
                     IF \A i \in DOMAIN n.arms : CondIsKnown(opt, n.arms[i].cond)
                     THEN OfChoice(n.arms, n.otherwise, Taken(n.arms)) ELSE <<Failure>>
    IN FlattenSeq([i \in DOMAIN data |-> OfNode(data[i])])

-----------------------------------------------------------------------------
\* The grammar, for texts without layout.

Part(s, i, j) == SubSeq(s, i, j)
From(s, i) == SubSeq(s, i, Len(s))

\* term OP term, joined by AND and OR.  Parentheses are in the grammar of the
\* comment only: the parser wants an operator behind them, and its comparison
\* then fails on the truth value.  A term alone, another and_exp of the
\* comment, lacks its operator as well.
IsExpression(opt, e) ==
    /\ Len(e) % 4 = 3
    /\ \A i \in DOMAIN e :
           CASE i % 4 \in {1, 3} -> Kind(e[i]) \in {"id", "num", "word"} /\ TermIsKnown(opt, e[i])
             [] i % 4 = 2 -> Kind(e[i]) = "op"
             [] i % 4 = 0 -> e[i] \in {And, Or}

RECURSIVE IsData(_, _, _), IsBlock(_, _), IsRestOfIf(_, _, _)

\* atEnd: s reaches to the end of the text, where a lone $ stands for itself.
IsData(opt, s, atEnd) ==
    \/ s = << >>
    \/ s = <<Dollar>> /\ atEnd
    \/ /\ \/ Kind(s[1]) \notin Special
          \/ s[1] = Escape
          \/ Kind(s[1]) = "id" /\ s[1] # If /\ TermIsKnown(opt, s[1])
       /\ IsData(opt, Tail(s), atEnd)
    \/ /\ s[1] = Open
       /\ \E i \in DOMAIN s : IsBlock(opt, Part(s, 1, i)) /\ IsData(opt, From(s, i + 1), atEnd)
    \/ s[1] = If /\ IsRestOfIf(opt, <<Elif>> \o Tail(s), atEnd)

IsBlock(opt, s) ==
    Len(s) >= 2 /\ s[1] = Open /\ s[Len(s)] = Close /\ IsData(opt, Part(s, 2, Len(s) - 1), FALSE)

IsRestOfIf(opt, s, atEnd) ==
    \/ /\ Len(s) > 2 /\ s[1] = Elif /\ s[2] = LP
       /\ \E i, j \in 3 .. Len(s) :
             /\ i < j
             /\ s[i] = RP
             /\ IsExpression(opt, Part(s, 3, i - 1))
             /\ IsBlock(opt, Part(s, i + 1, j))
             /\ IsRestOfIf(opt, From(s, j + 1), atEnd)
    \/ /\ s # << >> /\ s[1] = Else
       /\ \E j \in 2 .. Len(s) : IsBlock(opt, Part(s, 2, j)) /\ IsData(opt, From(s, j + 1), atEnd)
    \/ (s # << >> => s[1] \notin {Elif, Else}) /\ IsData(opt, s, atEnd)
=============================================================================
