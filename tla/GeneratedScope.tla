--------------------------- MODULE GeneratedScope ---------------------------
(***************************************************************************)
(* Whether generated C compiles as far as its lexemes go (see CTemplates):  *)
(* the scope of names, the parameters functions are declared and called     *)
(* with, the members of the cfg_t structure, and bool.                      *)
(***************************************************************************)
EXTENDS CTemplates

Sep == <<"c", ";">>
Begin == <<"c", "{">>
DefineWord == <<"c", "#define">>
PassedCfg == <<"c", "&cfg">>
Kept == {"name", "c", "member", "assigned", "field", "lp", "rp"}

\* The lexemes that C is about.
COf(s) == SelectSeq(s, LAMBDA lexeme : Kind(lexeme) \in Kept)

Behind(s, i) == Min({j \in i .. Len(s) : s[j] = RP}) + 1
IsName(s, i) == Kind(s[i]) = "name"
IsFunction(s, i) == IsName(s, i) /\ i < Len(s) /\ s[i + 1] = LP
IsPrototype(s, i) == IsFunction(s, i) /\ Behind(s, i) <= Len(s) /\ s[Behind(s, i)] = Sep
IsDefinition(s, i) ==
    /\ IsFunction(s, i)
    /\ \/ i > 1 /\ s[i - 1] = DefineWord
       \/ Behind(s, i) <= Len(s) /\ s[Behind(s, i)] = Begin

Prototypes(s) == {i \in DOMAIN s : IsPrototype(s, i)}
Definitions(s) == {i \in DOMAIN s : IsDefinition(s, i)}
Calls(s) == {i \in DOMAIN s : IsFunction(s, i)} \ (Prototypes(s) \cup Definitions(s))

\* Types and arrays are declared by the ; behind them.
Declarations(s) ==
    Prototypes(s) \cup Definitions(s)
        \cup {i \in 1 .. Len(s) - 1 : IsName(s, i) /\ s[i + 1] = Sep}

\* Whether a function is declared, or called, with a cfg.
DeclaredWithCfg(s, i) == \E j \in i .. Behind(s, i) - 2 : IsName(s, j) /\ s[j][3] = "cfg_t"
CalledWithCfg(s, i) == s[i + 2] = PassedCfg

Fields(s) == {s[i][2] : i \in {j \in DOMAIN s : Kind(s[j]) = "field"}}
AssignedFields(s) == {s[i][2] : i \in {j \in DOMAIN s : Kind(s[j]) = "assigned"}}

-----------------------------------------------------------------------------
\* No name is used before it is declared.
NamesInScope(s, except) ==
    LET declarations == Declarations(s) IN
    \A i \in DOMAIN s :
        IsName(s, i) => s[i] \in except \/ \E j \in declarations : j <= i /\ s[j] = s[i]

\* Every function that is declared is defined once, and all that is said and
\* done of it agrees on whether it takes a cfg.
FunctionsAgree(s) ==
    LET prototypes == Prototypes(s)
        definitions == Definitions(s)
        declared == prototypes \cup definitions
    IN /\ \A i \in declared : Cardinality({j \in definitions : s[j] = s[i]}) = 1
       /\ \A i, j \in declared :
             s[i] = s[j] => DeclaredWithCfg(s, i) = DeclaredWithCfg(s, j)
       /\ \A i \in Calls(s) :
             \A j \in declared : s[i] = s[j] => CalledWithCfg(s, i) = DeclaredWithCfg(s, j)

\* The cfg is used in functions that take one, and has the members used.
MembersInScope(s) ==
    LET definitions == Definitions(s)
        fields == Fields(s)
    IN \A i \in DOMAIN s : Kind(s[i]) \in {"member", "assigned"} =>
           /\ s[i][2] \in fields
           /\ \E j \in definitions : j < i
           /\ DeclaredWithCfg(s, Max({j \in definitions : j < i}))

BoolInScope(s) ==
    \A i \in DOMAIN s : s[i] = <<"c", "bool">> => \E j \in 1 .. i : s[j] = <<"c", "stdbool">>

Compiles(s, except) ==
    NamesInScope(s, except) /\ FunctionsAgree(s) /\ MembersInScope(s) /\ BoolInScope(s)
=============================================================================
