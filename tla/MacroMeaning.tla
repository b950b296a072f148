---------------------------- MODULE MacroMeaning ----------------------------
(***************************************************************************)
(* What class MacroParser promises: a text is printed in one step, as its   *)
(* syntax tree says, or refused as a whole, and that it comes to an end.    *)
(***************************************************************************)
EXTENDS MacroLanguage

VARIABLES
    source,     \* the text, with its tree if it has one, and the options
    printed,    \* what is printed, without spaces and line feeds
    status      \* "idle", "running", "done" or "failed"

meaning == <<source, printed, status>>

NoLayout(s) == SelectSeq(s, LAMBDA lexeme : lexeme \notin {SP, NL})

Init == status = "idle" /\ printed = << >>

Start ==
    /\ status = "idle"
    /\ status' = "running"
    /\ printed' = << >>

\* A text without a tree may be refused or printed, nothing is said of how.
Translate ==
    /\ status = "running"
    /\ status' \in {"done", "failed"}
    /\ UNCHANGED source
    /\ \/ /\ source.tree # << >>
          /\ \E out \in {Meaning(source.opt, source.tree[1], TRUE)} :
                IF Contains(out, Failure)
                THEN status' = "failed" /\ printed' = << >>
                ELSE status' = "done" /\ printed' = NoLayout(out)
       \/ source.tree = << >>

Spec == Init /\ [][Start \/ Translate]_meaning /\ []<>(status # "running")
=============================================================================
