--------------------------- MODULE MCSessionStore ---------------------------
(* Small instances of SessionStore.                                        *)
EXTENDS SessionStore, TLC

CONSTANTS a, b, c1, c2, m1, text

OneBase == {a}
TwoBases == {a, b}
TwoCalls == {c1, c2}
OneModel == {NoModel}
TwoModels == {NoModel, m1}
AllMsgs == {text, Blank}

FullTurn == {<<text, text>>}

(* Calls and bases are interchangeable.                                    *)
Symmetry == Permutations(TwoCalls) \cup Permutations(TwoBases)
=============================================================================
