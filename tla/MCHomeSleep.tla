---------------------------- MODULE MCHomeSleep ----------------------------
(* Small instances of HomeSleep for TLC: one or two of the SQL hooks.      *)
EXTENDS HomeSleep, TLC

CONSTANTS c1, c2

MCOneHook == <<"fullness">>
MCTwoHooks == <<"fullness", "chapel">>
MCSymmetry == Permutations(Requests)

=============================================================================
