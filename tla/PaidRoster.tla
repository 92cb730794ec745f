----------------------------- MODULE PaidRoster -----------------------------
(***************************************************************************)
(* What an expedition promises its members.  A character is inside one     *)
(* expedition at most; what it has earned there is paid when it leaves,    *)
(* whole and once; who has left never comes back and earns nothing more.   *)
(***************************************************************************)
EXTENDS Naturals

CONSTANTS Runs, Characters

VARIABLES
    inside,    \* who is inside each expedition
    earned,    \* what its members have earned so far
    paid       \* what was paid, as <<character, amount>>

rosterVars == <<inside, earned, paid>>

Nothing == [c \in Characters |-> 0]

RosterInit ==
    /\ inside = [r \in Runs |-> {}]
    /\ earned = [r \in Runs |-> Nothing]
    /\ paid = [r \in Runs |-> {}]

Enter(r, S) ==
    /\ inside[r] = {} /\ paid[r] = {}
    /\ \A s \in Runs : inside[s] \cap S = {}
    /\ inside' = [inside EXCEPT ![r] = S]
    /\ UNCHANGED <<earned, paid>>

Earn(r, S) ==
    /\ earned' = [earned EXCEPT ![r] = [c \in Characters |-> IF c \in S THEN @[c] + 1 ELSE @[c]]]
    /\ UNCHANGED <<inside, paid>>

Leave(r, S) ==
    /\ inside' = [inside EXCEPT ![r] = @ \ S]
    /\ paid' = [paid EXCEPT ![r] = @ \cup {<<c, earned[r][c]>> : c \in S}]
    /\ earned' = [earned EXCEPT ![r] = [c \in Characters |-> IF c \in S THEN 0 ELSE @[c]]]

RosterNext ==
    \E r \in Runs :
        \/ \E S \in (SUBSET Characters) \ {{}} : Enter(r, S)
        \/ \E S \in (SUBSET inside[r]) \ {{}} : Earn(r, S) \/ Leave(r, S)

RosterSpec == RosterInit /\ [][RosterNext]_rosterVars
=============================================================================
