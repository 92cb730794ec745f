------------------------------ MODULE OnceWork ------------------------------
(***************************************************************************)
(* What the scheduling component promises of each piece of work: it is     *)
(* recorded as started before its effect is applied, the effect is applied *)
(* at most once, and it is settled only after the effect was applied.      *)
(* Work whose effect is uncertain stays started; it is never replayed.     *)
(***************************************************************************)
EXTENDS Integers

CONSTANT Actions

VARIABLES
    stage,    \* what is recorded of each piece of work
    effects   \* how often its effect was applied

absVars == <<stage, effects>>

Stages == {"absent", "waiting", "started", "settled"}

AbsTypeOK ==
    /\ stage \in [Actions -> Stages]
    /\ effects \in [Actions -> Nat]

AbsInit ==
    /\ stage = [a \in Actions |-> "absent"]
    /\ effects = [a \in Actions |-> 0]

MoveStage(a, from, to) ==
    /\ stage[a] = from
    /\ stage' = [stage EXCEPT ![a] = to]
    /\ UNCHANGED effects

Register(a) == MoveStage(a, "absent", "waiting") /\ effects[a] = 0

Withdraw(a) == MoveStage(a, "waiting", "absent")

Start(a) == MoveStage(a, "waiting", "started") /\ effects[a] = 0

Apply(a) ==
    /\ stage[a] = "started"
    /\ effects[a] = 0
    /\ effects' = [effects EXCEPT ![a] = 1]
    /\ UNCHANGED stage

Settle(a) == MoveStage(a, "started", "settled") /\ effects[a] = 1

AbsNext ==
    \E a \in Actions :
        Register(a) \/ Withdraw(a) \/ Start(a) \/ Apply(a) \/ Settle(a)

AbsSpec == AbsInit /\ [][AbsNext]_absVars
=============================================================================
