-------------------------- MODULE MCScheduledWork --------------------------
(* Small instances of ScheduledWork for TLC: every action has one owner.   *)
EXTENDS ScheduledWork

CONSTANTS a1, a2, hero

MCActorOf == [a \in Actions |-> hero]

=============================================================================
