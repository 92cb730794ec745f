----------------------------- MODULE MCHomeWork -----------------------------
(***************************************************************************)
(* A small instance for TLC of two components that share no state, the     *)
(* sleep of a character and the queue of scheduled work: a behaviour is    *)
(* one of either part.                                                     *)
(***************************************************************************)
EXTENDS MCHomeSleep, MCScheduledWork

VARIABLE part

AtHome == part = "home" /\ UNCHANGED <<part, vars>>
InQueue == part = "queue" /\ UNCHANGED <<part, homeVars>>

HomeWorkInit == part \in {"home", "queue"} /\ HomeInit /\ Init

HomeWorkNext == (AtHome /\ HomeNext) \/ (InQueue /\ Next)

HomeWorkSpec == HomeWorkInit /\ [][HomeWorkNext]_<<part, homeVars, vars>>
=============================================================================
