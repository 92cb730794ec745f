------------------------------- MODULE Actors -------------------------------
(* What the components share: the requests the server works on at the same *)
(* time, and the absence of a character or a request.                      *)
EXTENDS Naturals, FiniteSets

CONSTANTS
    Callers,      \* concurrent requests
    Nobody

ASSUME ActorsAssumption == IsFiniteSet(Callers) /\ Nobody \notin Callers
=============================================================================
