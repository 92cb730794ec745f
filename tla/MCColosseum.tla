---------------------------- MODULE MCColosseum ----------------------------
(* Small instances of Colosseum for TLC.                                   *)
EXTENDS Colosseum, TLC

CONSTANTS p1, p2, ann, bob, cid, r1, r2, red, blue

MCSymmetry ==
    Permutations(Callers) \cup Permutations(Characters)
        \cup Permutations(Rooms) \cup Permutations(Teams)
=============================================================================
