-------------------------- MODULE MCPreparationState --------------------------
(* Two processes, and two outputs of one source: a result and its repair. *)
EXTENDS PreparationState, TLC
CONSTANTS p1, p2, o1, o2, s1
MCProcesses == {p1, p2}
MCOutputs   == {o1, o2}
MCSources   == {s1}
MCSourceOf  == o1 :> s1 @@ o2 :> s1
Symmetry    == Permutations(MCProcesses)
=============================================================================
