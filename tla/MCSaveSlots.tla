----------------------------- MODULE MCSaveSlots -----------------------------
\* Two slots, one of them the kept slot, and two values of progress that may
\* be exchanged.
EXTENDS SaveSlots, TLC
ProgressSymmetry == Permutations(Progress)
=============================================================================
