---------------------------- MODULE MCAudioAnswer ---------------------------
EXTENDS AudioAnswer, TLC

\* The page takes the questions as they come.
MCSymmetry == Permutations(Questions)
=============================================================================
