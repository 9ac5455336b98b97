----------------------------- MODULE MCLaunch -----------------------------
(* All short texts over a small alphabet.                                 *)
EXTENDS Launch, TLC

LetterSymmetry == Permutations(Letter)
=============================================================================
