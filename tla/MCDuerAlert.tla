---------------------------- MODULE MCDuerAlert ----------------------------
(* DuerAlert for TLC: tokens, cells and stacks are interchangeable.        *)
EXTENDS DuerAlert, TLC

AlertSymmetry == Permutations(Alerts) \cup Permutations(Cells) \cup Permutations(Threads)
=============================================================================
