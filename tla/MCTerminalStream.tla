-------------------------- MODULE MCTerminalStream --------------------------
EXTENDS TerminalStreamProps, TLC
CONSTANTS w1, w2, s1, s2
Swaps == Permutations(Windows) \cup Permutations(Sockets)
=============================================================================
