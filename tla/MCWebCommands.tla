--------------------------- MODULE MCWebCommands ----------------------------
EXTENDS WebCommands

\* which decision is which does not matter within a class
Symmetry == Permutations(Sudo)

=============================================================================
