----------------------------- MODULE MCFlashSale -----------------------------
EXTENDS FlashSale, TLC

CONSTANTS c1, c2, f1, f2

MCCreators == {c1, c2}
MCFinders == {f1, f2}

Symmetry == Permutations(MCCreators) \cup Permutations(MCFinders)
=============================================================================
