---------------------------- MODULE MCProductApi -----------------------------
EXTENDS ProductApi, TLC

CONSTANTS u1, u2, k1, k2, s1, c1, c2, r1

MCUsers == {u1, u2}
MCKeys == {k1, k2}
MCSales == {s1}
MCCreators == {c1, c2}
MCReaders == {r1}

Symmetry == Permutations(MCUsers) \cup Permutations(MCKeys)
              \cup Permutations(MCCreators)
=============================================================================
