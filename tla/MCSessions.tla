----------------------------- MODULE MCSessions -----------------------------
EXTENDS Sessions, TLC

CONSTANTS t1, t2, b1

OneBrowser == (t1 :> b1) @@ (t2 :> b1)

Symmetry == Permutations(Tokens) \union Permutations(Requests)
=============================================================================
