----------------------------- MODULE MCRAMTier -----------------------------
EXTENDS RAMTier, TLC

CONSTANTS k1, k2, k3, s1, s2, w1, w2, w3

\* Two keys share a shard of three bytes, the third has one byte to itself.
MCShardOf == (k1 :> s1) @@ (k2 :> s1) @@ (k3 :> s2)
MCCap == (s1 :> 3) @@ (s2 :> 1)

\* The writers are alike, so only the behaviours are kept whose writers open keys
\* in this order of the keys; the others are these with the writers renamed.
Rank == (None :> 0) @@ (k1 :> 1) @@ (k2 :> 2) @@ (k3 :> 3)
Before == {<<w1, w2>>, <<w2, w3>>, <<w1, w3>>}
KeysSorted ==
    \A b \in Before : wkey'[b[2]] # None => Rank[wkey'[b[1]]] <= Rank[wkey'[b[2]]]
MCSpec == Init /\ [][Next /\ KeysSorted]_vars /\ \A w \in Writers : WF_vars(Proceed(w))
=============================================================================
