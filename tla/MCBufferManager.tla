-------------------------- MODULE MCBufferManager --------------------------
(* Instances of BufferManager for TLC. *)
EXTENDS BufferManager, TLC

CONSTANTS r1, r2, r3, k1, k2, k3, c1, c2, w1, w2, g1

\* Two keys in different shards; r1 and r3 share a key.
TwoKeys    == {k1, k2}
KeyOfTwo   == [r \in Recs |-> IF r = r2 THEN k2 ELSE k1]
ShardOfTwo == (k1 :> 1) @@ (k2 :> 2)
ShardOfOne == (k1 :> 1) @@ (k2 :> 1)

\* Every record has a key of its own; two keys share a shard.
ThreeKeys    == {k1, k2, k3}
KeyOfThree   == [r \in Recs |-> CASE r = r1 -> k1 [] r = r2 -> k2 [] r = r3 -> k3]
ShardOfThree == (k1 :> 1) @@ (k2 :> 2) @@ (k3 :> 1)

\* Records of one key are interchangeable, and so are goroutines of one kind.
SameKey  == Permutations({r1, r3})
Symmetry == Permutations(Clients) \cup SameKey
=============================================================================
