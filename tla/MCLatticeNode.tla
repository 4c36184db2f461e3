--------------------------- MODULE MCLatticeNode ---------------------------
(* A worker and its owner, as the engine sets them up, and three standalone *)
(* nodes of which one goes between the two others.                          *)
EXTENDS LatticeNode, TLC

CONSTANTS owner, w1, w2, t1, t2

PairPeers == owner :> <<>> @@ w1 :> <<owner>>

PairVerifies == {<<w1, t1>>, <<w1, t2>>}

ThreePeers == owner :> <<>> @@ w1 :> <<owner, w2>> @@ w2 :> <<>>

ThreeVerify == {<<w1, t1>>, <<w2, t1>>}
=============================================================================
