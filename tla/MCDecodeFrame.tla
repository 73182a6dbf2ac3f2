--------------------------- MODULE MCDecodeFrame ---------------------------
(* Values for the model checker: frames without motion vectors, or an      *)
(* intra-coded first frame and then as many vectors in every frame.        *)
EXTENDS DecodeFrame
NoVectors == [f \in Frame |-> 0]
SomeVectors == [f \in Frame |-> IF f = 1 THEN 0 ELSE 2]
=============================================================================
