----------------------------- MODULE MCSurfaces -----------------------------
(* A packed surface of one plane, a planar one of two, and two handles.    *)
EXTENDS Surfaces, TLC
CONSTANTS packed, planar, twin
MCPlanesOf == [s \in Surface |-> IF s = planar THEN 2 ELSE 1]
MCPlace == UNION {{s} \X (1 .. MCPlanesOf[s]) : s \in Surface} \cup Handle
Alike == Permutations(Memory) \cup Permutations(Handle)
=============================================================================
