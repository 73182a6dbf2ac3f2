--------------------------- MODULE MCSurfaceTasks ---------------------------
(* One scenario for each conversion: a surface of its source format, one of *)
(* its destination format, a smaller one of that format, an array for the   *)
(* first and one for the last.  The conversions that differ in how they use *)
(* the stream get MaxCalls calls, the others one.                           *)
EXTENDS SurfaceTasks, TLC

CONSTANT MaxCalls

Elaborate == {nv12_y, p16_nv12("P10")}

MCScenario ==
  {[row |-> r,
    resizes |-> r.dst,
    kind |-> "source" :> [format |-> r.src, size |-> 4]
          @@ "result" :> [format |-> r.dst, size |-> 4]
          @@ "small" :> [format |-> r.dst, size |-> 1]
          @@ "input" :> [format |-> r.src, size |-> 4]
          @@ "output" :> [format |-> r.dst, size |-> 1],
    colors |-> IF r \in Elaborate THEN {r.default} ELSE AnyColors,
    maxCalls |-> IF r \in Elaborate THEN MaxCalls ELSE 1] : r \in Conversions}

ThreadSymmetry == Permutations(Thread)
=============================================================================
