---------------------------- MODULE MCJpegEncode ----------------------------
(* Two encoders and two contexts, so that contexts change encoders; two    *)
(* formats that nvJPEG takes, each with a surface, one it does not, and an *)
(* empty surface; lists of up to two.                                      *)
EXTENDS JpegEncode, TLC

CONSTANTS e1, e2, c1, c2, rgb, yuv420, empty

MCEncoder == {e1, e2}
MCContext == {c1, c2}
MCSurface == {rgb, yuv420, empty}
MCKind ==
  [s \in MCSurface |-> [format |-> IF s = yuv420 THEN "YUV420" ELSE "RGB", empty |-> s = empty]]
\* Nothing tells two encoders, or two contexts, apart.
MCSymmetry == Permutations(MCEncoder) \union Permutations(MCContext)
MCAskedFormat == {"RGB", "YUV420", "NV12"}

=============================================================================
