--------------------------- MODULE ConvertSurface ---------------------------
(***************************************************************************)
(* The pixel format conversions of src/TC/src/TaskConvertSurface.cpp as a  *)
(* table, one row per converter, and the surface formats they work on      *)
(* (src/TC/inc/Surfaces.hpp).  A row says when the converter refuses its   *)
(* arguments, and for which color parameters it calls NPP.                 *)
(***************************************************************************)
EXTENDS Integers, Sequences, FiniteSets

ColorSpace == {"BT_601", "BT_709", "UNSPEC"}
ColorRange == {"MPEG", "JPEG", "UDEF"}
AnyColors == ColorSpace \X ColorRange

------------------------------------------------------------------------------
(* Formats: components have pointers of their own, planes allocations.      *)

SurfaceFormat == {"Y", "NV12", "P10", "P12", "YUV420", "YUV422", "YUV444", "YUV444_10bit",
           "RGB", "BGR", "RGB_PLANAR", "RGB_32F", "RGB_32F_PLANAR"}

NumComponents(f) ==
  CASE f \in {"Y", "RGB", "BGR", "RGB_32F"} -> 1
    [] f \in {"NV12", "P10", "P12"} -> 2
    [] OTHER -> 3

NumPlanes(f) == IF f \in {"YUV420", "YUV422", "YUV444", "YUV444_10bit"} THEN 3 ELSE 1

Components(f) == 0 .. NumComponents(f) - 1

ComponentsOfPlane(f, plane) == IF NumPlanes(f) = 1 THEN Components(f) ELSE {plane}

\* Twice the bytes per pixel in host memory.
HostBytes(f) ==
  CASE f = "Y" -> 2
    [] f \in {"NV12", "YUV420"} -> 3
    [] f = "YUV422" -> 4
    [] f \in {"P10", "P12", "YUV444", "RGB", "BGR", "RGB_PLANAR"} -> 6
    [] f = "YUV444_10bit" -> 12
    [] OTHER -> 24

\* SurfaceRGBPlanar::PixelPtr indexes the planes, of which it has one, by
\* component: any component but the first throws.
PixelPtrThrows(f, component) == f \in {"RGB_PLANAR", "RGB_32F_PLANAR"} /\ component > 0

------------------------------------------------------------------------------
(* Rows.  colors: parameters for which NPP is called; failing: parameters  *)
(* answered with FAIL; throwing: parameters for which Execute throws; all  *)
(* others are answered UNSUPPORTED_FMT_CONV_PARAMS.  noReturn: parameters  *)
(* for which Execute falls off its end and returns whatever there is.      *)

Row(src, dst, colors) ==
  [src |-> src, dst |-> dst, colors |-> colors, failing |-> {}, noReturn |-> {},
   throwing |-> {}, default |-> <<"BT_601", "JPEG">>, validate |-> "first"]

FullOrNarrow == {"MPEG", "JPEG"}
Hdtv == {"BT_709"}
Sdtv == {"BT_601"}

nv12_bgr ==
  [Row("NV12", "BGR", {<<"BT_601", "JPEG">>} \union (Hdtv \X ColorRange)) EXCEPT
     !.default = <<"BT_709", "JPEG">>, !.noReturn = Hdtv \X ColorRange]
nv12_rgb ==
  [Row("NV12", "RGB", {<<"BT_601", "JPEG">>} \union (Hdtv \X ColorRange)) EXCEPT
     !.default = <<"BT_709", "JPEG">>]
nv12_yuv420 ==
  [Row("NV12", "YUV420", ColorSpace \X FullOrNarrow) EXCEPT !.default = <<"BT_709", "JPEG">>]
nv12_y == Row("NV12", "Y", AnyColors)
rbg8_y == Row("RGB", "Y", AnyColors)
yuv420_rgb == Row("YUV420", "RGB", Sdtv \X ColorRange)
yuv420_bgr == Row("YUV420", "BGR", Sdtv \X ColorRange)
yuv444_bgr ==
  [Row("YUV444", "BGR", Sdtv \X FullOrNarrow) EXCEPT
     !.failing = Sdtv \X {"UDEF"}, !.validate = "afterColors"]
yuv444_rgb ==
  [Row("YUV444", "RGB", Sdtv \X {"JPEG"}) EXCEPT
     !.failing = Sdtv \X {"MPEG", "UDEF"}, !.validate = "afterColors"]
\* The result of Validate is not used.
bgr_yuv444 ==
  [Row("BGR", "YUV444", Sdtv \X FullOrNarrow) EXCEPT
     !.failing = Sdtv \X {"UDEF"}, !.validate = "ignored"]
rgb_yuv444 ==
  [Row("RGB", "YUV444", Sdtv \X FullOrNarrow) EXCEPT !.failing = Sdtv \X {"UDEF"}]
\* Takes a pointer to every component, which throws if there is none.
rgb_planar_yuv444 ==
  LET thrown == IF \E c \in Components("RGB_PLANAR") : PixelPtrThrows("RGB_PLANAR", c)
                THEN Sdtv \X ColorRange
                ELSE {}
  IN [Row("RGB_PLANAR", "YUV444", (Sdtv \X FullOrNarrow) \ thrown) EXCEPT
        !.failing = (Sdtv \X {"UDEF"}) \ thrown, !.throwing = thrown]
y_yuv444 == Row("Y", "YUV444", AnyColors)
rgb_yuv420 ==
  [Row("RGB", "YUV420", Sdtv \X FullOrNarrow) EXCEPT !.failing = Sdtv \X {"UDEF"}]
yuv420_nv12 == Row("YUV420", "NV12", AnyColors)
rgb8_deinterleave == Row("RGB", "RGB_PLANAR", AnyColors)
rgb8_interleave == Row("RGB_PLANAR", "RGB", AnyColors)
rgb_bgr == Row("RGB", "BGR", AnyColors)
bgr_rgb == Row("BGR", "RGB", AnyColors)
rbg8_rgb32f == Row("RGB", "RGB_32F", AnyColors)
rgb32f_deinterleave == Row("RGB_32F", "RGB_32F_PLANAR", AnyColors)
\* Only checks that there are surfaces.
p16_nv12(src) == [Row(src, "NV12", AnyColors) EXCEPT !.validate = "ignored"]

\* The constructor of ConvertSurface: every pair of formats it accepts.
Conversions ==
  {nv12_yuv420, yuv420_nv12, p16_nv12("P10"), p16_nv12("P12"), nv12_rgb, nv12_bgr,
   rgb8_deinterleave, rgb8_interleave, rgb_planar_yuv444, y_yuv444, yuv420_rgb, rgb_yuv420,
   rgb_yuv444, rgb_bgr, bgr_rgb, yuv420_bgr, yuv444_bgr, yuv444_rgb, bgr_yuv444, nv12_y,
   rbg8_rgb32f, rbg8_y, rgb32f_deinterleave}

------------------------------------------------------------------------------
(* What Execute answers before it calls NPP, for surfaces of the kinds      *)
(* [format, size] given; "NONE" when it goes on.                           *)

Validate(row, src, dst) ==
  src.format = row.src /\ dst.format = row.dst /\ src.size = dst.size

ColorAnswer(row, cc) ==
  CASE cc \in row.colors -> "NONE"
    [] cc \in row.failing -> "FAIL"
    [] cc \in row.throwing -> "EXCEPTION"
    [] OTHER -> "UNSUPPORTED_FMT_CONV_PARAMS"

Unsupported(row, cc) == ColorAnswer(row, cc) = "UNSUPPORTED_FMT_CONV_PARAMS"

Answer(row, src, dst, cc) ==
  CASE row.validate = "first" /\ ~Validate(row, src, dst) -> "INVALID_INPUT"
    [] row.validate = "afterColors" /\ ~Unsupported(row, cc) /\ ~Validate(row, src, dst) ->
         "INVALID_INPUT"
    [] OTHER -> ColorAnswer(row, cc)

\* A mutant: every plane is made gray, after the copy.
BugGrayAfterwards(row, cc) ==
  IF row = y_yuv444
  THEN << [reads |-> {0}, writes |-> {0}], [reads |-> {}, writes |-> {0, 1, 2}] >>
  ELSE << [reads |-> Components(row.src), writes |-> Components(row.dst)] >>
\* The components each NPP call reads and writes, in the order of the calls.
NppCalls(row, cc) ==
  CASE row = y_yuv444 -> << [reads |-> {}, writes |-> {1}], [reads |-> {}, writes |-> {2}],
                            [reads |-> {0}, writes |-> {0}] >>
    [] row = nv12_y -> << [reads |-> {0}, writes |-> {0}] >>
    [] row = rgb_yuv444 /\ cc[2] = "MPEG" -> << [reads |-> {0}, writes |-> {0}] >>
    [] OTHER -> << [reads |-> Components(row.src), writes |-> Components(row.dst)] >>
=============================================================================
