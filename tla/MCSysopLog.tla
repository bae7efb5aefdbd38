----------------------------- MODULE MCSysopLog -----------------------------
(***************************************************************************)
(* SysopLog for TLC.  Texts of widths 30 and 45: two 30s share a LOG_CHAR  *)
(* line, a 45 after a 30 is just inside column 78 and a second 45 forces   *)
(* the wrap.                                                               *)
(***************************************************************************)
EXTENDS SysopLog

CONSTANTS n1, n2

MCTextLens == {30, 45}
MCOneNode == {n1}
MCTwoNodes == {n1, n2}
====
