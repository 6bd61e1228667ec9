--------------------------- MODULE MCProgressReporter ---------------------------
(* Three stages of different widths, the longest of them in the middle as      *)
(* "Looking up physical file" is between its neighbours.                       *)
EXTENDS ProgressReporter

MCWidth == <<2, 3, 1>>
=================================================================================
