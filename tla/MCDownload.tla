----------------------------- MODULE MCDownload -----------------------------
(* Model checking of Download: two files of one chunk, one of two chunks, which *)
(* is as long as a small file may be, and a large one.                          *)
EXTENDS Download, TLC

CONSTANTS one, two, small, large, a, b, c

MCContent ==
  [f \in Files |-> CASE f = one -> <<a>>
                     [] f = two -> <<b>>
                     [] f = small -> <<a, b>>
                     [] f = large -> <<a, b, c, a>>]
=============================================================================
