----------------------------- MODULE MCDesktop ------------------------------
(* Desktop with up to two lines on stdout, one more than a pipe holds.        *)
EXTENDS Desktop
LinesOfAnond == [out |-> 2, err |-> 1]
=============================================================================
