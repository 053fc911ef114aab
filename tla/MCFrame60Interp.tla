-------------------------- MODULE MCFrame60Interp --------------------------
(* Three looks in a ring, of which the first and the last are far apart.    *)
EXTENDS Frame60Interp

MCLooks    == 1..3
MCFarPairs == {<<1, 3>>, <<3, 1>>}
MCStep(v)  == (v % 3) + 1
MCBack(v)  == IF v = 1 THEN 3 ELSE v - 1
=============================================================================
