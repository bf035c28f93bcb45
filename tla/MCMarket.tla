---------------------------- MODULE MCMarket ----------------------------
(* Two stalls, two buyers; the buyers' threads are interchangeable but liveness is *)
(* checked, so no symmetry is used.                                                *)
EXTENDS Market

CONSTANTS s1, s2, b1, b2

MCStalls == {s1, s2}
MCBuyers == {b1, b2}
MCFirstStock == {1, 2}
MCNeeds == {2, 3}
=========================================================================
