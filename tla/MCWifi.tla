-------------------------------- MODULE MCWifi --------------------------------
(* Two networks, up to two scans at a time, one immediate retry.  Networks    *)
(* are interchangeable, and so are scan tasks.                                *)
EXTENDS WifiPage, TLC

CONSTANTS a, b, s1, s2

MCNets == {a, b}
MCScans == {s1, s2}

Symmetry == Permutations(MCNets) \cup Permutations(MCScans)
=============================================================================
