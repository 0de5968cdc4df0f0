------------------------------ MODULE LinkEnds ------------------------------
(* The two ends of a link, named after the ports of its analyzer.          *)
Node == {"left", "right"}
Peer(n) == IF n = "left" THEN "right" ELSE "left"
=============================================================================
