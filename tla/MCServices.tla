----------------------------- MODULE MCServices -----------------------------
(* Small instances of the services. *)
EXTENDS Services, TLC

CONSTANTS c1, c2, w1, w2, w3, w4, k1, k2

TwoCores == {c1, c2}
FourWorkers == {w1, w2, w3, w4}
MainFails == {"main"}
TwoCalls == {k1, k2}
=============================================================================
