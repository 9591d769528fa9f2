----------------------------- MODULE MCShutdown -----------------------------
(* The instance of Shutdown that TLC explores: three clusters, so that one   *)
(* can be removed while the second is stopped and the third is still to be.  *)
EXTENDS Shutdown
CONSTANTS a, b, c
ThreeNames == {a, b, c}
OneName    == {b}
=============================================================================
