---------------------------- MODULE MCRayService ----------------------------
(* The instance of RayService that TLC explores: a head, the head of a       *)
(* `ray up` that follows a `ray down`, and a worker that comes at any time.   *)
EXTENDS RayService
CONSTANTS h, h2, w
TwoHeads  == {h, h2}
All       == {h, h2, w}
OneWorker == {w}
=============================================================================
