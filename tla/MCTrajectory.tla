---------------------------- MODULE MCTrajectory ----------------------------
(* Instances of Trajectory for TLC: one axis, a recording of one or two    *)
(* frames, a write queue of two waypoints.                                 *)
EXTENDS Trajectory

MCAxis == {0}
=============================================================================
