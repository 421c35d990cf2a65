---------------------------- MODULE MCController ----------------------------
(***************************************************************************)
(* Instances of Controller: every build, and the sealed flight build.      *)
(***************************************************************************)
EXTENDS Controller

AllBuilds == [commands : BOOLEAN, auto : BOOLEAN]

SealedBuild == {[commands |-> FALSE, auto |-> TRUE]}
=============================================================================
