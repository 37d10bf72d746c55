------------------------------ MODULE PiMeshMC ------------------------------
(***************************************************************************)
(* Instances of PiMesh for TLC.                                            *)
(***************************************************************************)
EXTENDS PiMesh
=============================================================================
