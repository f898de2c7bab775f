------------------------ MODULE MCPhysicalConnection ------------------------
(***************************************************************************)
(* The instance of PhysicalConnection that TLC checks: one connection with *)
(* versions on both sides of every comparison the code makes.              *)
(***************************************************************************)
EXTENDS PhysicalConnection

MCVersions == {42, 43, 50, 51}
=============================================================================
