-------------------------------- MODULE MCSdk --------------------------------
(***************************************************************************)
(* An instance of Sdk for TLC: two files and a path that may be none, and  *)
(* a document that is replaced.                                            *)
(***************************************************************************)
EXTENDS Sdk

CONSTANTS f1, f2, gone

MCFiles == <<f1, gone, f2>>
=============================================================================
