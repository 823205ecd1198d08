--------------------------- MODULE MCConfigImport ---------------------------
(***************************************************************************)
(* The configuration import on a bundle of a file at the root, another one *)
(* directory down and a third two directories down, backed up under an     *)
(* existing backup root.                                                   *)
(***************************************************************************)
EXTENDS ConfigImport

MCPathOf == << <<>>, <<"d", "d/s">>, <<"d">> >>
MCBackupPath == << <<>>, <<"b/d", "b/d/s">>, <<"b/d">> >>
==============================================================================
