--------------------------- MODULE MCFilesysDisk ---------------------------
(***************************************************************************)
(* FilesysDisk with records of two units and room for two: the fourth is   *)
(* the first to come with a removal.  One death of a running process, two  *)
(* of one without a header.                                                *)
(***************************************************************************)
EXTENDS FilesysDisk
=============================================================================
