--------------------------- MODULE MCCFilesysMgr ---------------------------
(***************************************************************************)
(* CFilesysMgr with records of two or three units and room for two; the    *)
(* sixth record comes after removals, and two deaths can hit any of them.  *)
(***************************************************************************)
EXTENDS CFilesysMgr
=============================================================================
