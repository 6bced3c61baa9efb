---------------------------- MODULE FilesysDisk ----------------------------
(***************************************************************************)
(* CFilesysMgr with what is on the disk around it: the bytes that really   *)
(* are in the data files, and the constructor's first start, when there is *)
(* no index file yet (filesysmgr.cpp:72-152).                              *)
(*                                                                         *)
(* fwrite of the data can be short (a full disk), and what it took is in   *)
(* the buffer of the FILE until fclose: a death loses some of it.          *)
(* rm can fail.  Nobody looks at either.                                   *)
(*                                                                         *)
(* The constructor takes an index file that exists for one that has a      *)
(* header.  If it is empty, _mgrhdr stays what operator new left there,    *)
(* and the first record writes that to disk.                               *)
(***************************************************************************)
EXTENDS CFilesysMgr, FiniteSets

CONSTANT MaxBoots   \* bound: deaths before there is a header, or without one

ASSUME BootAssumption == MaxBoots \in Nat

VARIABLES
  index,      \* the index file: none, empty, whole (CFilesysMgr), garbled
  boot,       \* the constructor, before CFilesysMgr begins
  stored,     \* the bytes in each data file
  boots,      \* deaths before there is a header, or without one
  bootDeath,  \* history: one of them was between creation and header
  short,      \* history: the data files with a short write
  leaks       \* history: data files rm did not remove

diskVars == <<index, boot, boots, bootDeath>>
dvars == <<vars, diskVars, stored, short, leaks>>

DInit ==
  /\ Init
  /\ index = "none" /\ boot = "start" /\ stored = <<>>
  /\ boots = 0 /\ bootDeath = FALSE /\ short = {} /\ leaks = 0
-----------------------------------------------------------------------------
(* The constructor without a whole index.                                  *)

Create_Always ==
  /\ boot = "start"
  /\ index' = "empty" /\ boot' = "created"
  /\ UNCHANGED <<vars, stored, boots, bootDeath, short, leaks>>

\* No index file: it is created, or cannot be and submit() refuses for ever.
Create ==
  /\ boot = "start" /\ index = "none"
  /\ \/ index' = "empty" /\ boot' = "created"
     \/ boot' = "failed" /\ UNCHANGED index
  /\ UNCHANGED <<vars, stored, boots, bootDeath, short, leaks>>

\* The header is written and flushed: CFilesysMgr begins.
WriteHeader ==
  /\ boot = "created"
  /\ index' = "whole" /\ boot' = "running"
  /\ UNCHANGED <<vars, stored, boots, bootDeath, short, leaks>>

\* An index file without a header: fread leaves _mgrhdr as it was.
ReadNothing ==
  /\ boot = "start" /\ index \in {"empty", "garbled"}
  /\ boot' = "garbled"
  /\ UNCHANGED <<vars, index, stored, boots, bootDeath, short, leaks>>

\* The first record of such a process writes that header.
WriteGarbage ==
  /\ boot = "garbled"
  /\ index' = "garbled"
  /\ UNCHANGED <<vars, boot, stored, boots, bootDeath, short, leaks>>

Death ==
  /\ boot \in {"created", "garbled", "failed"}
  /\ boots < MaxBoots
  /\ boots' = boots + 1
  /\ bootDeath' = (bootDeath \/ boot = "created")
  /\ boot' = "start"
  /\ UNCHANGED <<vars, index, stored, short, leaks>>
-----------------------------------------------------------------------------
(* The steps of CFilesysMgr, and the bytes they move.                      *)

DNewRecord ==
  /\ NewRecord
  /\ stored' = [f \in files' |-> IF f \in files THEN stored[f] ELSE 0]
  /\ short' = short \cap files
  /\ UNCHANGED leaks

\* fwrite takes some of the bytes, m_handle->length counts all.  (After a
\* removal was cut short the open file may have been removed.)
DWrite ==
  /\ Write
  /\ IF m_handle.file \in files
     THEN \E n \in 0 .. m_handle'.length - m_handle.length :
            /\ stored' = [stored EXCEPT ![m_handle.file] = @ + n]
            /\ short' = IF n < m_handle'.length - m_handle.length
                        THEN short \cup {m_handle.file} ELSE short
     ELSE UNCHANGED <<stored, short>>
  /\ UNCHANGED leaks

DRemoveFile ==
  /\ RemoveFile
  /\ stored' = [f \in files' |-> stored[f]]
  /\ short' = short \cap files'
  /\ leaks' = IF recnode.data_file \in files' THEN leaks + 1 ELSE leaks

\* What the buffer held of the record is lost, unless it was closed already:
\* submit() calls fclose before release().
DCrash ==
  /\ Crash
  /\ IF m_handle.file \in files /\ pc \in {"idle", "write", "release"}
     THEN \E n \in 0 .. stored[m_handle.file] :
            stored' = [stored EXCEPT ![m_handle.file] = n]
     ELSE UNCHANGED stored
  /\ UNCHANGED <<short, leaks>>

\* The other steps write only to the index file.
DIndex ==
  /\ \/ NewNode \/ NewHeader \/ Release \/ RemoveShift \/ RemoveClear
     \/ RemoveHeader \/ AppendNode \/ AppendHeader \/ Restart
  /\ UNCHANGED <<stored, short, leaks>>

Running ==
  /\ boot = "running"
  /\ DNewRecord \/ DWrite \/ DRemoveFile \/ DCrash \/ DIndex
  /\ UNCHANGED diskVars
-----------------------------------------------------------------------------
DNext == Create \/ WriteHeader \/ ReadNothing \/ WriteGarbage \/ Death \/ Running

DSpec == DInit /\ [][DNext]_dvars
-----------------------------------------------------------------------------
(* Properties.                                                             *)

DTypeOK ==
  /\ TypeOK
  /\ index \in {"none", "empty", "whole", "garbled"}
  /\ boot \in {"start", "created", "running", "garbled", "failed"}
  /\ stored \in [files -> Nat]
  /\ boots \in 0 .. MaxBoots /\ bootDeath \in BOOLEAN
  /\ short \subseteq files /\ leaks \in Nat

\* A death between the creation of the index file and its header is never
\* repaired: no later start makes the index whole; and nothing but such a
\* death leads to a header nobody wrote.
EmptyIndexIsFinal ==
  /\ bootDeath => index # "whole"
  /\ index = "garbled" \/ boot = "garbled" => bootDeath

\* The node of a closed record tells the length of its data file, unless one
\* of its writes was short (then the file is shorter, and nothing says so), or
\* the process died with the record open (then the node says 0 for ever).
NodesTellLengths ==
  pc = "idle" /\ ~torn =>
    \A i \in Records :
      LET f == nodes[i].data_file IN
      \/ f = m_handle.file
      \/ nodes[i].datalen = stored[f] /\ f \notin short
      \/ nodes[i].datalen > stored[f] /\ f \in short
      \/ nodes[i].datalen = 0 /\ crashes > 0

\* The data files stay within the capacity, the one record that exceeds it,
\* the open one, and what deaths and failed removals leave behind, each of
\* the length of one record.  A death leaves up to three: two that are not
\* counted in current_length, and one that no node names.
DiskBounded ==
  /\ DTypeOK
  /\ RecordsBounded
  /\ \A f \in files : stored[f] <= MaxRec
  /\ Cardinality(files) <= Capacity \div DATA_REC_UNITLEN + 2 + 3 * crashes + leaks
=============================================================================
