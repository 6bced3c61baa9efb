---------------------------- MODULE CFilesysMgr ----------------------------
(***************************************************************************)
(* The record manager CFilesys_mgr (filesysmgr.cpp): capture data goes     *)
(* into files of about DATA_REC_UNITLEN bytes, an index file (a header and *)
(* one node per record) says which, and when the records outgrow the       *)
(* capacity the oldest one is removed.                                     *)
(*                                                                         *)
(* All calls hold the mutex cs, so submit() is sequential.  What is hard   *)
(* is that a record, its node and the header are written one after the     *)
(* other: the process may die between any two writes, and the next one     *)
(* starts from what is on disk.  Each write to disk is an action.  A       *)
(* write that reached the kernel survives the process; the loss of the     *)
(* machine itself is not modelled.                                         *)
(*                                                                         *)
(* A data file is known by its number, the second half of the name         *)
(* get_time() (util.cpp) makes up.                                         *)
(***************************************************************************)
EXTENDS Integers, Sequences, Functions

CONSTANTS
  Capacity,          \* _mgrhdr.device_capacity
  DATA_REC_UNITLEN,  \* a record of this length is closed
  MaxSize,           \* the most submit() is called with
  Word,              \* 2^32: unsigned long wraps around there
  MaxIndex,          \* bound: records begun
  MaxCrashes         \* bound: deaths of the process

MaxRec == DATA_REC_UNITLEN - 1 + MaxSize    \* the longest record

\* 2 * DATA_REC_UNITLEN is 256 MiB, the capacity main() ends up with, and
\* a device read is far shorter than a record.
ASSUME SizeAssumption ==
  /\ DATA_REC_UNITLEN \in Nat \ {0}
  /\ MaxSize \in 1 .. DATA_REC_UNITLEN
  /\ Capacity \in Nat
  /\ Capacity >= 2 * DATA_REC_UNITLEN
  /\ Word \in Nat \ {0}
\* The lengths of all records fit an unsigned long.  In the program 31 records
\* do, and the capacity holds two of them: that leaves room for nine deaths.
ASSUME WordAssumption ==
  Word > (Capacity \div DATA_REC_UNITLEN + 2 + 3 * MaxCrashes) * MaxRec
ASSUME BoundAssumption == MaxIndex \in Nat /\ MaxCrashes \in Nat

VARIABLES
  _mgrhdr,    \* the header in memory
  diskhdr,    \* the header in the index file
  nodes,      \* the nodes in the index file; the file never shrinks
  files,      \* the data files that exist
  m_handle,   \* the open record, its file and length; or file NONE
  m_node,     \* its node
  recnode,    \* remove_first: the node to be removed
  slot,       \* remove_content: the node slot it copies to next
  time,       \* get_time: the number of the last name it made up
  pc,         \* where submit() is
  crashes,    \* history: deaths of the process,
  torn        \*   one of them in the middle of remove_first

recVars  == <<m_handle, m_node, recnode, slot>>
histVars == <<crashes, torn>>
vars == <<_mgrhdr, diskhdr, nodes, files, recVars, time, pc, histVars>>

NONE == 0            \* no data file; the numbers of files begin with 1
Null == [file |-> NONE, length |-> 0]
ZeroNode == [index |-> 0, datalen |-> 0, data_file |-> NONE]
NODEINDEX_NULL == -1

Init ==
  /\ _mgrhdr = [current_length |-> 0, nodenum |-> 0,
                nodeindex_start |-> NODEINDEX_NULL,
                nodeindex_stop |-> NODEINDEX_NULL]
  /\ diskhdr = _mgrhdr
  /\ nodes = <<>>
  /\ files = {}
  /\ m_handle = Null
  /\ m_node = ZeroNode
  /\ recnode = ZeroNode
  /\ slot = 0
  /\ time = 0
  /\ pc = "idle"
  /\ crashes = 0
  /\ torn = FALSE
-----------------------------------------------------------------------------
(* new_record_handle.                                                      *)

\* fwrite at a slot of the index file, which grows if the slot is the next.
WriteNode(i, node) ==
  nodes' = [j \in 1 .. (IF i > Len(nodes) THEN i ELSE Len(nodes)) |->
              IF j = i THEN node ELSE nodes[j]]

NextName_NoCheck(t) == t = time + 1
\* get_new_time: names are made up until one is not taken.
NextName(t) ==
  /\ t > time /\ t \notin files
  /\ \A u \in time + 1 .. t - 1 : u \in files

\* submit() with no record open: a new data file.
NewRecord ==
  /\ pc = "idle"
  /\ m_handle = Null
  /\ _mgrhdr.nodeindex_stop < MaxIndex
  /\ \E t \in 1 .. MaxIndex + MaxCrashes + 2 :
       /\ NextName(t)
       /\ time' = t
       /\ files' = files \cup {t}
       /\ m_handle' = [file |-> t, length |-> 0]
       /\ m_node' = [index |-> IF _mgrhdr.nodenum = 0 THEN 0
                               ELSE _mgrhdr.nodeindex_stop + 1,
                     datalen |-> 0, data_file |-> t]
  /\ pc' = "new_node"
  /\ UNCHANGED <<_mgrhdr, diskhdr, nodes, recnode, slot, histVars>>

\* ... its node, behind the others ...
NewNode ==
  /\ pc = "new_node"
  /\ WriteNode(_mgrhdr.nodenum + 1, m_node)
  /\ pc' = "new_header"
  /\ UNCHANGED <<_mgrhdr, diskhdr, files, recVars, time, histVars>>

\* ... and the header.
NewHeader ==
  /\ pc = "new_header"
  /\ _mgrhdr' = [_mgrhdr EXCEPT
                   !.nodenum = @ + 1,
                   !.nodeindex_start = IF _mgrhdr.nodenum = 0 THEN 0 ELSE @,
                   !.nodeindex_stop = IF _mgrhdr.nodenum = 0 THEN 0 ELSE @ + 1]
  /\ diskhdr' = _mgrhdr'
  /\ pc' = "write"
  /\ UNCHANGED <<nodes, files, recVars, time, histVars>>
-----------------------------------------------------------------------------
(* submit, release.                                                        *)

\* submit(buff, size): the data, and whether the record is full.
Write ==
  /\ pc = "write" \/ (pc = "idle" /\ m_handle # Null)
  /\ \E size \in 1 .. MaxSize :
       /\ m_handle' = [m_handle EXCEPT !.length = @ + size]
       /\ pc' = IF m_handle.length + size >= DATA_REC_UNITLEN
                  THEN "release" ELSE "idle"
  /\ UNCHANGED <<_mgrhdr, diskhdr, nodes, files, m_node, recnode, slot, time,
                 histVars>>

Release_Always ==
  /\ pc = "release"
  /\ pc' = "shift" /\ slot' = 1 /\ recnode' = nodes[1]
  /\ UNCHANGED <<_mgrhdr, diskhdr, nodes, files, m_handle, m_node, time, histVars>>

Release_TwiceCapacity ==
  /\ pc = "release"
  /\ IF _mgrhdr.current_length > 2 * Capacity
       THEN pc' = "shift" /\ slot' = 1 /\ recnode' = nodes[1]
       ELSE pc' = "append_node" /\ UNCHANGED <<slot, recnode>>
  /\ UNCHANGED <<_mgrhdr, diskhdr, nodes, files, m_handle, m_node, time, histVars>>

\* release(): too long already, remove the first record; then append.
Release ==
  /\ pc = "release"
  /\ IF _mgrhdr.current_length > Capacity
       THEN pc' = "shift" /\ slot' = 1 /\ recnode' = nodes[1]
       ELSE pc' = "append_node" /\ UNCHANGED <<slot, recnode>>
  /\ UNCHANGED <<_mgrhdr, diskhdr, nodes, files, m_handle, m_node, time, histVars>>
-----------------------------------------------------------------------------
(* remove_first.                                                           *)

\* remove_content: the nodes move down one by one, the first of them into
\* the reserved part of the header, which nobody reads.
RemoveShift ==
  /\ pc = "shift"
  /\ IF slot < Len(nodes)
       THEN /\ nodes' = [nodes EXCEPT ![slot] = nodes[slot + 1]]
            /\ slot' = slot + 1
            /\ UNCHANGED pc
       ELSE /\ pc' = "rm"
            /\ UNCHANGED <<nodes, slot>>
  /\ UNCHANGED <<_mgrhdr, diskhdr, files, m_handle, m_node, recnode, time, histVars>>

RemoveFile_Current ==
  /\ pc = "rm"
  /\ files' = files \ {m_handle.file}
  /\ pc' = "clear"
  /\ UNCHANGED <<_mgrhdr, diskhdr, nodes, recVars, time, histVars>>

\* system("rm -f <data_file>"), which may fail; nobody looks at its result.
RemoveFile ==
  /\ pc = "rm"
  /\ files' \in {files, files \ {recnode.data_file}}
  /\ pc' = "clear"
  /\ UNCHANGED <<_mgrhdr, diskhdr, nodes, recVars, time, histVars>>

RemoveClear_Marks ==
  /\ pc = "clear"
  /\ nodes' = [nodes EXCEPT ![Len(nodes)].index = NODEINDEX_NULL]
  /\ pc' = "remove_header"
  /\ UNCHANGED <<_mgrhdr, diskhdr, files, recVars, time, histVars>>

\* The end of remove_content: the last slot is cleared.  This fwrite comes before
\* the rm, but it is buffered: what brings it to the file is the fseek in
\* front of the next one, that of the header.
RemoveClear ==
  /\ pc = "clear"
  /\ nodes' = [nodes EXCEPT ![Len(nodes)] = ZeroNode]
  /\ pc' = "remove_header"
  /\ UNCHANGED <<_mgrhdr, diskhdr, files, recVars, time, histVars>>

RemoveHeader_NoLength ==
  /\ pc = "remove_header"
  /\ _mgrhdr' = [_mgrhdr EXCEPT !.nodenum = @ - 1, !.nodeindex_start = @ + 1]
  /\ diskhdr' = _mgrhdr'
  /\ pc' = "append_node"
  /\ UNCHANGED <<nodes, files, recVars, time, histVars>>

RemoveHeader ==
  /\ pc = "remove_header"
  /\ _mgrhdr' = [_mgrhdr EXCEPT
                   !.nodenum = @ - 1,
                   !.nodeindex_start = @ + 1,
                   !.current_length = (@ - recnode.datalen) % Word]
  /\ diskhdr' = _mgrhdr'
  /\ pc' = "append_node"
  /\ UNCHANGED <<nodes, files, recVars, time, histVars>>
-----------------------------------------------------------------------------
(* append.                                                                 *)

AppendNode_Next ==
  /\ pc = "append_node"
  /\ WriteNode(_mgrhdr.nodenum + 1, [m_node EXCEPT !.datalen = m_handle.length])
  /\ pc' = "append_header"
  /\ UNCHANGED <<_mgrhdr, diskhdr, files, recVars, time, histVars>>

\* The last node, this time with the length of the record.
AppendNode ==
  /\ pc = "append_node"
  /\ WriteNode(_mgrhdr.nodenum, [m_node EXCEPT !.datalen = m_handle.length])
  /\ pc' = "append_header"
  /\ UNCHANGED <<_mgrhdr, diskhdr, files, recVars, time, histVars>>

AppendHeader_NotSaved ==
  /\ pc = "append_header"
  /\ _mgrhdr' = [_mgrhdr EXCEPT
                   !.current_length = (@ + m_handle.length) % Word]
  /\ m_handle' = Null
  /\ pc' = "idle"
  /\ UNCHANGED <<diskhdr, nodes, files, m_node, recnode, slot, time, histVars>>

\* The header; then submit() forgets the record.
AppendHeader ==
  /\ pc = "append_header"
  /\ _mgrhdr' = [_mgrhdr EXCEPT
                   !.current_length = (@ + m_handle.length) % Word]
  /\ diskhdr' = _mgrhdr'
  /\ m_handle' = Null
  /\ pc' = "idle"
  /\ UNCHANGED <<nodes, files, m_node, recnode, slot, time, histVars>>
-----------------------------------------------------------------------------
(* The process dies and is started again.                                  *)

\* Between two writes; at "idle" also by the signal handler of main.cpp,
\* which deletes the manager with its record open, and by a data file that
\* cannot be created (the null pointer of new_record_handle is used).
Crash ==
  /\ pc # "down"
  /\ crashes < MaxCrashes
  /\ crashes' = crashes + 1
  /\ torn' = (torn \/ pc \in {"clear", "rm", "remove_header"}
                   \/ (pc = "shift" /\ slot > 1))
  /\ pc' = "down"
  /\ m_handle' = Null
  /\ UNCHANGED <<_mgrhdr, diskhdr, nodes, files, m_node, recnode, slot, time>>

\* The constructor finds an index file and takes its header; get_time
\* begins anew.
Restart ==
  /\ pc = "down"
  /\ _mgrhdr' = diskhdr
  /\ time' = 0
  /\ pc' = "idle"
  /\ UNCHANGED <<diskhdr, nodes, files, recVars, histVars>>
-----------------------------------------------------------------------------
Next ==
  \/ NewRecord \/ NewNode \/ NewHeader
  \/ Write \/ Release
  \/ RemoveShift \/ RemoveClear \/ RemoveFile \/ RemoveHeader
  \/ AppendNode \/ AppendHeader
  \/ Crash \/ Restart

Spec == Init /\ [][Next]_vars
-----------------------------------------------------------------------------
(* Properties.                                                             *)

Removing == {"shift", "clear", "rm", "remove_header"}
Pcs == {"idle", "new_node", "new_header", "write", "release", "append_node",
        "append_header", "down"} \cup Removing
Header == [current_length : Nat, nodenum : Nat,
           nodeindex_start : Int, nodeindex_stop : Int]
Node == [index : Nat, datalen : Nat, data_file : Nat]

TypeOK ==
  /\ _mgrhdr \in Header /\ diskhdr \in Header
  /\ nodes \in Seq(Node)
  /\ files \subseteq Nat
  /\ m_handle \in [file : Nat, length : Nat]
  /\ m_node \in Node /\ recnode \in Node
  /\ slot \in Nat /\ time \in Nat
  /\ pc \in Pcs
  /\ crashes \in Nat /\ torn \in BOOLEAN

\* The records the header counts.
Records == 1 .. _mgrhdr.nodenum

\* current_length is the sum of the lengths in the nodes; each death of the
\* process makes it wrong by one record at most, for good, in either
\* direction.
LengthAccounted ==
  pc = "idle" =>
    LET total == SumFunction([i \in Records |-> nodes[i].datalen]) IN
    _mgrhdr.current_length \in total - crashes * MaxRec .. total + crashes * MaxRec

\* However often the process died, removing a record never takes more off
\* current_length than it holds: the 32-bit difference does not wrap.
NoWrap == pc \in Removing => recnode.datalen <= _mgrhdr.current_length

\* remove_first never removes the record that is being written: there is an
\* older one.  Nor does it remove the file of that record, unless a death has
\* cut a removal short (torn): then an old node can have the same name.
OldestIsClosed ==
  pc \in Removing =>
    /\ _mgrhdr.nodenum >= 2
    /\ torn \/ recnode.data_file # m_handle.file

\* The header's two ways to count the records agree, in memory and on disk,
\* whenever the process may have died.
CountsAgree ==
  \A h \in {_mgrhdr, diskhdr} :
    h.nodenum > 0 => h.nodenum = h.nodeindex_stop - h.nodeindex_start + 1

\* The counts agree.  And unless the process died in the middle of
\* remove_first, the nodes the header counts are the records from
\* nodeindex_start to nodeindex_stop, in order, each with a data file of its
\* own that exists.
IndexIntact ==
  /\ CountsAgree
  /\ ~torn /\ pc \notin Removing \cup {"down"} =>
       /\ _mgrhdr.nodenum <= Len(nodes)
       /\ \A i \in Records :
            /\ nodes[i].index = _mgrhdr.nodeindex_start + i - 1
            /\ nodes[i].data_file \in files
            /\ \A j \in Records :
                 nodes[i].data_file = nodes[j].data_file => i = j

\* The removal of one record per record keeps up: there is never more than
\* the capacity, one record that exceeds it and the open one; and two for each
\* death of the process: one whose node says that it is empty, and one whose
\* length is taken off twice because its node is there twice.
RecordsBounded ==
  _mgrhdr.nodenum <= Capacity \div DATA_REC_UNITLEN + 2 + 2 * crashes
=============================================================================
