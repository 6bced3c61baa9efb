------------------------- MODULE CFilesysMgrProofs -------------------------
(***************************************************************************)
(* The record manager for any capacity, record length and number of        *)
(* deaths: current_length never wraps, the header's counts agree, the      *)
(* record being written is never the one removed, and the index is intact  *)
(* unless a removal was cut short; current_length stays the sum of the     *)
(* lengths up to a record for each death, and the records stay within the  *)
(* capacity.  Then, with the disk around it (FilesysDisk), for any writes  *)
(* that are cut short: the nodes tell how long the data files are, an      *)
(* index without a header stays one, and there is a bound on the files.    *)
(***************************************************************************)
EXTENDS FilesysDisk, FiniteSetTheorems, WellFoundedInduction, TLAPS

\* A record is open, and the header counts it.
Active == m_handle # Null /\ pc \notin {"new_node", "new_header"}

\* How long records are.
LengthInv ==
  /\ \A i \in 1 .. Len(nodes) : nodes[i].datalen <= MaxRec
  /\ recnode.datalen <= MaxRec
  /\ m_node.datalen = 0
  /\ m_handle.length <= MaxRec
  /\ pc \in {"idle", "new_node", "new_header", "write", "down"} =>
       m_handle.length < DATA_REC_UNITLEN
  /\ pc \in Removing => _mgrhdr.current_length > Capacity

\* How many records the header counts.
CountInv ==
  /\ diskhdr = _mgrhdr
  /\ _mgrhdr.nodenum <= Len(nodes)
  /\ pc \in {"new_header"} => _mgrhdr.nodenum + 1 <= Len(nodes)
  /\ _mgrhdr.current_length > 0 => _mgrhdr.nodenum >= 1
  /\ pc \in {"write", "release", "append_node", "append_header"} \cup Removing =>
       _mgrhdr.nodenum >= 1
  /\ Active => _mgrhdr.nodenum >= 1
  /\ Active /\ _mgrhdr.current_length > 0
            /\ pc \notin {"append_node", "append_header"} =>
       _mgrhdr.nodenum >= 2
  /\ pc \in {"idle", "down"} \/ m_handle # Null
  /\ pc \in Removing => slot \in 1 .. Len(nodes)
  /\ _mgrhdr.nodenum > 0 => _mgrhdr.nodeindex_start >= 0
  /\ CountsAgree

IInv == TypeOK /\ LengthInv /\ CountInv

\* The record the header counts as its i-th.  While remove_content runs it
\* is where the copying has left it; the first one is in recnode.
Rec(i) ==
  IF pc \notin Removing THEN nodes[i]
  ELSE IF i = 1 THEN recnode
  ELSE IF i <= slot THEN nodes[i - 1] ELSE nodes[i]

\* The records the header counts, and their files.
RecordsInv ==
  /\ \A i \in Records : Rec(i).index = _mgrhdr.nodeindex_start + i - 1
  /\ \A i \in Records :
       (pc \in {"clear", "remove_header"} => i > 1) => Rec(i).data_file \in files
  /\ \A i, j \in Records : Rec(i).data_file = Rec(j).data_file => i = j

\* The open record is the last one.
OpenInv ==
  Active =>
    /\ m_node.index = _mgrhdr.nodeindex_stop
    /\ m_node.data_file = m_handle.file
    /\ Rec(_mgrhdr.nodenum).data_file = m_handle.file

\* A record the header does not count yet.
NewInv ==
  pc \in {"new_node", "new_header"} =>
    /\ m_node.index = IF _mgrhdr.nodenum = 0 THEN 0
                      ELSE _mgrhdr.nodeindex_stop + 1
    /\ m_node.data_file = m_handle.file
    /\ m_handle.file \in files
    /\ \A i \in Records : nodes[i].data_file # m_handle.file
    /\ pc = "new_header" => nodes[_mgrhdr.nodenum + 1] = m_node

\* How far remove_content has come.
ShiftInv ==
  /\ pc = "shift" /\ slot = 1 => recnode = nodes[1]
  /\ pc \in {"rm", "clear", "remove_header"} => slot = Len(nodes)

\* All this holds as long as no removal has been cut short.
FileInv == ~torn => RecordsInv /\ OpenInv /\ NewInv /\ ShiftInv
-----------------------------------------------------------------------------
LEMMA RecordsFit == MaxRec \in Nat /\ MaxRec < Capacity /\ MaxRec >= DATA_REC_UNITLEN
  BY SizeAssumption DEF MaxRec

LEMMA ModType == ASSUME NEW x \in Int PROVE x % Word \in Nat
  BY SizeAssumption

\* Writing a node leaves a sequence of nodes.
LEMMA WriteNodeFacts ==
  ASSUME nodes \in Seq(Node), NEW k \in Nat, k >= 1, k <= Len(nodes) + 1,
         NEW nd \in Node, WriteNode(k, nd)
  PROVE  /\ nodes' \in Seq(Node)
         /\ Len(nodes') = IF k > Len(nodes) THEN k ELSE Len(nodes)
         /\ \A j \in 1 .. Len(nodes') : nodes'[j] = IF j = k THEN nd ELSE nodes[j]
<1> DEFINE n == IF k > Len(nodes) THEN k ELSE Len(nodes)
<1>1. n \in Nat /\ \A j \in 1 .. n : j # k => j \in 1 .. Len(nodes)
  OBVIOUS
<1>2. nodes' = [j \in 1 .. n |-> IF j = k THEN nd ELSE nodes[j]]
  BY DEF WriteNode
<1>3. \A j \in 1 .. n : (IF j = k THEN nd ELSE nodes[j]) \in Node
  BY <1>1
<1> HIDE DEF n
<1>4. nodes' \in Seq(Node) /\ Len(nodes') = n
  BY <1>1, <1>2, <1>3
<1>5. \A j \in 1 .. n : nodes'[j] = IF j = k THEN nd ELSE nodes[j]
  BY <1>2
<1> QED
  BY <1>4, <1>5 DEF n

LEMMA InitIInv == Init => IInv
<1> SUFFICES ASSUME Init PROVE IInv
  OBVIOUS
<1> USE RecordsFit, SizeAssumption
<1>1. TypeOK
  <2>1. ZeroNode \in Node
    BY DEF ZeroNode, Node, NONE
  <2>2. _mgrhdr \in Header
    BY DEF Init, Header, NODEINDEX_NULL
  <2>3. m_handle \in [file : Nat, length : Nat]
    BY DEF Init, Null, NONE
  <2>4. nodes \in Seq(Node) /\ files \subseteq Nat
    BY DEF Init
  <2>5. pc \in Pcs
    BY DEF Init, Pcs
  <2> QED
    BY <2>1, <2>2, <2>3, <2>4, <2>5 DEF Init, TypeOK
<1>2. LengthInv
  BY DEF Init, LengthInv, ZeroNode, Null, Removing
<1>3. CountInv
  BY DEF Init, CountInv, CountsAgree, Active, Null, Removing
<1> QED
  BY <1>1, <1>2, <1>3 DEF IInv

LEMMA TypeStep == IInv /\ [Next]_vars => TypeOK'
<1> SUFFICES ASSUME IInv, [Next]_vars PROVE TypeOK'
  OBVIOUS
<1> USE SizeAssumption DEF TypeOK, Pcs, Removing
<1>0. TypeOK /\ LengthInv /\ CountInv
  BY DEF IInv
<1>1. CASE NewRecord
  <2>1. PICK t \in 1 .. MaxIndex + MaxCrashes + 2 :
          /\ time' = t
          /\ files' = files \cup {t}
          /\ m_handle' = [file |-> t, length |-> 0]
          /\ m_node' = [index |-> IF _mgrhdr.nodenum = 0 THEN 0
                                  ELSE _mgrhdr.nodeindex_stop + 1,
                        datalen |-> 0, data_file |-> t]
    BY <1>1 DEF NewRecord
  <2>2. t \in Nat
    BY BoundAssumption
  <2>3. (IF _mgrhdr.nodenum = 0 THEN 0 ELSE _mgrhdr.nodeindex_stop + 1) \in Nat
    <3>1. CASE _mgrhdr.nodenum = 0
      BY <3>1
    <3>2. CASE _mgrhdr.nodenum # 0
      <4>1. /\ _mgrhdr.nodenum \in Nat
            /\ _mgrhdr.nodeindex_start \in Int /\ _mgrhdr.nodeindex_stop \in Int
        BY <1>0 DEF Header
      <4>2. /\ _mgrhdr.nodeindex_start >= 0
            /\ _mgrhdr.nodenum = _mgrhdr.nodeindex_stop - _mgrhdr.nodeindex_start + 1
        BY <1>0, <3>2, <4>1 DEF CountInv, CountsAgree
      <4> QED
        BY <3>2, <4>1, <4>2
    <3> QED
      BY <3>1, <3>2
  <2>4. m_node' \in Node /\ m_handle' \in [file : Nat, length : Nat]
    BY <2>1, <2>2, <2>3 DEF Node
  <2>5. pc' \in Pcs /\ UNCHANGED <<_mgrhdr, diskhdr, nodes, recnode, slot, histVars>>
    BY <1>1 DEF NewRecord
  <2> QED
    BY <1>0, <2>1, <2>2, <2>4, <2>5 DEF histVars
<1>2. CASE NewNode
  <2>1. nodes' \in Seq(Node)
    <3>1. /\ nodes \in Seq(Node) /\ m_node \in Node
          /\ _mgrhdr.nodenum + 1 \in Nat /\ _mgrhdr.nodenum + 1 >= 1
          /\ _mgrhdr.nodenum + 1 <= Len(nodes) + 1
      <4>1. _mgrhdr.nodenum \in Nat /\ _mgrhdr.nodenum <= Len(nodes)
        BY <1>0 DEF Header, CountInv
      <4> QED
        BY <1>0, <4>1
    <3>2. WriteNode(_mgrhdr.nodenum + 1, m_node)
      BY <1>2 DEF NewNode
    <3> QED
      BY <3>1, <3>2, WriteNodeFacts
  <2> QED
    BY <1>0, <1>2, <2>1 DEF NewNode, recVars, histVars
<1>3. CASE NewHeader
  <2>1. _mgrhdr' \in Header
    <3> DEFINE start == IF _mgrhdr.nodenum = 0 THEN 0 ELSE _mgrhdr.nodeindex_start
               stop == IF _mgrhdr.nodenum = 0 THEN 0 ELSE _mgrhdr.nodeindex_stop + 1
    <3>1. start \in Int /\ stop \in Int /\ _mgrhdr.nodenum + 1 \in Nat
      BY <1>0 DEF Header
    <3>2. _mgrhdr' = [_mgrhdr EXCEPT !.nodenum = _mgrhdr.nodenum + 1,
                        !.nodeindex_start = start, !.nodeindex_stop = stop]
      BY <1>3 DEF NewHeader
    <3> HIDE DEF start, stop
    <3> QED
      BY <1>0, <3>1, <3>2 DEF Header
  <2> QED
    BY <1>0, <1>3, <2>1 DEF NewHeader, recVars, histVars
<1>4. CASE Write
  <2>1. m_handle' \in [file : Nat, length : Nat]
    <3>1. PICK size \in 1 .. MaxSize : m_handle' = [m_handle EXCEPT !.length = @ + size]
      BY <1>4 DEF Write
    <3>2. m_handle \in [file : Nat, length : Nat]
      BY <1>0
    <3> HIDE DEF TypeOK, Pcs, Removing
    <3>3. m_handle.length + size \in Nat
      BY <3>2
    <3> QED
      BY <3>1, <3>2, <3>3
  <2>2. /\ pc' \in {"release", "idle"}
        /\ UNCHANGED <<_mgrhdr, diskhdr, nodes, files, m_node, recnode, slot, time,
                       crashes, torn>>
    BY <1>4 DEF Write, histVars
  <2> QED
    BY <1>0, <2>1, <2>2
<1>5. CASE Release
  <2>1. Len(nodes) >= 1
    BY <1>0, <1>5 DEF Release, CountInv, Header
  <2>2. nodes[1] \in Node
    BY <1>0, <2>1
  <2> QED
    BY <1>0, <1>5, <2>2 DEF Release, histVars
<1>6. CASE RemoveShift
  <2>1. slot \in 1 .. Len(nodes) /\ Len(nodes) \in Nat
    BY <1>0, <1>6 DEF RemoveShift, CountInv
  <2>2. CASE slot < Len(nodes)
    <3>1. nodes[slot + 1] \in Node
      BY <1>0, <2>1, <2>2
    <3>2. nodes' = [nodes EXCEPT ![slot] = nodes[slot + 1]] /\ slot' = slot + 1
      BY <1>6, <2>2 DEF RemoveShift
    <3>3. nodes' \in Seq(Node)
      BY <1>0, <2>1, <3>1, <3>2
    <3>4. /\ slot' \in Nat /\ pc' = pc
          /\ UNCHANGED <<_mgrhdr, diskhdr, files, m_handle, m_node, recnode, time,
                         crashes, torn>>
      BY <1>6, <2>1, <2>2, <3>2 DEF RemoveShift, histVars
    <3> QED
      BY <1>0, <3>3, <3>4
  <2>3. CASE ~ (slot < Len(nodes))
    BY <1>0, <1>6, <2>3 DEF RemoveShift, histVars
  <2> QED
    BY <2>2, <2>3
<1>7. CASE RemoveClear
  <2>1. ZeroNode \in Node
    BY DEF ZeroNode, Node, NONE
  <2>2. Len(nodes) \in 1 .. Len(nodes)
    BY <1>0, <1>7 DEF RemoveClear, CountInv
  <2>3. nodes' \in Seq(Node)
    BY <1>0, <1>7, <2>1, <2>2 DEF RemoveClear
  <2> QED
    BY <1>0, <1>7, <2>3 DEF RemoveClear, recVars, histVars
<1>8. CASE RemoveFile
  BY <1>0, <1>8 DEF RemoveFile, recVars, histVars
<1>9. CASE RemoveHeader
  <2>1. /\ _mgrhdr.nodenum - 1 \in Nat
        /\ _mgrhdr.nodeindex_start + 1 \in Int
        /\ _mgrhdr.current_length - recnode.datalen \in Int
    <3>1. /\ _mgrhdr.nodenum \in Nat /\ _mgrhdr.nodeindex_start \in Int
          /\ _mgrhdr.current_length \in Nat /\ recnode.datalen \in Nat
      BY <1>0 DEF Header, Node
    <3>2. _mgrhdr.nodenum >= 1
      BY <1>0, <1>9 DEF RemoveHeader, CountInv
    <3> QED
      BY <3>1, <3>2
  <2>2. (_mgrhdr.current_length - recnode.datalen) % Word \in Nat
    BY <2>1, ModType
  <2>3. _mgrhdr' \in Header
    <3> DEFINE len == (_mgrhdr.current_length - recnode.datalen) % Word
    <3>1. _mgrhdr' = [_mgrhdr EXCEPT !.nodenum = _mgrhdr.nodenum - 1,
                        !.nodeindex_start = _mgrhdr.nodeindex_start + 1,
                        !.current_length = len]
      BY <1>9 DEF RemoveHeader
    <3> HIDE DEF len
    <3> QED
      BY <1>0, <2>1, <2>2, <3>1 DEF Header, len
  <2> QED
    BY <1>0, <1>9, <2>3 DEF RemoveHeader, recVars, histVars
<1>10. CASE AppendNode
  <2>1. nodes' \in Seq(Node)
    <3>1. [m_node EXCEPT !.datalen = m_handle.length] \in Node
      BY <1>0 DEF Node
    <3>2. _mgrhdr.nodenum \in 1 .. Len(nodes)
      BY <1>0, <1>10 DEF AppendNode, Header, CountInv
    <3>3. WriteNode(_mgrhdr.nodenum, [m_node EXCEPT !.datalen = m_handle.length])
      BY <1>10 DEF AppendNode
    <3>4. /\ nodes \in Seq(Node) /\ _mgrhdr.nodenum \in Nat
          /\ _mgrhdr.nodenum >= 1 /\ _mgrhdr.nodenum <= Len(nodes) + 1
      BY <1>0, <3>2 DEF Header
    <3> QED
      BY <3>1, <3>3, <3>4, WriteNodeFacts
  <2> QED
    BY <1>0, <1>10, <2>1 DEF AppendNode, recVars, histVars
<1>11. CASE AppendHeader
  <2>1. _mgrhdr.current_length + m_handle.length \in Int
    BY <1>0 DEF Header
  <2>2. (_mgrhdr.current_length + m_handle.length) % Word \in Nat
    BY <2>1, ModType
  <2>3. _mgrhdr' \in Header
    BY <1>0, <1>11, <2>2 DEF AppendHeader, Header
  <2>4. m_handle' \in [file : Nat, length : Nat]
    BY <1>11 DEF AppendHeader, Null, NONE
  <2> QED
    BY <1>0, <1>11, <2>3, <2>4 DEF AppendHeader, histVars
<1>12. CASE Crash
  BY <1>0, <1>12 DEF Crash, Null, NONE
<1>13. CASE Restart
  BY <1>0, <1>13 DEF Restart, recVars, histVars
<1>14. CASE UNCHANGED vars
  BY <1>0, <1>14 DEF vars, recVars, histVars
<1> QED
  BY <1>1, <1>2, <1>3, <1>4, <1>5, <1>6, <1>7, <1>8, <1>9, <1>10, <1>11,
     <1>12, <1>13, <1>14 DEF Next

\* remove_content copies nodes and clears one: no new length comes up.
LEMMA ShiftFacts ==
  ASSUME IInv, RemoveShift
  PROVE  \/ /\ slot < Len(nodes)
            /\ slot' = slot + 1 /\ pc' = "shift"
            /\ Len(nodes') = Len(nodes)
            /\ \A j \in 1 .. Len(nodes) :
                 nodes'[j] = IF j = slot THEN nodes[j + 1] ELSE nodes[j]
         \/ /\ slot = Len(nodes)
            /\ slot' = slot /\ pc' = "rm"
            /\ nodes' = nodes
<1>1. slot \in 1 .. Len(nodes) /\ nodes \in Seq(Node)
  BY DEF IInv, CountInv, RemoveShift, Removing, TypeOK
<1>2. CASE slot < Len(nodes)
  BY <1>1, <1>2 DEF RemoveShift
<1>3. CASE slot = Len(nodes)
  BY <1>1, <1>3 DEF RemoveShift
<1> QED
  BY <1>1, <1>2, <1>3

LEMMA ClearFacts ==
  ASSUME IInv, RemoveClear
  PROVE  /\ Len(nodes') = Len(nodes) /\ Len(nodes) \in Nat \ {0}
         /\ \A j \in 1 .. Len(nodes) :
              nodes'[j] = IF j = Len(nodes) THEN ZeroNode ELSE nodes[j]
<1>1. slot \in 1 .. Len(nodes) /\ nodes \in Seq(Node)
  BY DEF IInv, CountInv, RemoveClear, Removing, TypeOK
<1> QED
  BY <1>1 DEF RemoveClear

LEMMA NewNodeFacts ==
  ASSUME IInv, NewNode
  PROVE  /\ Len(nodes') = IF _mgrhdr.nodenum + 1 > Len(nodes)
                            THEN _mgrhdr.nodenum + 1 ELSE Len(nodes)
         /\ \A j \in 1 .. Len(nodes') :
              nodes'[j] = IF j = _mgrhdr.nodenum + 1 THEN m_node ELSE nodes[j]
<1>1. /\ nodes \in Seq(Node) /\ m_node \in Node
      /\ _mgrhdr.nodenum \in Nat /\ _mgrhdr.nodenum <= Len(nodes)
  BY DEF IInv, CountInv, TypeOK, Header
<1>2. WriteNode(_mgrhdr.nodenum + 1, m_node)
  BY DEF NewNode
<1> QED
  BY <1>1, <1>2, WriteNodeFacts

LEMMA NewNodePlaces ==
  ASSUME IInv, NewNode
  PROVE  /\ nodes'[_mgrhdr.nodenum + 1] = m_node
         /\ \A j \in 1 .. Len(nodes') : j # _mgrhdr.nodenum + 1 =>
              j \in 1 .. Len(nodes) /\ nodes'[j] = nodes[j]
         /\ \A j \in 1 .. _mgrhdr.nodenum : nodes'[j] = nodes[j]
<1>1. _mgrhdr.nodenum \in Nat /\ Len(nodes) \in Nat /\ _mgrhdr.nodenum <= Len(nodes)
  BY DEF IInv, CountInv, TypeOK, Header
<1>2. Len(nodes') \in Nat /\ _mgrhdr.nodenum + 1 <= Len(nodes') /\ Len(nodes) <= Len(nodes')
  BY <1>1, NewNodeFacts
<1>3. ASSUME NEW j \in 1 .. Len(nodes'), j # _mgrhdr.nodenum + 1
      PROVE  j \in 1 .. Len(nodes) /\ nodes'[j] = nodes[j]
  BY <1>1, <1>3, NewNodeFacts
<1>4. _mgrhdr.nodenum + 1 \in 1 .. Len(nodes')
  BY <1>1, <1>2
<1>5. nodes'[_mgrhdr.nodenum + 1] = m_node
  BY <1>4, NewNodeFacts
<1>6. ASSUME NEW j \in 1 .. _mgrhdr.nodenum PROVE nodes'[j] = nodes[j]
  <2>1. j \in 1 .. Len(nodes') /\ j # _mgrhdr.nodenum + 1
    BY <1>1, <1>2
  <2> QED
    BY <1>3, <2>1
<1> QED
  BY <1>3, <1>5, <1>6

LEMMA AppendNodeFacts ==
  ASSUME IInv, AppendNode
  PROVE  /\ _mgrhdr.nodenum \in 1 .. Len(nodes)
         /\ Len(nodes') = Len(nodes)
         /\ \A j \in 1 .. Len(nodes') :
              nodes'[j] = IF j = _mgrhdr.nodenum
                            THEN [m_node EXCEPT !.datalen = m_handle.length]
                            ELSE nodes[j]
<1>1. /\ nodes \in Seq(Node) /\ [m_node EXCEPT !.datalen = m_handle.length] \in Node
      /\ _mgrhdr.nodenum \in 1 .. Len(nodes)
  <2>1. TypeOK /\ CountInv
    BY DEF IInv
  <2>2. nodes \in Seq(Node) /\ [m_node EXCEPT !.datalen = m_handle.length] \in Node
    BY <2>1 DEF TypeOK, Node
  <2>3. _mgrhdr.nodenum \in Nat /\ Len(nodes) \in Nat
    BY <2>1 DEF TypeOK, Header
  <2> QED
    BY <2>1, <2>2, <2>3 DEF CountInv, AppendNode
<1>2. WriteNode(_mgrhdr.nodenum, [m_node EXCEPT !.datalen = m_handle.length])
  BY DEF AppendNode
<1> QED
  BY <1>1, <1>2, WriteNodeFacts

LEMMA LengthStep == IInv /\ TypeOK' /\ [Next]_vars => LengthInv'
<1> SUFFICES ASSUME IInv, TypeOK', [Next]_vars PROVE LengthInv'
  OBVIOUS
<1> USE RecordsFit, SizeAssumption DEF LengthInv, Removing
<1>0. TypeOK /\ LengthInv /\ CountInv
  BY DEF IInv
<1>1. CASE NewRecord
  BY <1>0, <1>1 DEF NewRecord
<1>2. CASE NewNode
  <2>1. \A i \in 1 .. Len(nodes') : nodes'[i].datalen <= MaxRec
    <3> SUFFICES ASSUME NEW i \in 1 .. Len(nodes') PROVE nodes'[i].datalen <= MaxRec
      OBVIOUS
    <3>1. _mgrhdr.nodenum \in Nat /\ Len(nodes) \in Nat
      BY <1>0 DEF TypeOK, Header
    <3>2. CASE i = _mgrhdr.nodenum + 1
      BY <1>0, <1>2, <3>2, NewNodeFacts
    <3>3. CASE i # _mgrhdr.nodenum + 1
      BY <1>0, <1>2, <3>1, <3>3, NewNodeFacts DEF CountInv
    <3> QED
      BY <3>2, <3>3
  <2> QED
    BY <1>0, <1>2, <2>1 DEF NewNode, recVars
<1>3. CASE NewHeader
  BY <1>0, <1>3 DEF NewHeader, recVars
<1>4. CASE Write
  <2>1. PICK size \in 1 .. MaxSize :
          /\ m_handle' = [m_handle EXCEPT !.length = @ + size]
          /\ pc' = IF m_handle.length + size >= DATA_REC_UNITLEN
                     THEN "release" ELSE "idle"
    BY <1>4 DEF Write
  <2>2. m_handle.length \in Nat /\ m_handle'.length = m_handle.length + size
    BY <1>0, <2>1 DEF TypeOK
  <2>3. m_handle.length < DATA_REC_UNITLEN
    BY <1>0, <1>4 DEF Write
  <2>4. m_handle'.length <= MaxRec
    BY <2>2, <2>3 DEF MaxRec
  <2> QED
    BY <1>0, <1>4, <2>1, <2>2, <2>4 DEF Write
<1>5. CASE Release
  <2>1. nodes[1].datalen <= MaxRec
    BY <1>0, <1>5 DEF Release, CountInv, TypeOK, Header
  <2> QED
    BY <1>0, <1>5, <2>1 DEF Release
<1>6. CASE RemoveShift
  <2>1. \A i \in 1 .. Len(nodes') : nodes'[i].datalen <= MaxRec
    <3>1. Len(nodes) \in Nat /\ \A i \in 1 .. Len(nodes) : nodes[i].datalen <= MaxRec
      BY <1>0 DEF TypeOK
    <3>2. CASE nodes' = nodes
      BY <3>1, <3>2
    <3>3. CASE /\ slot < Len(nodes) /\ Len(nodes') = Len(nodes)
               /\ \A j \in 1 .. Len(nodes) :
                    nodes'[j] = IF j = slot THEN nodes[j + 1] ELSE nodes[j]
      <4>1. slot \in Nat
        BY <1>0 DEF TypeOK
      <4> SUFFICES ASSUME NEW i \in 1 .. Len(nodes)
                   PROVE  nodes'[i].datalen <= MaxRec
        BY <3>3
      <4>2. CASE i = slot
        BY <3>1, <3>3, <4>1, <4>2
      <4>3. CASE i # slot
        BY <3>1, <3>3, <4>3
      <4> QED
        BY <4>2, <4>3
    <3> QED
      BY <1>0, <1>6, <3>2, <3>3, ShiftFacts
  <2> QED
    BY <1>0, <1>6, <2>1 DEF RemoveShift
<1>7. CASE RemoveClear
  <2>1. \A i \in 1 .. Len(nodes') : nodes'[i].datalen <= MaxRec
    BY <1>0, <1>7, ClearFacts DEF ZeroNode
  <2> QED
    BY <1>0, <1>7, <2>1 DEF RemoveClear, recVars
<1>8. CASE RemoveFile
  BY <1>0, <1>8 DEF RemoveFile, recVars
<1>9. CASE RemoveHeader
  BY <1>0, <1>9 DEF RemoveHeader, recVars
<1>10. CASE AppendNode
  <2>1. \A i \in 1 .. Len(nodes') : nodes'[i].datalen <= MaxRec
    BY <1>0, <1>10, AppendNodeFacts DEF TypeOK, Node
  <2> QED
    BY <1>0, <1>10, <2>1 DEF AppendNode, recVars
<1>11. CASE AppendHeader
  BY <1>0, <1>11 DEF AppendHeader, Null
<1>12. CASE Crash
  BY <1>0, <1>12 DEF Crash, Null
<1>13. CASE Restart
  BY <1>0, <1>13 DEF Restart, recVars
<1>14. CASE UNCHANGED vars
  BY <1>0, <1>14 DEF vars, recVars
<1> QED
  BY <1>1, <1>2, <1>3, <1>4, <1>5, <1>6, <1>7, <1>8, <1>9, <1>10, <1>11,
     <1>12, <1>13, <1>14 DEF Next

LEMMA CountStep == IInv /\ TypeOK' /\ [Next]_vars => CountInv'
<1> SUFFICES ASSUME IInv, TypeOK', [Next]_vars PROVE CountInv'
  OBVIOUS
<1> USE RecordsFit, SizeAssumption
    DEF CountInv, CountsAgree, Active, Removing
<1>0. TypeOK /\ LengthInv /\ CountInv
  BY DEF IInv
<1>a. /\ _mgrhdr \in Header /\ m_handle \in [file : Nat, length : Nat]
      /\ nodes \in Seq(Node) /\ Len(nodes) \in Nat /\ slot \in Nat
      /\ m_handle' \in [file : Nat, length : Nat]
  BY <1>0 DEF TypeOK
<1>b. /\ _mgrhdr.nodenum \in Nat /\ _mgrhdr.current_length \in Nat
      /\ _mgrhdr.nodeindex_start \in Int /\ _mgrhdr.nodeindex_stop \in Int
  BY <1>a DEF Header
<1>1. CASE NewRecord
  <2>1. m_handle' # Null
    BY <1>1 DEF NewRecord, Null, NONE
  <2> QED
    BY <1>0, <1>1, <2>1 DEF NewRecord
<1>2. CASE NewNode
  BY <1>0, <1>b, <1>2, <1>a, NewNodeFacts DEF NewNode, recVars
<1>3. CASE NewHeader
  <2>1. /\ _mgrhdr'.nodenum = _mgrhdr.nodenum + 1
        /\ _mgrhdr'.current_length = _mgrhdr.current_length
        /\ _mgrhdr'.nodeindex_start =
             IF _mgrhdr.nodenum = 0 THEN 0 ELSE _mgrhdr.nodeindex_start
        /\ _mgrhdr'.nodeindex_stop =
             IF _mgrhdr.nodenum = 0 THEN 0 ELSE _mgrhdr.nodeindex_stop + 1
    BY <1>a, <1>3 DEF NewHeader, Header
  <2>2. /\ diskhdr' = _mgrhdr' /\ pc' = "write" /\ m_handle # Null
        /\ UNCHANGED <<nodes, m_handle, slot>>
    BY <1>0, <1>3 DEF NewHeader, recVars
  <2>3. pc = "new_header" /\ _mgrhdr.nodenum + 1 <= Len(nodes)
    BY <1>0, <1>3 DEF NewHeader
  <2>4. CountsAgree' /\ _mgrhdr'.nodeindex_start >= 0
    BY <1>0, <1>b, <2>1, <2>2
  <2>5. _mgrhdr'.current_length > 0 => _mgrhdr'.nodenum >= 2
    BY <1>0, <1>b, <2>1
  <2> HIDE DEF CountsAgree
  <2> QED
    BY <1>b, <2>1, <2>2, <2>3, <2>4, <2>5
<1>4. CASE Write
  <2>1. m_handle' # Null
    BY <1>0, <1>4, <1>a DEF Write, Null, NONE
  <2>2. Active /\ UNCHANGED <<_mgrhdr, diskhdr, nodes, slot>>
        /\ pc' \in {"release", "idle"} /\ pc \in {"write", "idle"}
    BY <1>0, <1>4 DEF Write
  <2> QED
    BY <1>0, <1>4, <2>1, <2>2
<1>5. CASE Release
  BY <1>0, <1>5, <1>a, <1>b DEF Release
<1>6. CASE RemoveShift
  <2>1. /\ UNCHANGED <<_mgrhdr, diskhdr, m_handle>> /\ pc = "shift"
        /\ pc' \in {"shift", "rm"} /\ Len(nodes') = Len(nodes)
    BY <1>6, ShiftFacts DEF RemoveShift
  <2>2. slot' \in 1 .. Len(nodes')
    <3>1. slot \in 1 .. Len(nodes) /\ Len(nodes) \in Nat
      BY <1>0, <1>a, <2>1
    <3>2. slot' = slot \/ (slot < Len(nodes) /\ slot' = slot + 1)
      BY <1>6, ShiftFacts, Zenon
    <3> QED
      BY <2>1, <3>1, <3>2
  <2> QED
    BY <1>0, <2>1, <2>2
<1>7. CASE RemoveClear
  BY <1>0, <1>7, ClearFacts DEF RemoveClear, recVars
<1>8. CASE RemoveFile
  BY <1>0, <1>8 DEF RemoveFile, recVars
<1>9. CASE RemoveHeader
  <2>1. /\ _mgrhdr'.nodenum = _mgrhdr.nodenum - 1
        /\ _mgrhdr'.nodeindex_start = _mgrhdr.nodeindex_start + 1
        /\ _mgrhdr'.nodeindex_stop = _mgrhdr.nodeindex_stop
    BY <1>a, <1>9 DEF RemoveHeader, Header
  <2>2. /\ diskhdr' = _mgrhdr' /\ pc' = "append_node" /\ m_handle # Null
        /\ UNCHANGED <<nodes, m_handle, slot>>
    BY <1>0, <1>9 DEF RemoveHeader, recVars
  <2>3. _mgrhdr.nodenum >= 2
    BY <1>0, <1>9, <1>b DEF RemoveHeader, LengthInv
  <2>4. CountsAgree' /\ _mgrhdr'.nodeindex_start >= 0
    <3>1. /\ _mgrhdr.nodeindex_start >= 0
          /\ _mgrhdr.nodenum = _mgrhdr.nodeindex_stop - _mgrhdr.nodeindex_start + 1
      BY <1>0, <1>b, <2>3
    <3>2. /\ _mgrhdr.nodenum \in Nat /\ _mgrhdr.nodeindex_start \in Int
          /\ _mgrhdr.nodeindex_stop \in Int
      BY <1>a DEF Header
    <3>3. /\ _mgrhdr'.nodenum = _mgrhdr'.nodeindex_stop - _mgrhdr'.nodeindex_start + 1
          /\ _mgrhdr'.nodeindex_start >= 0
      BY <2>1, <3>1, <3>2
    <3> QED
      BY <2>2, <3>3
  <2>5. _mgrhdr'.nodenum \in 1 .. Len(nodes')
    <3>1. nodes' = nodes /\ _mgrhdr.nodenum <= Len(nodes)
      BY <1>0, <2>2
    <3>2. _mgrhdr.nodenum \in Nat /\ Len(nodes) \in Nat
      BY <1>a, <1>b DEF Header
    <3> QED
      BY <2>1, <2>3, <3>1, <3>2
  <2> HIDE DEF CountsAgree
  <2> QED
    BY <2>2, <2>4, <2>5
<1>10. CASE AppendNode
  BY <1>0, <1>10, AppendNodeFacts DEF AppendNode, recVars
<1>11. CASE AppendHeader
  <2>1. /\ _mgrhdr'.nodenum = _mgrhdr.nodenum
        /\ _mgrhdr'.nodeindex_start = _mgrhdr.nodeindex_start
        /\ _mgrhdr'.nodeindex_stop = _mgrhdr.nodeindex_stop
    BY <1>a, <1>11 DEF AppendHeader, Header
  <2> QED
    BY <1>0, <1>11, <2>1 DEF AppendHeader
<1>12. CASE Crash
  BY <1>0, <1>12 DEF Crash
<1>13. CASE Restart
  BY <1>0, <1>13 DEF Restart, recVars
<1>14. CASE UNCHANGED vars
  BY <1>0, <1>14 DEF vars, recVars
<1> QED
  BY <1>1, <1>2, <1>3, <1>4, <1>5, <1>6, <1>7, <1>8, <1>9, <1>10, <1>11,
     <1>12, <1>13, <1>14 DEF Next

LEMMA IInvIsInvariant == Spec => []IInv
<1>1. Init => IInv
  BY InitIInv
<1>2. IInv /\ [Next]_vars => IInv'
  BY TypeStep, LengthStep, CountStep DEF IInv
<1> QED
  BY <1>1, <1>2, PTL DEF Spec

\* While remove_content copies, each record stays where Rec finds it ...
LEMMA RecShift ==
  ASSUME IInv, RemoveShift
  PROVE  \A i \in Records : Rec(i)' = Rec(i)
<1> USE DEF Rec, Removing, Records
<1>a. nodes \in Seq(Node) /\ Len(nodes) \in Nat /\ slot \in Nat
  BY DEF IInv, TypeOK
<1>b. _mgrhdr.nodenum \in Nat /\ _mgrhdr.nodenum <= Len(nodes)
  BY DEF IInv, TypeOK, CountInv, Header
<1>1. pc = "shift" /\ pc' \in {"shift", "rm"} /\ UNCHANGED recnode
  BY DEF RemoveShift
<1>2. slot \in 1 .. Len(nodes)
  BY <1>1 DEF IInv, CountInv
<1>3. CASE pc' = "shift"
  BY <1>a, <1>b, <1>1, <1>2, <1>3, ShiftFacts
<1>4. CASE pc' = "rm"
  BY <1>a, <1>b, <1>1, <1>2, <1>4, ShiftFacts
<1> QED
  BY <1>1, <1>3, <1>4

\* ... and when it clears the last slot, nothing of a record is there.
LEMMA RecClear ==
  ASSUME IInv, ShiftInv, RemoveClear
  PROVE  \A i \in Records : Rec(i)' = Rec(i)
<1> USE DEF Rec, Removing, Records
<1>a. nodes \in Seq(Node) /\ Len(nodes) \in Nat /\ slot \in Nat
  BY DEF IInv, TypeOK
<1>b. _mgrhdr.nodenum \in Nat /\ _mgrhdr.nodenum <= Len(nodes)
  BY DEF IInv, TypeOK, CountInv, Header
<1>1. /\ pc = "clear" /\ pc' = "remove_header" /\ slot = Len(nodes)
      /\ UNCHANGED <<recnode, slot>>
  BY DEF RemoveClear, recVars, ShiftInv
<1> QED
  BY <1>a, <1>b, <1>1, ClearFacts

\* The new header counts them one lower.
LEMMA RecHeader ==
  ASSUME IInv, ShiftInv, RemoveHeader
  PROVE  /\ _mgrhdr'.nodenum = _mgrhdr.nodenum - 1 /\ _mgrhdr.nodenum >= 2
         /\ m_handle # Null
         /\ \A i \in 1 .. _mgrhdr.nodenum - 1 :
              i + 1 \in Records /\ i + 1 > 1 /\ Rec(i)' = Rec(i + 1)
<1> USE DEF Rec, Removing, Records
<1>a. nodes \in Seq(Node) /\ Len(nodes) \in Nat /\ slot \in Nat /\ _mgrhdr \in Header
  BY DEF IInv, TypeOK
<1>b. _mgrhdr.nodenum \in Nat /\ _mgrhdr.nodenum <= Len(nodes)
  BY <1>a DEF IInv, CountInv, Header
<1>1. _mgrhdr'.nodenum = _mgrhdr.nodenum - 1
  BY <1>a DEF RemoveHeader, Header
<1>2. /\ pc = "remove_header" /\ pc' = "append_node" /\ slot = Len(nodes)
      /\ UNCHANGED nodes
  BY DEF RemoveHeader, recVars, ShiftInv
<1>3. _mgrhdr.nodenum >= 2 /\ m_handle # Null
  <2>1. _mgrhdr.current_length > Capacity /\ _mgrhdr.current_length \in Nat
    BY <1>a, <1>2 DEF IInv, LengthInv, Header
  <2>2. m_handle # Null
    BY <1>2 DEF IInv, CountInv
  <2>3. _mgrhdr.current_length > 0
    BY <2>1, SizeAssumption
  <2> QED
    BY <1>2, <2>2, <2>3 DEF IInv, CountInv, Active
<1>4. \A i \in 1 .. _mgrhdr.nodenum - 1 :
        i + 1 \in 1 .. _mgrhdr.nodenum /\ i + 1 > 1 /\ Rec(i + 1) = nodes[i]
  BY <1>a, <1>b, <1>2
<1>5. \A i \in 1 .. _mgrhdr.nodenum - 1 : Rec(i)' = Rec(i + 1)
  BY <1>2, <1>4
<1> QED
  BY <1>1, <1>3, <1>4, <1>5

LEMMA FileStep == IInv /\ TypeOK' /\ FileInv /\ [Next]_vars => FileInv'
<1> SUFFICES ASSUME IInv, TypeOK', FileInv, [Next]_vars, ~torn'
             PROVE  RecordsInv' /\ OpenInv' /\ NewInv' /\ ShiftInv'
  BY DEF FileInv
<1> USE DEF Removing, Records, Rec, Active
<1>0. TypeOK /\ LengthInv /\ CountInv
  BY DEF IInv
<1>a. /\ _mgrhdr \in Header /\ m_handle \in [file : Nat, length : Nat]
      /\ nodes \in Seq(Node) /\ Len(nodes) \in Nat /\ slot \in Nat
      /\ m_node \in Node /\ files \subseteq Nat /\ pc \in Pcs
  BY <1>0 DEF TypeOK
<1>b. /\ _mgrhdr.nodenum \in Nat /\ _mgrhdr.nodenum <= Len(nodes)
      /\ _mgrhdr.nodeindex_start \in Int /\ _mgrhdr.nodeindex_stop \in Int
      /\ _mgrhdr.nodenum > 0 =>
           _mgrhdr.nodenum = _mgrhdr.nodeindex_stop - _mgrhdr.nodeindex_start + 1
  BY <1>0, <1>a DEF Header, CountInv, CountsAgree
<1>c. ~torn
  BY <1>0 DEF Next, vars, histVars, recVars, TypeOK, NewRecord, NewNode,
     NewHeader, Write, Release, RemoveShift, RemoveClear, RemoveFile,
     RemoveHeader, AppendNode, AppendHeader, Crash, Restart
<1>d. RecordsInv /\ OpenInv /\ NewInv /\ ShiftInv
  BY <1>c DEF FileInv
<1>1. CASE NewRecord
  <2>1. PICK t \in 1 .. MaxIndex + MaxCrashes + 2 :
          /\ NextName(t)
          /\ files' = files \cup {t}
          /\ m_handle' = [file |-> t, length |-> 0]
          /\ m_node' = [index |-> IF _mgrhdr.nodenum = 0 THEN 0
                                  ELSE _mgrhdr.nodeindex_stop + 1,
                        datalen |-> 0, data_file |-> t]
    BY <1>1 DEF NewRecord
  <2>2. /\ pc = "idle" /\ pc' = "new_node"
        /\ UNCHANGED <<_mgrhdr, nodes, recnode, slot>>
        /\ t \notin files
    BY <1>1, <2>1 DEF NewRecord, NextName
  <2>3. RecordsInv'
    BY <1>d, <2>1, <2>2 DEF RecordsInv
  <2>4. NewInv'
    BY <1>d, <2>1, <2>2 DEF RecordsInv, NewInv
  <2> QED
    BY <2>2, <2>3, <2>4 DEF OpenInv, ShiftInv
<1>2. CASE NewNode
  <2>1. \A j \in 1 .. Len(nodes') :
          nodes'[j] = IF j = _mgrhdr.nodenum + 1 THEN m_node ELSE nodes[j]
    BY <1>2, NewNodeFacts
  <2>2. \A i \in 1 .. _mgrhdr.nodenum : nodes'[i] = nodes[i]
    <3>1. Len(nodes') = IF _mgrhdr.nodenum + 1 > Len(nodes)
                          THEN _mgrhdr.nodenum + 1 ELSE Len(nodes)
      BY <1>2, NewNodeFacts
    <3>2. \A i \in 1 .. _mgrhdr.nodenum :
            i \in 1 .. Len(nodes') /\ i # _mgrhdr.nodenum + 1
      BY <1>a, <1>b, <3>1
    <3> QED
      BY <2>1, <3>2
  <2>3. nodes'[_mgrhdr.nodenum + 1] = m_node
    BY <1>2, <1>b, <2>1, NewNodeFacts
  <2>4. pc = "new_node" /\ pc' = "new_header"
        /\ UNCHANGED <<_mgrhdr, files, m_handle, m_node>>
    BY <1>2 DEF NewNode, recVars
  <2>5. RecordsInv' /\ NewInv'
    BY <1>d, <2>2, <2>3, <2>4 DEF RecordsInv, NewInv
  <2> QED
    BY <2>4, <2>5 DEF OpenInv, ShiftInv
<1>3. CASE NewHeader
  <2> DEFINE n == _mgrhdr.nodenum
  <2>1. /\ _mgrhdr'.nodenum = n + 1
        /\ _mgrhdr'.nodeindex_start = IF n = 0 THEN 0 ELSE _mgrhdr.nodeindex_start
        /\ _mgrhdr'.nodeindex_stop = IF n = 0 THEN 0 ELSE _mgrhdr.nodeindex_stop + 1
    BY <1>a, <1>3 DEF NewHeader, Header
  <2>2. /\ pc = "new_header" /\ pc' = "write"
        /\ UNCHANGED <<nodes, files, m_handle, m_node>>
    BY <1>3 DEF NewHeader, recVars
  <2>3. /\ nodes[n + 1] = m_node
        /\ m_node.index = IF n = 0 THEN 0 ELSE _mgrhdr.nodeindex_stop + 1
        /\ m_node.data_file = m_handle.file /\ m_handle.file \in files
        /\ \A i \in 1 .. n : nodes[i].data_file # m_handle.file
    BY <1>d, <2>2 DEF NewInv
  <2>4. /\ \A i \in 1 .. n : nodes[i].index = _mgrhdr.nodeindex_start + i - 1
        /\ \A i \in 1 .. n : nodes[i].data_file \in files
        /\ \A i, j \in 1 .. n : nodes[i].data_file = nodes[j].data_file => i = j
    BY <1>d, <2>2 DEF RecordsInv
  <2>5. \A i \in 1 .. n + 1 : i \in 1 .. n \/ i = n + 1
    BY <1>b
  <2>6. \A i \in 1 .. n + 1 : nodes[i].index = _mgrhdr'.nodeindex_start + i - 1
    <3>1. \A i \in 1 .. n : nodes[i].index = _mgrhdr'.nodeindex_start + i - 1
      BY <1>b, <2>1, <2>4
    <3>2. nodes[n + 1].index = _mgrhdr'.nodeindex_start + (n + 1) - 1
      BY <1>b, <2>1, <2>3
    <3> QED
      BY <2>5, <3>1, <3>2
  <2>7. \A i \in 1 .. n + 1 : nodes[i].data_file \in files
    BY <2>3, <2>4, <2>5
  <2>8. \A i, j \in 1 .. n + 1 : nodes[i].data_file = nodes[j].data_file => i = j
    BY <2>3, <2>4, <2>5
  <2>9. RecordsInv'
    BY <2>1, <2>2, <2>6, <2>7, <2>8 DEF RecordsInv
  <2>10. OpenInv'
    BY <1>b, <2>1, <2>2, <2>3 DEF OpenInv
  <2> QED
    BY <2>2, <2>9, <2>10 DEF NewInv, ShiftInv
<1>4. CASE Write
  <2>1. /\ pc \in {"write", "idle"} /\ pc' \in {"release", "idle"}
        /\ m_handle'.file = m_handle.file /\ m_handle # Null
        /\ UNCHANGED <<_mgrhdr, nodes, files, m_node>>
    BY <1>0, <1>a, <1>4 DEF Write, CountInv
  <2> QED
    BY <1>d, <2>1 DEF RecordsInv, OpenInv, NewInv, ShiftInv
<1>5. CASE Release
  <2>1. CASE pc' = "shift"
    <3>1. /\ pc = "release" /\ slot' = 1 /\ recnode' = nodes[1]
          /\ UNCHANGED <<_mgrhdr, nodes, files, m_handle, m_node>>
      BY <1>5, <2>1 DEF Release
    <3>2. \A i \in 1 .. _mgrhdr.nodenum : Rec(i)' = nodes[i]
      BY <1>b, <2>1, <3>1
    <3>3. RecordsInv'
      BY <1>d, <2>1, <3>1, <3>2 DEF RecordsInv
    <3>4. OpenInv'
      <4>1. _mgrhdr.nodenum \in 1 .. _mgrhdr.nodenum
        BY <1>0, <1>b, <3>1 DEF CountInv
      <4> QED
        BY <1>d, <2>1, <3>1, <3>2, <4>1 DEF OpenInv
    <3> QED
      BY <2>1, <3>1, <3>3, <3>4 DEF NewInv, ShiftInv
  <2>2. CASE pc' = "append_node"
    BY <1>d, <1>5, <2>2 DEF Release, RecordsInv, OpenInv, NewInv, ShiftInv
  <2> QED
    BY <1>5, <2>1, <2>2 DEF Release
<1>6. CASE RemoveShift
  <2>1. /\ pc = "shift" /\ pc' \in {"shift", "rm"}
        /\ UNCHANGED <<_mgrhdr, files, m_handle, m_node, recnode>>
    BY <1>6 DEF RemoveShift
  <2>2. slot \in 1 .. Len(nodes)
    BY <1>0, <2>1 DEF CountInv
  <2>3. \A i \in 1 .. _mgrhdr.nodenum : Rec(i)' = Rec(i)
    BY <1>6, RecShift
  <2>4. ShiftInv'
    BY <1>6, <2>1, <2>2, ShiftFacts DEF ShiftInv
  <2>5. RecordsInv'
    <3> HIDE DEF Rec
    <3> QED
      BY <1>d, <2>1, <2>3 DEF RecordsInv
  <2>6. OpenInv'
    <3>1. _mgrhdr.nodenum \in 1 .. _mgrhdr.nodenum
      BY <1>0, <1>b, <2>1 DEF CountInv
    <3> HIDE DEF Rec
    <3> QED
      BY <1>d, <2>1, <2>3, <3>1 DEF OpenInv
  <2> QED
    BY <2>1, <2>4, <2>5, <2>6 DEF NewInv
<1>7. CASE RemoveClear
  <2>1. /\ pc = "clear" /\ pc' = "remove_header" /\ slot = Len(nodes)
        /\ UNCHANGED <<_mgrhdr, files, m_handle, m_node, recnode, slot>>
    BY <1>7, <1>d DEF RemoveClear, recVars, ShiftInv
  <2>2. \A i \in 1 .. _mgrhdr.nodenum : Rec(i)' = Rec(i)
    BY <1>d, <1>7, RecClear
  <2>3. Len(nodes') = Len(nodes)
    BY <1>7, ClearFacts
  <2>4. RecordsInv'
    <3> HIDE DEF Rec
    <3> QED
      BY <1>d, <2>1, <2>2 DEF RecordsInv
  <2>5. OpenInv'
    <3>1. _mgrhdr.nodenum \in 1 .. _mgrhdr.nodenum
      BY <1>0, <1>b, <2>1 DEF CountInv
    <3> HIDE DEF Rec
    <3> QED
      BY <1>d, <2>1, <2>2, <3>1 DEF OpenInv
  <2> QED
    BY <2>1, <2>3, <2>4, <2>5 DEF NewInv, ShiftInv
<1>8. CASE RemoveFile
  <2>1. /\ pc = "rm" /\ pc' = "clear"
        /\ files \ {recnode.data_file} \subseteq files'
        /\ UNCHANGED <<_mgrhdr, nodes, m_handle, m_node, recnode, slot>>
    BY <1>8 DEF RemoveFile, recVars
  <2>2. \A i \in 1 .. _mgrhdr.nodenum : Rec(i)' = Rec(i)
    BY <2>1
  <2>3. \A i \in 1 .. _mgrhdr.nodenum :
          i > 1 => Rec(i).data_file \in files \ {recnode.data_file}
    <3>1. Rec(1) = recnode
      BY <2>1
    <3>2. ASSUME NEW i \in 1 .. _mgrhdr.nodenum, i > 1
          PROVE  Rec(i).data_file # Rec(1).data_file
      <4>1. 1 \in 1 .. _mgrhdr.nodenum /\ i # 1
        BY <1>b, <3>2
      <4> HIDE DEF Rec
      <4> QED
        BY <1>d, <4>1 DEF RecordsInv
    <3> HIDE DEF Rec
    <3> QED
      BY <1>d, <2>1, <3>1, <3>2 DEF RecordsInv
  <2>4. RecordsInv'
    <3> HIDE DEF Rec
    <3> QED
      BY <1>d, <2>1, <2>2, <2>3 DEF RecordsInv
  <2>5. OpenInv'
    BY <1>d, <2>1 DEF OpenInv
  <2> QED
    BY <1>d, <2>1, <2>4, <2>5 DEF NewInv, ShiftInv
<1>9. CASE RemoveHeader
  <2> DEFINE n == _mgrhdr.nodenum
  <2>1. /\ _mgrhdr'.nodenum = n - 1
        /\ _mgrhdr'.nodeindex_start = _mgrhdr.nodeindex_start + 1
        /\ _mgrhdr'.nodeindex_stop = _mgrhdr.nodeindex_stop
    BY <1>a, <1>9 DEF RemoveHeader, Header
  <2>2. /\ pc = "remove_header" /\ pc' = "append_node" /\ slot = Len(nodes)
        /\ UNCHANGED <<nodes, files, m_handle, m_node>>
    BY <1>9, <1>d DEF RemoveHeader, recVars, ShiftInv
  <2>3. n >= 2 /\ m_handle # Null
    BY <1>9, <1>d, RecHeader
  <2>4. \A i \in 1 .. n - 1 : i + 1 \in 1 .. n /\ i + 1 > 1
    BY <1>9, <1>d, RecHeader
  <2>5. \A i \in 1 .. n - 1 : Rec(i)' = Rec(i + 1)
    BY <1>9, <1>d, RecHeader
  <2>6. n - 1 \in 1 .. n - 1 /\ n - 1 + 1 = n
    BY <1>b, <2>3
  <2>7. RecordsInv'
    <3> HIDE DEF Rec
    <3>1. \A i \in 1 .. n - 1 : Rec(i)'.index = _mgrhdr'.nodeindex_start + i - 1
      <4>1. \A i \in 1 .. n : Rec(i).index = _mgrhdr.nodeindex_start + i - 1
        BY <1>d DEF RecordsInv
      <4> QED
        BY <1>b, <2>1, <2>4, <2>5, <4>1
    <3>2. \A i \in 1 .. n - 1 : Rec(i)'.data_file \in files
      BY <1>d, <2>2, <2>4, <2>5 DEF RecordsInv
    <3>3. \A i, j \in 1 .. n - 1 : Rec(i)'.data_file = Rec(j)'.data_file => i = j
      <4> SUFFICES ASSUME NEW i \in 1 .. n - 1, NEW j \in 1 .. n - 1,
                          Rec(i)'.data_file = Rec(j)'.data_file
                   PROVE  i = j
        OBVIOUS
      <4>1. i + 1 = j + 1
        BY <1>d, <2>4, <2>5 DEF RecordsInv
      <4> QED
        BY <1>b, <4>1
    <3> QED
      BY <2>1, <2>2, <3>1, <3>2, <3>3 DEF RecordsInv
  <2>8. OpenInv'
    <3> HIDE DEF Rec
    <3> QED
      BY <1>d, <2>1, <2>2, <2>3, <2>5, <2>6 DEF OpenInv
  <2> QED
    BY <2>2, <2>7, <2>8 DEF NewInv, ShiftInv
<1>10. CASE AppendNode
  <2>1. /\ pc = "append_node" /\ pc' = "append_header" /\ m_handle # Null
        /\ UNCHANGED <<_mgrhdr, files, m_handle, m_node>>
    BY <1>0, <1>10 DEF AppendNode, recVars, CountInv
  <2>2. _mgrhdr.nodenum \in 1 .. Len(nodes) /\ Len(nodes') = Len(nodes)
    BY <1>10, AppendNodeFacts
  <2>3. \A i \in 1 .. _mgrhdr.nodenum :
          /\ nodes'[i].index = nodes[i].index
          /\ nodes'[i].data_file = nodes[i].data_file
    <3> SUFFICES ASSUME NEW i \in 1 .. _mgrhdr.nodenum
                 PROVE  /\ nodes'[i].index = nodes[i].index
                        /\ nodes'[i].data_file = nodes[i].data_file
      OBVIOUS
    <3>1. nodes'[i] = IF i = _mgrhdr.nodenum
                        THEN [m_node EXCEPT !.datalen = m_handle.length]
                        ELSE nodes[i]
      BY <1>10, <1>b, <2>2, AppendNodeFacts
    <3>2. CASE i = _mgrhdr.nodenum
      <4>1. nodes'[i].index = m_node.index /\ nodes'[i].data_file = m_node.data_file
        BY <1>a, <3>1, <3>2 DEF Node
      <4>2. m_node.index = nodes[i].index
        BY <1>b, <1>d, <2>1, <2>2, <3>2 DEF OpenInv, RecordsInv
      <4>3. m_node.data_file = nodes[i].data_file
        BY <1>d, <2>1, <3>2 DEF OpenInv
      <4> QED
        BY <4>1, <4>2, <4>3
    <3>3. CASE i # _mgrhdr.nodenum
      BY <3>1, <3>3
    <3> QED
      BY <3>2, <3>3
  <2>4. RecordsInv'
    BY <1>d, <2>1, <2>3 DEF RecordsInv
  <2>5. OpenInv'
    <3>1. _mgrhdr.nodenum \in 1 .. _mgrhdr.nodenum
      BY <1>b, <2>2
    <3> QED
      BY <1>d, <2>1, <2>3, <3>1 DEF OpenInv
  <2> QED
    BY <2>1, <2>4, <2>5 DEF NewInv, ShiftInv
<1>11. CASE AppendHeader
  <2>1. /\ _mgrhdr'.nodenum = _mgrhdr.nodenum
        /\ _mgrhdr'.nodeindex_start = _mgrhdr.nodeindex_start
    BY <1>a, <1>11 DEF AppendHeader, Header
  <2>2. /\ pc = "append_header" /\ pc' = "idle" /\ m_handle' = Null
        /\ UNCHANGED <<nodes, files>>
    BY <1>11 DEF AppendHeader
  <2> QED
    BY <1>d, <2>1, <2>2 DEF RecordsInv, OpenInv, NewInv, ShiftInv
<1>12. CASE Crash
  <2>1. /\ pc' = "down" /\ m_handle' = Null
        /\ UNCHANGED <<_mgrhdr, nodes, files>>
        /\ pc \in Removing => pc = "shift" /\ slot <= 1
    <3>1. ~ (torn \/ pc \in {"clear", "rm", "remove_header"}
                  \/ (pc = "shift" /\ slot > 1))
      BY <1>12, Zenon DEF Crash
    <3>2. /\ pc' = "down" /\ m_handle' = Null
          /\ UNCHANGED <<_mgrhdr, nodes, files>>
      BY <1>12 DEF Crash
    <3> QED
      BY <1>a, <3>1, <3>2
  <2>2. \A i \in 1 .. _mgrhdr.nodenum : Rec(i) = nodes[i]
    BY <1>0, <1>a, <1>b, <1>d, <2>1 DEF ShiftInv, CountInv
  <2> QED
    BY <1>d, <2>1, <2>2 DEF RecordsInv, OpenInv, NewInv, ShiftInv
<1>13. CASE Restart
  <2>1. /\ _mgrhdr' = _mgrhdr /\ pc = "down" /\ pc' = "idle"
        /\ UNCHANGED <<nodes, files, m_handle, m_node>>
    BY <1>0, <1>13 DEF Restart, recVars, CountInv
  <2> QED
    BY <1>d, <2>1 DEF RecordsInv, OpenInv, NewInv, ShiftInv
<1>14. CASE UNCHANGED vars
  BY <1>d, <1>14 DEF vars, recVars, RecordsInv, OpenInv, NewInv, ShiftInv
<1> QED
  BY <1>1, <1>2, <1>3, <1>4, <1>5, <1>6, <1>7, <1>8, <1>9, <1>10, <1>11,
     <1>12, <1>13, <1>14 DEF Next

LEMMA FileInvIsInvariant == Spec => []FileInv
<1>1. Init => FileInv
  BY DEF Init, FileInv, RecordsInv, OpenInv, NewInv, ShiftInv, Records, Active, Null
<1>2. IInv /\ IInv' /\ FileInv /\ [Next]_vars => FileInv'
  BY FileStep DEF IInv
<1> QED
  BY <1>1, <1>2, IInvIsInvariant, PTL DEF Spec

\* Every variable keeps its type.
THEOREM TypeCorrect == Spec => []TypeOK
<1>1. IInv => TypeOK
  BY DEF IInv
<1> QED
  BY <1>1, IInvIsInvariant, PTL

\* remove_first never makes the unsigned current_length wrap around,
\* whatever was lost or counted twice when the process died.
THEOREM LengthNeverWraps == Spec => []NoWrap
<1>1. IInv => NoWrap
  <2> SUFFICES ASSUME IInv, pc \in Removing
               PROVE  recnode.datalen <= _mgrhdr.current_length
    BY DEF NoWrap
  <2>1. recnode.datalen <= MaxRec /\ _mgrhdr.current_length > Capacity
    BY DEF IInv, LengthInv
  <2>2. recnode.datalen \in Nat /\ _mgrhdr.current_length \in Nat
    BY DEF IInv, TypeOK, Node, Header
  <2> QED
    BY <2>1, <2>2, RecordsFit, SizeAssumption
<1> QED
  BY <1>1, IInvIsInvariant, PTL

LEMMA ClosedByInv == IInv /\ FileInv => OldestIsClosed
<1> SUFFICES ASSUME IInv, FileInv, pc \in Removing
             PROVE  /\ _mgrhdr.nodenum >= 2
                    /\ torn \/ recnode.data_file # m_handle.file
  BY DEF OldestIsClosed
<1>1. /\ _mgrhdr.nodenum \in Nat /\ _mgrhdr.current_length > Capacity
      /\ _mgrhdr.current_length \in Nat /\ CountInv
  BY DEF IInv, TypeOK, LengthInv, Header
<1>2. Active /\ _mgrhdr.nodenum >= 2
  BY <1>1, SizeAssumption DEF CountInv, Active, Removing
<1>3. ASSUME ~torn PROVE recnode.data_file # m_handle.file
  <2>1. Rec(1) = recnode /\ Rec(_mgrhdr.nodenum).data_file = m_handle.file
    BY <1>2, <1>3 DEF FileInv, OpenInv, Rec
  <2>2. 1 \in Records /\ _mgrhdr.nodenum \in Records /\ 1 # _mgrhdr.nodenum
    BY <1>1, <1>2 DEF Records
  <2> QED
    BY <1>3, <2>1, <2>2 DEF FileInv, RecordsInv
<1> QED
  BY <1>2, <1>3

\* remove_first never removes the record that is being written, nor, as
\* long as no removal was cut short, the file of it.
THEOREM OldestIsAlwaysClosed == Spec => []OldestIsClosed
  BY ClosedByInv, IInvIsInvariant, FileInvIsInvariant, PTL

\* nodenum and the two node indexes agree, on disk too; and the nodes the
\* header counts are its records, in order and each with a file of its own,
\* whatever was lost, unless a removal was cut short.
THEOREM IndexStaysIntact == Spec => []IndexIntact
<1>1. IInv /\ FileInv => IndexIntact
  <2>1. IInv => CountsAgree
    BY DEF IInv, CountInv
  <2>2. ASSUME IInv, FileInv, ~torn, pc \notin Removing \cup {"down"}
        PROVE  _mgrhdr.nodenum <= Len(nodes) /\ RecordsInv
    BY <2>2 DEF IInv, CountInv, FileInv
  <2> QED
    BY <2>1, <2>2 DEF IndexIntact, RecordsInv, Rec, Removing
<1> QED
  BY <1>1, IInvIsInvariant, FileInvIsInvariant, PTL
-----------------------------------------------------------------------------
(* Sums.  SumFunction adds the values in an order of its own choosing; what *)
(* follows says that the order does not matter, and how a sum changes with  *)
(* one of its values.                                                       *)

LEMMA LeastNatural ==
  ASSUME NEW S, S \subseteq Nat, S # {}
  PROVE  \E m \in S : \A l \in S : m <= l
<1> DEFINE R == OpToRel(<, Nat)
<1>1. IsWellFoundedOn(R, Nat)
  BY NatLessThanWellFounded
<1>2. \A l, k \in Nat : <<l, k>> \in R <=> l < k
  BY DEF OpToRel
<1> HIDE DEF R
<1>3. PICK m \in S : \A l \in S : ~ (<<l, m>> \in R)
  BY <1>1, WFMin
<1>4. \A l \in S : ~ (l < m)
  BY <1>2, <1>3, Zenon
<1>5. \A l \in S : l \in Nat
  OBVIOUS
<1> QED
  BY <1>4, <1>5

\* Of the finite sets of a collection that have a property, one is smallest.
LEMMA SmallestSet ==
  ASSUME NEW B, B # {}, \A s \in B : IsFiniteSet(s)
  PROVE  \E s \in B : \A t \in B : Cardinality(s) <= Cardinality(t)
<1> DEFINE C == {Cardinality(s) : s \in B}
<1>1. C \subseteq Nat /\ C # {}
  BY FS_CardinalityType
<1>2. PICK m \in C : \A l \in C : m <= l
  BY <1>1, LeastNatural
<1> QED
  BY <1>2

\* g gives the sum of f over each subset of S.
SumsOf(g, f, S) ==
  /\ g \in [SUBSET S -> Int]
  /\ g[{}] = 0
  /\ \A s \in SUBSET S : \A x \in s : g[s] = f[x] + g[s \ {x}]

\* What SumFunction computes, with the element it takes first.
First(s) == CHOOSE x \in s : TRUE
Iterates(g, f, S) ==
  g = [s \in SUBSET S |-> IF s = {} THEN 0 ELSE f[First(s)] + g[s \ {First(s)}]]

LEMMA SmallerSet ==
  ASSUME NEW s, IsFiniteSet(s), NEW x \in s
  PROVE  /\ IsFiniteSet(s \ {x})
         /\ Cardinality(s \ {x}) = Cardinality(s) - 1
         /\ Cardinality(s) \in Nat
  BY FS_RemoveElement, FS_CardinalityType

LEMMA FirstIsIn == ASSUME NEW s, s # {} PROVE First(s) \in s
  BY DEF First

\* The recursion has a solution: one on the subsets of at most n elements,
\* for every n.
LEMMA IterExists ==
  ASSUME NEW S, IsFiniteSet(S), NEW f \in [S -> Int]
  PROVE  \E g \in [SUBSET S -> Int] : Iterates(g, f, S)
<1> DEFINE Small(n) == {s \in SUBSET S : Cardinality(s) <= n}
           Solves(g, n) ==
             \A s \in Small(n) :
               g[s] = IF s = {} THEN 0 ELSE f[First(s)] + g[s \ {First(s)}]
           Solvable(n) == \E g \in [SUBSET S -> Int] : Solves(g, n)
           Bad == {n \in Nat : ~ Solvable(n)}
<1>1. \A s \in SUBSET S : IsFiniteSet(s) /\ Cardinality(s) \in Nat
  BY FS_Subset, FS_CardinalityType
<1>2. Solvable(0)
  <2> DEFINE g == [s \in SUBSET S |-> 0]
  <2>1. g \in [SUBSET S -> Int]
    OBVIOUS
  <2>2. \A s \in Small(0) : s = {}
    BY <1>1, FS_EmptySet
  <2>3. \A s \in SUBSET S : g[s] = 0
    OBVIOUS
  <2> HIDE DEF g
  <2>4. Solves(g, 0)
    BY <2>2, <2>3
  <2> HIDE DEF Solves
  <2> QED
    BY <2>1, <2>4
<1>3. ASSUME NEW n \in Nat, Solvable(n) PROVE Solvable(n + 1)
  <2>1. PICK g \in [SUBSET S -> Int] : Solves(g, n)
    BY <1>3
  <2> DEFINE h == [s \in SUBSET S |->
                     IF s = {} THEN 0 ELSE f[First(s)] + g[s \ {First(s)}]]
  <2>2. h \in [SUBSET S -> Int]
    <3> SUFFICES ASSUME NEW s \in SUBSET S, s # {}
                 PROVE  f[First(s)] + g[s \ {First(s)}] \in Int
      OBVIOUS
    <3>1. First(s) \in S /\ s \ {First(s)} \in SUBSET S
      BY FirstIsIn
    <3> QED
      BY <3>1
  <2>3. \A s \in SUBSET S :
          h[s] = IF s = {} THEN 0 ELSE f[First(s)] + g[s \ {First(s)}]
    OBVIOUS
  <2>4. \A s \in Small(n) : h[s] = g[s]
    BY <2>1, <2>3
  <2> HIDE DEF h
  <2>5. ASSUME NEW s \in Small(n + 1)
        PROVE  h[s] = IF s = {} THEN 0 ELSE f[First(s)] + h[s \ {First(s)}]
    <3>1. CASE s = {}
      BY <2>3, <3>1
    <3>2. CASE s # {}
      <4>1. First(s) \in s
        BY <3>2, FirstIsIn
      <4>2. Cardinality(s \ {First(s)}) <= n
        BY <1>1, <4>1, SmallerSet
      <4>3. s \ {First(s)} \in Small(n)
        BY <4>2
      <4> QED
        BY <2>3, <2>4, <3>2, <4>3
    <3> QED
      BY <3>1, <3>2
  <2> QED
    BY <2>2, <2>5
<1> HIDE DEF Solvable
<1>4. Bad = {}
  <2> SUFFICES ASSUME Bad # {} PROVE FALSE
    OBVIOUS
  <2>1. PICK m \in Bad : \A l \in Bad : m <= l
    BY LeastNatural
  <2>2. m \in Nat /\ m # 0 /\ ~ Solvable(m)
    BY <1>2
  <2>3. m - 1 \in Nat /\ Solvable(m - 1) /\ (m - 1) + 1 = m
    BY <2>1, <2>2
  <2> QED
    BY <1>3, <2>2, <2>3
<1>5. Solvable(Cardinality(S))
  BY <1>1, <1>4
<1>6. PICK g \in [SUBSET S -> Int] : Solves(g, Cardinality(S))
  BY <1>5 DEF Solvable
<1>7. \A s \in SUBSET S : s \in Small(Cardinality(S))
  BY FS_Subset
<1>8. \A s \in SUBSET S :
        g[s] = IF s = {} THEN 0 ELSE f[First(s)] + g[s \ {First(s)}]
  BY <1>6, <1>7
<1> QED
  BY <1>8 DEF Iterates

\* The sum does not depend on the order.
LEMMA SumLaw ==
  ASSUME NEW S, IsFiniteSet(S), NEW f \in [S -> Int]
  PROVE  \E g : SumsOf(g, f, S) /\ SumFunction(f) = g[S]
<1> DEFINE Law(g, s) == \A x \in s : g[s] = f[x] + g[s \ {x}]
<1>1. \A s \in SUBSET S : IsFiniteSet(s) /\ Cardinality(s) \in Nat
  BY FS_Subset, FS_CardinalityType
<1>2. DOMAIN f = S
  OBVIOUS
<1>3. SumFunction(f) = (CHOOSE g : Iterates(g, f, S))[S]
  BY <1>2 DEF Iterates, SumFunction, SumFunctionOnSet, FoldFunctionOnSet, MapThenFoldSet, First
<1>4. \E g : Iterates(g, f, S)
  BY IterExists
<1> DEFINE g == CHOOSE g : Iterates(g, f, S)
<1>5. Iterates(g, f, S)
  BY <1>4
<1> HIDE DEF g
<1>6. \A s \in SUBSET S :
        g[s] = IF s = {} THEN 0 ELSE f[First(s)] + g[s \ {First(s)}]
  BY <1>5 DEF Iterates
<1>7. \A s \in SUBSET S : s # {} => First(s) \in s /\ First(s) \in S
  BY FirstIsIn
<1>8. \A s \in SUBSET S : g[s] \in Int
  <2> DEFINE Bad == {s \in SUBSET S : g[s] \notin Int}
  <2> SUFFICES ASSUME Bad # {} PROVE FALSE
    OBVIOUS
  <2>1. PICK s \in Bad : \A t \in Bad : Cardinality(s) <= Cardinality(t)
    BY <1>1, SmallestSet
  <2>a. g[{}] = 0
    BY <1>6
  <2>6. s \in SUBSET S /\ g[s] \notin Int
    BY <2>1
  <2>2. s # {}
    BY <2>6, <2>a
  <2>3. Cardinality(s \ {First(s)}) < Cardinality(s)
    BY <1>1, <1>7, <2>2, SmallerSet
  <2>4. s \ {First(s)} \notin Bad
    BY <1>1, <2>1, <2>3
  <2>5. g[s \ {First(s)}] \in Int /\ f[First(s)] \in Int
    BY <1>7, <2>2, <2>4
  <2>7. g[s] = f[First(s)] + g[s \ {First(s)}]
    BY <1>6, <2>2, <2>6, Zenon
  <2> QED
    BY <2>5, <2>6, <2>7
<1>9. \A s \in SUBSET S : Law(g, s)
  <2> DEFINE Bad == {s \in SUBSET S : ~ Law(g, s)}
  <2> SUFFICES ASSUME Bad # {} PROVE FALSE
    BY Zenon
  <2>1. PICK s \in Bad : \A t \in Bad : Cardinality(s) <= Cardinality(t)
    BY <1>1, SmallestSet
  <2>2. PICK x \in s : g[s] # f[x] + g[s \ {x}]
    OBVIOUS
  <2> DEFINE y == First(s)
  <2>3. y \in s /\ g[s] = f[y] + g[s \ {y}] /\ s \in SUBSET S
    BY <1>6, <1>7, <2>2
  <2> HIDE DEF y
  <2>4. x # y
    BY <2>2, <2>3
  <2>5. \A z \in s : s \ {z} \in SUBSET S /\ Law(g, s \ {z})
    <3> SUFFICES ASSUME NEW z \in s PROVE s \ {z} \in SUBSET S /\ Law(g, s \ {z})
      OBVIOUS
    <3>1. Cardinality(s \ {z}) < Cardinality(s)
      BY <1>1, <2>3, SmallerSet
    <3>2. s \ {z} \in SUBSET S
      BY <2>3
    <3>3. s \ {z} \notin Bad
      BY <1>1, <2>1, <2>3, <3>1, <3>2
    <3> QED
      BY <3>2, <3>3
  <2>6. g[s \ {y}] = f[x] + g[(s \ {y}) \ {x}]
    BY <2>2, <2>3, <2>4, <2>5
  <2>7. g[s \ {x}] = f[y] + g[(s \ {x}) \ {y}]
    BY <2>2, <2>3, <2>4, <2>5
  <2>8. (s \ {y}) \ {x} = (s \ {x}) \ {y} /\ (s \ {x}) \ {y} \in SUBSET S
    BY <2>3
  <2>9. f[x] \in Int /\ f[y] \in Int /\ g[(s \ {x}) \ {y}] \in Int
    BY <1>8, <2>3, <2>8
  <2>10. g[s] = f[y] + (f[x] + g[(s \ {x}) \ {y}])
    BY <2>3, <2>6, <2>8, Zenon
  <2>11. g[s] # f[x] + (f[y] + g[(s \ {x}) \ {y}])
    BY <2>2, <2>7, Zenon
  <2> HIDE DEF Bad
  <2> QED
    BY <2>9, <2>10, <2>11
<1>10. g \in [SUBSET S -> Int]
  BY <1>5, <1>8 DEF Iterates
<1>11. g[{}] = 0
  BY <1>6
<1> QED
  BY <1>3, <1>9, <1>10, <1>11 DEF SumsOf, g

\* Two functions that agree on a set have the same sum over it.
LEMMA SumsAgree ==
  ASSUME NEW S, NEW f, NEW g, SumsOf(g, f, S),
         NEW T, NEW h, NEW k, SumsOf(k, h, T),
         NEW A, A \subseteq S, A \subseteq T, IsFiniteSet(A),
         \A x \in A : f[x] = h[x]
  PROVE  g[A] = k[A]
<1> DEFINE Bad == {s \in SUBSET A : g[s] # k[s]}
<1>1. \A s \in SUBSET A : IsFiniteSet(s) /\ Cardinality(s) \in Nat
  BY FS_Subset, FS_CardinalityType
<1> SUFFICES ASSUME Bad # {} PROVE FALSE
  OBVIOUS
<1>2. PICK s \in Bad : \A t \in Bad : Cardinality(s) <= Cardinality(t)
  BY <1>1, SmallestSet
<1>3. PICK x \in s : TRUE
  BY <1>2 DEF SumsOf
<1>4. Cardinality(s \ {x}) < Cardinality(s)
  BY <1>1, <1>2, SmallerSet
<1>5. s \ {x} \in SUBSET A /\ s \ {x} \notin Bad
  BY <1>1, <1>2, <1>4
<1>6. g[s \ {x}] = k[s \ {x}] /\ f[x] = h[x]
  BY <1>2, <1>5
<1>7. g[s] = f[x] + g[s \ {x}] /\ k[s] = h[x] + k[s \ {x}]
  BY <1>2 DEF SumsOf
<1> QED
  BY <1>2, <1>6, <1>7

\* One value of a sum changes.
LEMMA SumChanges ==
  ASSUME NEW S, IsFiniteSet(S), NEW f \in [S -> Int], NEW h \in [S -> Int],
         NEW a \in S, \A x \in S \ {a} : h[x] = f[x]
  PROVE  SumFunction(h) = SumFunction(f) - f[a] + h[a]
<1>1. PICK g : SumsOf(g, f, S) /\ SumFunction(f) = g[S]
  BY SumLaw
<1>2. PICK k : SumsOf(k, h, S) /\ SumFunction(h) = k[S]
  BY SumLaw
<1>3. IsFiniteSet(S \ {a})
  BY FS_RemoveElement
<1>4. g[S \ {a}] = k[S \ {a}]
  BY <1>1, <1>2, <1>3, SumsAgree
<1>5. g[S] = f[a] + g[S \ {a}] /\ k[S] = h[a] + k[S \ {a}]
  BY <1>1, <1>2 DEF SumsOf
<1>6. g[S \ {a}] \in Int /\ f[a] \in Int /\ h[a] \in Int
  BY <1>1 DEF SumsOf
<1> QED
  BY <1>1, <1>2, <1>4, <1>5, <1>6

\* One value more.
LEMMA SumGrows ==
  ASSUME NEW n \in Nat, NEW f \in [1 .. n -> Int], NEW h \in [1 .. n + 1 -> Int],
         \A x \in 1 .. n : h[x] = f[x]
  PROVE  SumFunction(h) = SumFunction(f) + h[n + 1]
<1>1. IsFiniteSet(1 .. n) /\ IsFiniteSet(1 .. n + 1)
  BY FS_Interval
<1>2. PICK g : SumsOf(g, f, 1 .. n) /\ SumFunction(f) = g[1 .. n]
  BY <1>1, SumLaw
<1>3. PICK k : SumsOf(k, h, 1 .. n + 1) /\ SumFunction(h) = k[1 .. n + 1]
  BY <1>1, SumLaw
<1>4. 1 .. n \subseteq 1 .. n + 1
  OBVIOUS
<1>5. g[1 .. n] = k[1 .. n]
  BY <1>1, <1>2, <1>3, <1>4, SumsAgree
<1>6. n + 1 \in 1 .. n + 1 /\ (1 .. n + 1) \ {n + 1} = 1 .. n
  OBVIOUS
<1> DEFINE T == 1 .. n + 1
           T0 == 1 .. n
<1>a. /\ SumsOf(k, h, T) /\ T0 \subseteq T
      /\ n + 1 \in T /\ T \ {n + 1} = T0 /\ h \in [T -> Int]
  BY <1>3, <1>4, <1>6
<1> HIDE DEF T, T0
<1>b. k[T] = h[n + 1] + k[T0] /\ k[T0] \in Int /\ h[n + 1] \in Int
  BY <1>a DEF SumsOf
<1>7. k[1 .. n + 1] = h[n + 1] + k[1 .. n] /\ k[1 .. n] \in Int /\ h[n + 1] \in Int
  BY <1>b DEF T, T0
<1> QED
  BY <1>2, <1>3, <1>5, <1>7

\* A sum of values between 0 and m.
LEMMA SumBounds ==
  ASSUME NEW n \in Nat, NEW m \in Nat, NEW f \in [1 .. n -> 0 .. m]
  PROVE  SumFunction(f) \in 0 .. n * m
<1> DEFINE P(i) == \A h \in [1 .. i -> 0 .. m] : SumFunction(h) \in 0 .. i * m
           Bad == {i \in Nat : ~ P(i)}
<1>1. \A i \in Nat : IsFiniteSet(1 .. i)
  BY FS_Interval
<1>2. P(0)
  <2>0. 0 * m = 0 /\ 0 \in 0 .. 0
    OBVIOUS
  <2> SUFFICES ASSUME NEW h \in [1 .. 0 -> 0 .. m] PROVE SumFunction(h) = 0
    BY <2>0, Zenon
  <2>1. IsFiniteSet(1 .. 0) /\ h \in [1 .. 0 -> Int] /\ 1 .. 0 = {}
    BY <1>1
  <2>2. PICK g : SumsOf(g, h, 1 .. 0) /\ SumFunction(h) = g[1 .. 0]
    BY <2>1, SumLaw
  <2> QED
    BY <2>1, <2>2 DEF SumsOf
<1>3. ASSUME NEW i \in Nat, P(i) PROVE P(i + 1)
  <2> SUFFICES ASSUME NEW h \in [1 .. i + 1 -> 0 .. m]
               PROVE  SumFunction(h) \in 0 .. (i + 1) * m
    OBVIOUS
  <2> DEFINE f1 == [x \in 1 .. i |-> h[x]]
  <2>1. f1 \in [1 .. i -> 0 .. m] /\ \A x \in 1 .. i : h[x] = f1[x]
    OBVIOUS
  <2>2. h \in [1 .. i + 1 -> Int] /\ f1 \in [1 .. i -> Int]
    BY <2>1
  <2> HIDE DEF f1
  <2>3. SumFunction(h) = SumFunction(f1) + h[i + 1]
    BY <2>1, <2>2, SumGrows
  <2>4. SumFunction(f1) \in 0 .. i * m
    BY <1>3, <2>1
  <2>5. h[i + 1] \in 0 .. m
    BY <2>1
  <2>6. (i + 1) * m = i * m + m /\ i * m \in Int
    OBVIOUS
  <2> QED
    BY <2>3, <2>4, <2>5, <2>6
<1> HIDE DEF P
<1>4. Bad = {}
  <2> SUFFICES ASSUME Bad # {} PROVE FALSE
    OBVIOUS
  <2>1. PICK j \in Bad : \A l \in Bad : j <= l
    BY LeastNatural
  <2>2. j \in Nat /\ j # 0 /\ ~ P(j)
    BY <1>2
  <2>3. j - 1 \in Nat /\ P(j - 1) /\ (j - 1) + 1 = j
    BY <2>1, <2>2
  <2> QED
    BY <1>3, <2>2, <2>3
<1> QED
  BY <1>4 DEF P
-----------------------------------------------------------------------------
(* The sum of the lengths, and how many records there are.                 *)

\* What a length d is longer than u.
Excess(u, d) == IF d > u THEN d - u ELSE 0

\* The first n nodes of s, weighed like that: with u = 0, their length.
Weight(u, s, n) == SumFunction([i \in 1 .. n |-> Excess(u, s[i].datalen)])

\* The weight of the records the header counts.  While remove_content runs,
\* the node at slot is there twice, and the first record is in recnode.
Held(u) ==
  IF pc \in Removing
    THEN Weight(u, nodes, _mgrhdr.nodenum)
           - Excess(u, nodes[slot].datalen) + Excess(u, recnode.datalen)
    ELSE Weight(u, nodes, _mgrhdr.nodenum)

\* Where the nodes are, whatever was cut short: those the header does not
\* count and that of the open record say 0.
PlaceInv ==
  /\ pc = "shift" /\ slot = 1 => recnode = nodes[1]
  /\ pc \in {"rm", "clear", "remove_header"} => slot = Len(nodes)
  /\ pc = "new_header" => nodes[_mgrhdr.nodenum + 1] = m_node
  /\ \A i \in 1 .. Len(nodes) : i > _mgrhdr.nodenum => nodes[i].datalen = 0
  /\ Active /\ pc # "append_header" => nodes[_mgrhdr.nodenum].datalen = 0
  /\ pc = "append_header" => nodes[_mgrhdr.nodenum].datalen = m_handle.length
  /\ pc \in Removing /\ slot >= _mgrhdr.nodenum =>
       nodes[_mgrhdr.nodenum - 1].datalen = 0
  /\ pc \in {"release", "append_node", "append_header"} \cup Removing =>
       m_handle.length >= DATA_REC_UNITLEN

\* The length of a record whose node is written, but not the header.
Pending == IF pc = "append_header" THEN m_handle.length ELSE 0

\* A death leaves current_length wrong by a record at most.
AccountInv ==
  Held(0) - (_mgrhdr.current_length + Pending)
    \in -(crashes * MaxRec) .. crashes * MaxRec

\* The records are paid for by current_length, each with DATA_REC_UNITLEN and
\* what it is longer; the open one not yet, and two for each death.
DebtInv ==
  DATA_REC_UNITLEN * _mgrhdr.nodenum + Held(DATA_REC_UNITLEN)
    <= _mgrhdr.current_length + Pending + crashes * (2 * DATA_REC_UNITLEN - 1)
         + (IF Active /\ pc # "append_header" THEN DATA_REC_UNITLEN ELSE 0)

\* Nothing has been added since the capacity was looked at.
Settled == ~ Active \/ pc \in {"append_node", "append_header"}

MostRecords == Capacity \div DATA_REC_UNITLEN + 2 + 2 * crashes

NumberInv ==
  /\ _mgrhdr.nodenum <= MostRecords
  /\ Settled => _mgrhdr.nodenum <= MostRecords - 1
  /\ _mgrhdr.current_length < Word
  /\ crashes <= MaxCrashes

SumInv == AccountInv /\ DebtInv /\ NumberInv

-----------------------------------------------------------------------------
LEMMA ExcessFacts ==
  ASSUME NEW u \in Nat, NEW d \in Nat
  PROVE  /\ Excess(u, d) \in 0 .. d
         /\ Excess(u, 0) = 0 /\ Excess(0, d) = d
         /\ d >= u => Excess(u, d) = d - u
         /\ d <= Excess(u, d) + u
  BY DEF Excess

\* The weights of two sequences of nodes, or of one and its beginning.
LEMMA WeightSame ==
  ASSUME NEW u \in Nat, NEW s, NEW t, NEW n \in Nat,
         \A i \in 1 .. n : s[i].datalen = t[i].datalen
  PROVE  Weight(u, s, n) = Weight(u, t, n)
<1>1. [i \in 1 .. n |-> Excess(u, s[i].datalen)]
        = [i \in 1 .. n |-> Excess(u, t[i].datalen)]
  OBVIOUS
<1> QED
  BY <1>1 DEF Weight

LEMMA WeightPoint ==
  ASSUME NEW u \in Nat, NEW s, NEW t, NEW n \in Nat, NEW k \in 1 .. n,
         \A i \in 1 .. n : s[i].datalen \in Nat /\ t[i].datalen \in Nat,
         \A i \in 1 .. n : i # k => s[i].datalen = t[i].datalen
  PROVE  Weight(u, t, n)
           = Weight(u, s, n) - Excess(u, s[k].datalen) + Excess(u, t[k].datalen)
<1> DEFINE f == [i \in 1 .. n |-> Excess(u, s[i].datalen)]
           h == [i \in 1 .. n |-> Excess(u, t[i].datalen)]
<1>0. \A i \in 1 .. n : Excess(u, s[i].datalen) \in Int /\ Excess(u, t[i].datalen) \in Int
  BY DEF Excess
<1>1. f \in [1 .. n -> Int] /\ h \in [1 .. n -> Int]
  BY <1>0
<1>2. \A x \in (1 .. n) \ {k} : h[x] = f[x]
  OBVIOUS
<1>3. f[k] = Excess(u, s[k].datalen) /\ h[k] = Excess(u, t[k].datalen)
  OBVIOUS
<1>4. IsFiniteSet(1 .. n)
  BY FS_Interval
<1>5. Weight(u, s, n) = SumFunction(f) /\ Weight(u, t, n) = SumFunction(h)
  BY DEF Weight
<1> DEFINE D == 1 .. n
<1>a. /\ IsFiniteSet(D) /\ f \in [D -> Int] /\ h \in [D -> Int] /\ k \in D
      /\ \A x \in D \ {k} : h[x] = f[x]
  BY <1>1, <1>2, <1>4
<1> HIDE DEF f, h, D
<1>6. SumFunction(h) = SumFunction(f) - f[k] + h[k]
  BY <1>a, SumChanges
<1> QED
  BY <1>3, <1>5, <1>6

LEMMA WeightGrows ==
  ASSUME NEW u \in Nat, NEW s, NEW n \in Nat,
         \A i \in 1 .. n + 1 : s[i].datalen \in Nat
  PROVE  Weight(u, s, n + 1) = Weight(u, s, n) + Excess(u, s[n + 1].datalen)
<1> DEFINE f == [i \in 1 .. n |-> Excess(u, s[i].datalen)]
           h == [i \in 1 .. n + 1 |-> Excess(u, s[i].datalen)]
<1>0. 1 .. n \subseteq 1 .. n + 1 /\ n + 1 \in 1 .. n + 1
  OBVIOUS
<1>a. \A i \in 1 .. n + 1 : Excess(u, s[i].datalen) \in Int
  BY DEF Excess
<1>1. f \in [1 .. n -> Int] /\ h \in [1 .. n + 1 -> Int]
  BY <1>0, <1>a
<1>2. \A x \in 1 .. n : h[x] = f[x]
  BY <1>0
<1>3. h[n + 1] = Excess(u, s[n + 1].datalen)
  BY <1>0
<1>4. Weight(u, s, n) = SumFunction(f) /\ Weight(u, s, n + 1) = SumFunction(h)
  BY DEF Weight
<1> HIDE DEF f, h
<1>5. SumFunction(h) = SumFunction(f) + h[n + 1]
  BY <1>1, <1>2, SumGrows
<1> QED
  BY <1>3, <1>4, <1>5

LEMMA WeightBounds ==
  ASSUME NEW u \in Nat, NEW s, NEW n \in Nat, NEW m \in Nat,
         \A i \in 1 .. n : s[i].datalen \in 0 .. m
  PROVE  Weight(u, s, n) \in 0 .. n * m
<1> DEFINE f == [i \in 1 .. n |-> Excess(u, s[i].datalen)]
<1>a. \A i \in 1 .. n : Excess(u, s[i].datalen) \in 0 .. m
  BY DEF Excess
<1>1. f \in [1 .. n -> 0 .. m]
  BY <1>a
<1>2. Weight(u, s, n) = SumFunction(f)
  BY DEF Weight
<1> HIDE DEF f
<1> QED
  BY <1>1, <1>2, SumBounds
-----------------------------------------------------------------------------
LEMMA PlaceStep == IInv /\ IInv' /\ PlaceInv /\ [Next]_vars => PlaceInv'
<1> SUFFICES ASSUME IInv, IInv', PlaceInv, [Next]_vars PROVE PlaceInv'
  OBVIOUS
<1>0. TypeOK /\ LengthInv /\ CountInv /\ TypeOK' /\ LengthInv' /\ CountInv'
  BY DEF IInv
<1>a. /\ _mgrhdr \in Header /\ m_handle \in [file : Nat, length : Nat]
      /\ nodes \in Seq(Node) /\ Len(nodes) \in Nat /\ slot \in Nat
      /\ m_handle' \in [file : Nat, length : Nat]
      /\ _mgrhdr.nodenum \in Nat /\ _mgrhdr.current_length \in Nat
  BY <1>0 DEF TypeOK, Header
<1>c. _mgrhdr.nodenum <= Len(nodes)
  BY <1>0 DEF CountInv
<1>d. pc \in Removing => _mgrhdr.nodenum >= 2 /\ slot \in 1 .. Len(nodes) /\ Active
  <2> SUFFICES ASSUME pc \in Removing
               PROVE  _mgrhdr.nodenum >= 2 /\ slot \in 1 .. Len(nodes) /\ Active
    OBVIOUS
  <2>1. m_handle # Null /\ slot \in 1 .. Len(nodes)
    BY <1>0 DEF CountInv, Removing
  <2>2. Active
    BY <2>1 DEF Active, Removing
  <2>3. _mgrhdr.current_length > 0
    BY <1>0, <1>a, SizeAssumption DEF LengthInv
  <2> QED
    BY <1>0, <2>1, <2>2, <2>3 DEF CountInv, Removing
<1> USE DEF PlaceInv, Removing
<1>1. CASE NewRecord
  BY <1>0, <1>1 DEF NewRecord, Active
<1>2. CASE NewNode
  <2>0. m_node.datalen = 0
    BY <1>0 DEF LengthInv
  <2>1. nodes'[_mgrhdr.nodenum + 1] = m_node /\ m_node.datalen = 0
    BY <1>2, <2>0, NewNodePlaces
  <2>2. ASSUME NEW i \in 1 .. Len(nodes'), i > _mgrhdr.nodenum PROVE nodes'[i].datalen = 0
    <3>1. CASE i = _mgrhdr.nodenum + 1
      BY <2>1, <3>1
    <3>2. CASE i # _mgrhdr.nodenum + 1
      <4>1. i \in 1 .. Len(nodes) /\ nodes'[i] = nodes[i]
        BY <1>2, <3>2, NewNodePlaces
      <4> QED
        BY <2>2, <4>1
    <3> QED
      BY <3>1, <3>2
  <2> QED
    BY <1>0, <1>2, <2>1, <2>2 DEF NewNode, recVars, Active
<1>3. CASE NewHeader
  <2>1. _mgrhdr'.nodenum = _mgrhdr.nodenum + 1 /\ nodes' = nodes /\ pc' = "write"
    BY <1>a, <1>3 DEF NewHeader, Header
  <2>2. nodes[_mgrhdr.nodenum + 1].datalen = 0
    BY <1>0, <1>3 DEF NewHeader, LengthInv
  <2>3. \A i \in 1 .. Len(nodes) : i > _mgrhdr'.nodenum => nodes[i].datalen = 0
    BY <1>a, <2>1
  <2> QED
    BY <2>1, <2>2, <2>3
<1>4. CASE Write
  <2>1. PICK size \in 1 .. MaxSize :
          /\ m_handle' = [m_handle EXCEPT !.length = @ + size]
          /\ pc' = IF m_handle.length + size >= DATA_REC_UNITLEN
                     THEN "release" ELSE "idle"
    BY <1>4 DEF Write
  <2>2. m_handle'.length = m_handle.length + size
    BY <1>a, <2>1
  <2>3. UNCHANGED <<_mgrhdr, nodes, slot, recnode>> /\ Active
    BY <1>0, <1>4 DEF Write, Active, CountInv
  <2> QED
    BY <1>4, <2>1, <2>2, <2>3 DEF Write
<1>5. CASE Release
  <2>1. UNCHANGED <<_mgrhdr, nodes, m_handle>> /\ Active /\ m_handle.length >= DATA_REC_UNITLEN
    BY <1>0, <1>5 DEF Release, Active, CountInv
  <2>2. CASE pc' = "append_node"
    BY <1>5, <2>1, <2>2 DEF Release, Active
  <2>3. CASE pc' = "shift" /\ slot' = 1 /\ recnode' = nodes[1]
    <3>1. _mgrhdr.nodenum >= 2
      <4>1. _mgrhdr.current_length > Capacity /\ pc = "release"
        BY <1>5, <2>3 DEF Release
      <4>2. _mgrhdr.current_length > 0
        BY <1>a, <4>1, SizeAssumption
      <4> QED
        BY <1>0, <2>1, <4>1, <4>2 DEF CountInv
    <3> QED
      BY <1>5, <1>a, <2>1, <2>3, <3>1 DEF Release
  <2> QED
    BY <1>5, <2>2, <2>3 DEF Release
<1>6. CASE RemoveShift
  <2>1. /\ UNCHANGED <<_mgrhdr, m_handle, recnode>> /\ pc = "shift"
        /\ _mgrhdr.nodenum \in 2 .. Len(nodes) /\ slot \in 1 .. Len(nodes)
        /\ Active /\ nodes[_mgrhdr.nodenum].datalen = 0
    BY <1>0, <1>a, <1>c, <1>d, <1>6 DEF RemoveShift
  <2>2. CASE nodes' = nodes /\ slot = Len(nodes) /\ slot' = slot /\ pc' = "rm"
    BY <1>0, <2>1, <2>2
  <2>3. CASE /\ slot < Len(nodes) /\ slot' = slot + 1 /\ pc' = "shift"
             /\ Len(nodes') = Len(nodes)
             /\ \A j \in 1 .. Len(nodes) :
                  nodes'[j] = IF j = slot THEN nodes[j + 1] ELSE nodes[j]
    <3>1. \A i \in 1 .. Len(nodes) : i >= _mgrhdr.nodenum => nodes[i].datalen = 0
      BY <1>a, <2>1
    <3>2. \A i \in 1 .. Len(nodes') : i >= _mgrhdr.nodenum => nodes'[i].datalen = 0
      BY <1>a, <2>1, <2>3, <3>1
    <3>3. slot' >= _mgrhdr.nodenum => nodes'[_mgrhdr.nodenum - 1].datalen = 0
      <4>1. CASE slot >= _mgrhdr.nodenum
        <5>1. _mgrhdr.nodenum - 1 \in 1 .. Len(nodes) /\ _mgrhdr.nodenum - 1 # slot
          BY <1>a, <2>1, <4>1
        <5> QED
          BY <2>1, <2>3, <4>1, <5>1
      <4>2. CASE slot = _mgrhdr.nodenum - 1
        BY <1>a, <2>1, <2>3, <4>2
      <4> QED
        BY <1>a, <2>1, <2>3, <4>1, <4>2
    <3>4. slot' # 1
      BY <1>a, <2>1, <2>3
    <3>5. Active' /\ _mgrhdr.nodenum \in 1 .. Len(nodes')
      BY <1>a, <2>1, <2>3 DEF Active
    <3> QED
      BY <1>a, <2>1, <2>3, <3>2, <3>3, <3>4, <3>5
  <2> QED
    BY <1>6, <2>2, <2>3, ShiftFacts
<1>7. CASE RemoveClear
  <2>1. /\ UNCHANGED <<_mgrhdr, m_handle, recnode, slot>> /\ pc = "clear"
        /\ _mgrhdr.nodenum \in 2 .. Len(nodes) /\ slot = Len(nodes)
        /\ Active /\ nodes[_mgrhdr.nodenum].datalen = 0
        /\ nodes[_mgrhdr.nodenum - 1].datalen = 0
        /\ pc' = "remove_header" /\ m_handle.length >= DATA_REC_UNITLEN
    BY <1>0, <1>a, <1>c, <1>d, <1>7 DEF RemoveClear, recVars
  <2>2. /\ Len(nodes') = Len(nodes)
        /\ \A j \in 1 .. Len(nodes) :
             nodes'[j] = IF j = Len(nodes) THEN ZeroNode ELSE nodes[j]
    BY <1>7, ClearFacts
  <2>3. ZeroNode.datalen = 0
    BY DEF ZeroNode
  <2>4. \A i \in 1 .. Len(nodes) : nodes[i].datalen = 0 => nodes'[i].datalen = 0
    BY <2>2, <2>3
  <2>5. _mgrhdr.nodenum \in 1 .. Len(nodes) /\ _mgrhdr.nodenum - 1 \in 1 .. Len(nodes)
    BY <1>a, <2>1
  <2> QED
    BY <2>1, <2>2, <2>4, <2>5
<1>8. CASE RemoveFile
  BY <1>0, <1>8 DEF RemoveFile, recVars, Active
<1>9. CASE RemoveHeader
  <2>1. _mgrhdr'.nodenum = _mgrhdr.nodenum - 1
    BY <1>a, <1>9 DEF RemoveHeader, Header
  <2>2. UNCHANGED <<nodes, m_handle>> /\ pc' = "append_node" /\ slot = Len(nodes)
    BY <1>9 DEF RemoveHeader, recVars
  <2>3. /\ nodes[_mgrhdr.nodenum].datalen = 0
        /\ nodes[_mgrhdr.nodenum - 1].datalen = 0
        /\ m_handle.length >= DATA_REC_UNITLEN
    BY <1>c, <1>d, <1>9, <2>2 DEF RemoveHeader
  <2>4. \A i \in 1 .. Len(nodes) : i > _mgrhdr.nodenum - 1 => nodes[i].datalen = 0
    BY <1>a, <2>3
  <2> QED
    BY <2>1, <2>2, <2>3, <2>4
<1>10. CASE AppendNode
  <2>1. /\ _mgrhdr.nodenum \in 1 .. Len(nodes) /\ Len(nodes') = Len(nodes)
        /\ nodes'[_mgrhdr.nodenum] = [m_node EXCEPT !.datalen = m_handle.length]
        /\ \A j \in 1 .. Len(nodes') : j # _mgrhdr.nodenum => nodes'[j] = nodes[j]
    BY <1>10, AppendNodeFacts
  <2>2. nodes'[_mgrhdr.nodenum].datalen = m_handle.length
    BY <1>0, <2>1 DEF TypeOK, Node
  <2>3. \A i \in 1 .. Len(nodes') : i > _mgrhdr.nodenum => nodes'[i].datalen = 0
    BY <1>a, <2>1
  <2> QED
    BY <1>10, <2>2, <2>3 DEF AppendNode, recVars
<1>11. CASE AppendHeader
  <2>1. _mgrhdr'.nodenum = _mgrhdr.nodenum
    BY <1>a, <1>11 DEF AppendHeader, Header
  <2> QED
    BY <1>11, <2>1 DEF AppendHeader, Active
<1>12. CASE Crash
  BY <1>12 DEF Crash, Active
<1>13. CASE Restart
  BY <1>0, <1>13 DEF Restart, recVars, CountInv, Active
<1>14. CASE UNCHANGED vars
  BY <1>14 DEF vars, recVars, Active
<1> QED
  BY <1>1, <1>2, <1>3, <1>4, <1>5, <1>6, <1>7, <1>8, <1>9, <1>10, <1>11,
     <1>12, <1>13, <1>14 DEF Next
-----------------------------------------------------------------------------
LEMMA NodeFacts ==
  ASSUME IInv
  PROVE  /\ _mgrhdr.nodenum \in Nat /\ Len(nodes) \in Nat
         /\ _mgrhdr.nodenum <= Len(nodes)
         /\ _mgrhdr.current_length \in Nat
         /\ m_handle.length \in 0 .. MaxRec /\ recnode.datalen \in 0 .. MaxRec
         /\ \A i \in 1 .. Len(nodes) : nodes[i].datalen \in 0 .. MaxRec
         /\ \A i \in 1 .. _mgrhdr.nodenum : i \in 1 .. Len(nodes)
<1>0. TypeOK /\ LengthInv /\ CountInv
  BY DEF IInv
<1>1. /\ _mgrhdr.nodenum \in Nat /\ Len(nodes) \in Nat
      /\ _mgrhdr.nodenum <= Len(nodes) /\ _mgrhdr.current_length \in Nat
  BY <1>0 DEF TypeOK, Header, CountInv
<1>2. m_handle.length \in 0 .. MaxRec /\ recnode.datalen \in 0 .. MaxRec
  BY <1>0, RecordsFit DEF TypeOK, LengthInv, Node
<1>3. ASSUME NEW i \in 1 .. Len(nodes) PROVE nodes[i].datalen \in 0 .. MaxRec
  <2>1. nodes[i] \in Node
    BY <1>0 DEF TypeOK
  <2>2. nodes[i].datalen \in Nat
    BY <2>1 DEF Node
  <2> QED
    BY <1>0, <2>2, RecordsFit DEF LengthInv
<1> QED
  BY <1>1, <1>2, <1>3

\* In a removal there are two records at least, and slot is at one of them
\* or behind, where the node says 0.
LEMMA RemovalFacts ==
  ASSUME IInv, PlaceInv, pc \in Removing
  PROVE  /\ _mgrhdr.nodenum >= 2 /\ slot \in 1 .. Len(nodes) /\ Active
         /\ nodes[_mgrhdr.nodenum].datalen = 0
         /\ slot >= _mgrhdr.nodenum => nodes[slot].datalen = 0
<1>1. m_handle # Null /\ slot \in 1 .. Len(nodes)
  BY DEF IInv, CountInv, Removing
<1>2. Active
  BY <1>1 DEF Active, Removing
<1>3. _mgrhdr.current_length > 0
  BY NodeFacts, SizeAssumption DEF IInv, LengthInv
<1>4. _mgrhdr.nodenum >= 2
  BY <1>2, <1>3 DEF IInv, CountInv, Removing
<1>5. nodes[_mgrhdr.nodenum].datalen = 0
  BY <1>2 DEF PlaceInv, Removing
<1>6. slot >= _mgrhdr.nodenum => nodes[slot].datalen = 0
  BY <1>1, <1>5, NodeFacts DEF PlaceInv
<1> QED
  BY <1>1, <1>2, <1>4, <1>5, <1>6

LEMMA WeightType ==
  ASSUME IInv, NEW u \in Nat
  PROVE  /\ Weight(u, nodes, _mgrhdr.nodenum) \in 0 .. _mgrhdr.nodenum * MaxRec
         /\ Weight(u, nodes, _mgrhdr.nodenum) \in Int
<1>1. \A i \in 1 .. _mgrhdr.nodenum : nodes[i].datalen \in 0 .. MaxRec
  BY NodeFacts
<1>2. Weight(u, nodes, _mgrhdr.nodenum) \in 0 .. _mgrhdr.nodenum * MaxRec
  BY <1>1, NodeFacts, WeightBounds, RecordsFit
<1> QED
  BY <1>2, NodeFacts, RecordsFit

\* What the writing of a node behind the records, and of the copies and
\* zeroes of a removal, does to their weight: nothing.
LEMMA HeldShift ==
  ASSUME IInv, IInv', PlaceInv, RemoveShift, NEW u \in Nat
  PROVE  Held(u)' = Held(u)
<1> DEFINE n == _mgrhdr.nodenum
<1>1. pc = "shift" /\ pc' \in Removing /\ pc \in Removing /\ UNCHANGED <<_mgrhdr, recnode>>
  BY DEF RemoveShift, Removing
<1>2. /\ n \in Nat /\ n <= Len(nodes) /\ Len(nodes) \in Nat /\ slot \in 1 .. Len(nodes)
      /\ \A i \in 1 .. Len(nodes) : nodes[i].datalen \in Nat
      /\ recnode.datalen \in Nat
      /\ n >= 2 /\ nodes[n].datalen = 0
      /\ slot >= n => nodes[slot].datalen = 0
  BY <1>1, NodeFacts, RemovalFacts, RecordsFit
<1>3. Held(u) = Weight(u, nodes, n) - Excess(u, nodes[slot].datalen)
                  + Excess(u, recnode.datalen)
  BY <1>1 DEF Held
<1>4. Held(u)' = Weight(u, nodes', n) - Excess(u, nodes'[slot'].datalen)
                  + Excess(u, recnode.datalen)
  BY <1>1 DEF Held
<1>5. CASE nodes' = nodes /\ slot' = slot
  BY <1>3, <1>4, <1>5
<1>6. CASE /\ slot < Len(nodes) /\ slot' = slot + 1
           /\ Len(nodes') = Len(nodes)
           /\ \A j \in 1 .. Len(nodes) :
                nodes'[j] = IF j = slot THEN nodes[j + 1] ELSE nodes[j]
  <2>1. \A j \in 1 .. Len(nodes) : nodes'[j].datalen \in Nat
    BY <1>2, <1>6, NodeFacts
  <2>2. nodes'[slot].datalen = nodes[slot + 1].datalen
        /\ nodes'[slot'] = nodes[slot + 1] /\ slot + 1 \in 1 .. Len(nodes)
    BY <1>2, <1>6
  <2>3. CASE slot <= n
    <3>1. Weight(u, nodes', n) = Weight(u, nodes, n)
             - Excess(u, nodes[slot].datalen) + Excess(u, nodes'[slot].datalen)
      <4> DEFINE k == slot
      <4>1. /\ n \in Nat /\ k \in 1 .. n
            /\ \A i \in 1 .. n : nodes[i].datalen \in Nat /\ nodes'[i].datalen \in Nat
            /\ \A i \in 1 .. n : i # k => nodes[i].datalen = nodes'[i].datalen
        <5>1. \A i \in 1 .. n : nodes[i].datalen \in Nat /\ nodes'[i].datalen \in Nat
          BY <1>2, <2>1
        <5>2. \A i \in 1 .. n : i # slot => nodes[i].datalen = nodes'[i].datalen
          BY <1>2, <1>6
        <5> QED
          BY <1>2, <2>3, <5>1, <5>2
      <4> HIDE DEF k, n
      <4>2. Weight(u, nodes', n) = Weight(u, nodes, n) - Excess(u, nodes[k].datalen)
                                     + Excess(u, nodes'[k].datalen)
        BY <4>1, WeightPoint
      <4> QED
        BY <4>2 DEF k
    <3>2. /\ Excess(u, nodes[slot].datalen) \in Int
          /\ Excess(u, nodes[slot + 1].datalen) \in Int
          /\ Excess(u, recnode.datalen) \in Int
          /\ Weight(u, nodes, n) \in Int
      <4>1. \A d \in Nat : Excess(u, d) \in Int
        BY DEF Excess
      <4>2. Weight(u, nodes, n) \in Int
        BY WeightType
      <4>3. nodes[slot].datalen \in Nat /\ nodes[slot + 1].datalen \in Nat
        BY <1>2, <2>2
      <4> QED
        BY <1>2, <4>1, <4>2, <4>3
    <3> QED
      BY <1>3, <1>4, <2>2, <3>1, <3>2
  <2>4. CASE slot > n
    <3>1. \A i \in 1 .. n : nodes'[i].datalen = nodes[i].datalen
      <4>1. \A i \in 1 .. n : i \in 1 .. Len(nodes) /\ i # slot
        BY <1>2, <2>4
      <4> QED
        BY <1>6, <4>1
    <3>2. Weight(u, nodes', n) = Weight(u, nodes, n)
      <4>1. n \in Nat
        BY <1>2
      <4> HIDE DEF n
      <4> QED
        BY <3>1, <4>1, WeightSame, Zenon
    <3>3. nodes'[slot'].datalen = 0 /\ nodes[slot].datalen = 0
      <4>1. slot + 1 > n
        BY <1>2, <2>4
      <4>2. nodes[slot + 1].datalen = 0
        BY <2>2, <4>1 DEF PlaceInv
      <4> QED
        BY <1>2, <2>2, <2>4, <4>2
    <3> QED
      BY <1>3, <1>4, <3>2, <3>3
  <2> QED
    BY <1>2, <2>3, <2>4
<1> QED
  BY <1>5, <1>6, ShiftFacts

LEMMA HeldClear ==
  ASSUME IInv, PlaceInv, RemoveClear, NEW u \in Nat
  PROVE  Held(u)' = Held(u)
<1> DEFINE n == _mgrhdr.nodenum
<1>1. /\ pc \in Removing /\ pc' \in Removing /\ UNCHANGED <<_mgrhdr, recnode, slot>>
      /\ slot = Len(nodes)
  BY DEF RemoveClear, Removing, recVars, PlaceInv
<1>2. nodes[slot].datalen = 0 /\ n \in Nat /\ n <= Len(nodes) /\ slot \in 1 .. Len(nodes)
  BY <1>1, NodeFacts, RemovalFacts
<1>3. \A j \in 1 .. Len(nodes) : nodes'[j].datalen = nodes[j].datalen
  BY <1>1, <1>2, ClearFacts DEF ZeroNode
<1>4. \A i \in 1 .. n : nodes'[i].datalen = nodes[i].datalen
  BY <1>2, <1>3, NodeFacts
<1>5. Weight(u, nodes', n) = Weight(u, nodes, n)
  BY <1>2, <1>4, WeightSame
<1>6. nodes'[slot].datalen = nodes[slot].datalen
  BY <1>2, <1>3
<1> QED
  BY <1>1, <1>5, <1>6 DEF Held

LEMMA HeldNew ==
  ASSUME IInv, IInv', PlaceInv, NewNode \/ NewHeader, NEW u \in Nat
  PROVE  Held(u)' = Held(u)
<1> DEFINE n == _mgrhdr.nodenum
<1>a. n \in Nat /\ n <= Len(nodes) /\ Len(nodes) \in Nat
      /\ pc \notin Removing /\ pc' \notin Removing
  BY NodeFacts DEF NewNode, NewHeader, Removing
<1>1. CASE NewNode
  <2>1. \A i \in 1 .. n : nodes'[i].datalen = nodes[i].datalen
    BY <1>a, <1>1, NewNodeFacts
  <2>2. Weight(u, nodes', n) = Weight(u, nodes, n)
    BY <1>a, <2>1, WeightSame
  <2>3. _mgrhdr' = _mgrhdr
    BY <1>1 DEF NewNode
  <2> QED
    BY <1>a, <2>2, <2>3 DEF Held
<1>2. CASE NewHeader
  <2>1. nodes' = nodes /\ pc = "new_header"
    BY <1>2 DEF NewHeader
  <2>2. _mgrhdr'.nodenum = n + 1
    BY <1>2 DEF NewHeader, IInv, TypeOK, Header
  <2>3. n + 1 <= Len(nodes)
    BY <2>1 DEF IInv, CountInv
  <2>4. nodes[n + 1].datalen = 0
    BY <1>a, <2>3 DEF PlaceInv
  <2>5. \A i \in 1 .. n + 1 : nodes[i].datalen \in Nat
    BY <1>a, <2>3, NodeFacts, RecordsFit
  <2>6. Weight(u, nodes, n + 1) = Weight(u, nodes, n) + Excess(u, 0)
    BY <1>a, <2>4, <2>5, WeightGrows
  <2>7. Excess(u, 0) = 0
    BY DEF Excess
  <2>8. Weight(u, nodes, n) \in Int
    BY <1>a, WeightType, RecordsFit
  <2> QED
    BY <1>a, <2>1, <2>2, <2>6, <2>7, <2>8 DEF Held
<1> QED
  BY <1>1, <1>2

\* A removal begins with the first record.
LEMMA HeldRelease ==
  ASSUME IInv, Release, NEW u \in Nat
  PROVE  Held(u)' = Held(u)
<1> DEFINE n == _mgrhdr.nodenum
<1>1. pc \notin Removing /\ UNCHANGED <<_mgrhdr, nodes>>
  BY DEF Release, Removing
<1>2. CASE pc' = "append_node"
  BY <1>1, <1>2 DEF Held, Removing
<1>3. CASE pc' = "shift" /\ slot' = 1 /\ recnode' = nodes[1]
  <2>1. 1 \in 1 .. Len(nodes)
    BY NodeFacts DEF Release, IInv, CountInv
  <2>2. nodes[1].datalen \in Nat
    BY <2>1, NodeFacts, RecordsFit
  <2>3. Excess(u, nodes[1].datalen) \in Int
    BY <2>2 DEF Excess
  <2>4. Weight(u, nodes, n) \in Int
    BY NodeFacts, WeightType, RecordsFit
  <2>5. Held(u)' = Weight(u, nodes, n) - Excess(u, nodes[1].datalen)
                     + Excess(u, nodes[1].datalen)
    BY <1>1, <1>3 DEF Held, Removing
  <2>6. Held(u) = Weight(u, nodes, n)
    BY <1>1 DEF Held
  <2> QED
    BY <2>3, <2>4, <2>5, <2>6
<1> QED
  BY <1>2, <1>3 DEF Release

\* It ends with that record taken off.
LEMMA HeldRemove ==
  ASSUME IInv, IInv', PlaceInv, RemoveHeader, NEW u \in Nat
  PROVE  Held(u)' = Held(u) - Excess(u, recnode.datalen)
<1> DEFINE n == _mgrhdr.nodenum
<1>1. /\ pc \in Removing /\ pc' \notin Removing /\ nodes' = nodes /\ slot = Len(nodes)
  BY DEF RemoveHeader, Removing, PlaceInv
<1>2. /\ n \in Nat /\ n >= 2 /\ n <= Len(nodes) /\ Len(nodes) \in Nat
      /\ nodes[n].datalen = 0 /\ nodes[slot].datalen = 0 /\ recnode.datalen \in Nat
  BY <1>1, NodeFacts, RemovalFacts, RecordsFit
<1>3. _mgrhdr'.nodenum = n - 1
  BY DEF RemoveHeader, IInv, TypeOK, Header
<1>4. n - 1 \in Nat /\ (n - 1) + 1 = n
  BY <1>2
<1>5. \A i \in 1 .. n : nodes[i].datalen \in Nat
  BY <1>2, NodeFacts, RecordsFit
<1>6. Weight(u, nodes, n) = Weight(u, nodes, n - 1) + Excess(u, 0)
  <2> DEFINE m == n - 1
  <2>1. m \in Nat /\ m + 1 = n
    BY <1>4
  <2> HIDE DEF m
  <2>2. Weight(u, nodes, m + 1) = Weight(u, nodes, m) + Excess(u, nodes[m + 1].datalen)
    BY <1>5, <2>1, WeightGrows
  <2>3. Weight(u, nodes, n) = Weight(u, nodes, m) + Excess(u, 0)
    BY <1>2, <2>1, <2>2
  <2> QED
    BY <2>3 DEF m
<1>7. Excess(u, 0) = 0 /\ Excess(u, recnode.datalen) \in Int
  BY <1>2 DEF Excess
<1>8. Weight(u, nodes, n - 1) \in Int
  <2>1. \A i \in 1 .. n - 1 : nodes[i].datalen \in 0 .. MaxRec
    BY <1>2, NodeFacts
  <2>2. Weight(u, nodes, n - 1) \in 0 .. (n - 1) * MaxRec
    BY <1>4, <2>1, WeightBounds, RecordsFit
  <2> QED
    BY <1>4, <2>2, RecordsFit
<1>9. Held(u) = Weight(u, nodes, n) - Excess(u, 0) + Excess(u, recnode.datalen)
  BY <1>1, <1>2 DEF Held
<1>10. Held(u)' = Weight(u, nodes, n - 1)
  BY <1>1, <1>3 DEF Held
<1> HIDE DEF n
<1> QED
  BY <1>6, <1>7, <1>8, <1>9, <1>10

\* The open record gets its length.
LEMMA HeldAppend ==
  ASSUME IInv, IInv', PlaceInv, AppendNode, NEW u \in Nat
  PROVE  Held(u)' = Held(u) + Excess(u, m_handle.length)
<1> DEFINE n == _mgrhdr.nodenum
<1>1. /\ pc \notin Removing /\ pc' \notin Removing /\ _mgrhdr' = _mgrhdr
      /\ pc = "append_node"
  BY DEF AppendNode, Removing
<1>2. /\ n \in 1 .. Len(nodes) /\ n \in Nat /\ Len(nodes) \in Nat
      /\ Len(nodes') = Len(nodes) /\ m_handle.length \in Nat
      /\ nodes'[n] = [m_node EXCEPT !.datalen = m_handle.length]
      /\ \A j \in 1 .. Len(nodes) : j # n => nodes'[j] = nodes[j]
  BY NodeFacts, AppendNodeFacts, RecordsFit
<1>3. nodes'[n].datalen = m_handle.length
  BY <1>2 DEF IInv, TypeOK, Node
<1>4. nodes[n].datalen = 0
  <2>1. m_handle # Null
    BY <1>1 DEF IInv, CountInv
  <2> QED
    BY <1>1, <2>1 DEF PlaceInv, Active
<1>5. \A i \in 1 .. n : nodes[i].datalen \in Nat /\ nodes'[i].datalen \in Nat
  <2>1. \A i \in 1 .. n : i \in 1 .. Len(nodes) /\ nodes[i].datalen \in Nat
    BY <1>2, NodeFacts, RecordsFit
  <2>2. \A i \in 1 .. n : i = n \/ nodes'[i] = nodes[i]
    BY <1>2, <2>1
  <2> QED
    BY <1>2, <1>3, <2>1, <2>2
<1>6. \A i \in 1 .. n : i # n => nodes[i].datalen = nodes'[i].datalen
  BY <1>2
<1>7. n \in 1 .. n
  BY <1>2
<1>8. Weight(u, nodes', n) = Weight(u, nodes, n) - Excess(u, nodes[n].datalen)
                               + Excess(u, nodes'[n].datalen)
  <2> DEFINE k == n
  <2>1. /\ n \in Nat /\ k \in 1 .. n
        /\ \A i \in 1 .. n : nodes[i].datalen \in Nat /\ nodes'[i].datalen \in Nat
        /\ \A i \in 1 .. n : i # k => nodes[i].datalen = nodes'[i].datalen
    BY <1>2, <1>5, <1>6, <1>7
  <2> HIDE DEF k, n
  <2>2. Weight(u, nodes', n) = Weight(u, nodes, n) - Excess(u, nodes[k].datalen)
                                 + Excess(u, nodes'[k].datalen)
    BY <2>1, WeightPoint
  <2> QED
    BY <2>2 DEF k
<1>9. Excess(u, 0) = 0
  BY DEF Excess
<1>10. Weight(u, nodes, n) \in Int
  BY NodeFacts, WeightType, RecordsFit
<1>11. Held(u) = Weight(u, nodes, n) /\ Held(u)' = Weight(u, nodes', n)
  BY <1>1 DEF Held
<1> HIDE DEF n
<1> QED
  BY <1>3, <1>4, <1>8, <1>9, <1>10, <1>11

\* A death in a removal leaves the node at slot twice, and the first record
\* nowhere.
LEMMA HeldCrash ==
  ASSUME IInv, PlaceInv, Crash, NEW u \in Nat
  PROVE  Held(u)' = Held(u) + (IF pc \in Removing
                                 THEN Excess(u, nodes[slot].datalen)
                                        - Excess(u, recnode.datalen)
                                 ELSE 0)
<1> DEFINE n == _mgrhdr.nodenum
<1>1. UNCHANGED <<_mgrhdr, nodes, slot, recnode>> /\ pc' \notin Removing
  BY DEF Crash, Removing
<1>2. Weight(u, nodes, n) \in Int
  BY NodeFacts, WeightType, RecordsFit
<1>3. Held(u)' = Weight(u, nodes, n)
  BY <1>1 DEF Held
<1>4. CASE pc \in Removing
  <2>1. nodes[slot].datalen \in Nat /\ recnode.datalen \in Nat
    BY <1>4, NodeFacts, RemovalFacts, RecordsFit
  <2>2. Excess(u, nodes[slot].datalen) \in Int /\ Excess(u, recnode.datalen) \in Int
    BY <2>1 DEF Excess
  <2>3. Held(u) = Weight(u, nodes, n) - Excess(u, nodes[slot].datalen)
                    + Excess(u, recnode.datalen)
    BY <1>4 DEF Held
  <2> QED
    BY <1>2, <1>3, <1>4, <2>2, <2>3
<1>5. CASE pc \notin Removing
  BY <1>2, <1>3, <1>5 DEF Held
<1> QED
  BY <1>4, <1>5

\* The other steps.
LEMMA HeldSame ==
  ASSUME IInv,
         NewRecord \/ Write \/ RemoveFile \/ AppendHeader \/ Restart \/ UNCHANGED vars,
         NEW u \in Nat
  PROVE  Held(u)' = Held(u)
<1>1. CASE NewRecord \/ Write \/ RemoveFile \/ UNCHANGED vars
  <2>1. UNCHANGED <<_mgrhdr, nodes, recnode, slot>> /\ (pc' \in Removing <=> pc \in Removing)
    BY <1>1 DEF NewRecord, Write, RemoveFile, vars, recVars, Removing
  <2> QED
    BY <2>1 DEF Held
<1>2. CASE AppendHeader \/ Restart
  <2>1. UNCHANGED nodes /\ pc \notin Removing /\ pc' \notin Removing
    BY <1>2 DEF AppendHeader, Restart, Removing
  <2>2. _mgrhdr'.nodenum = _mgrhdr.nodenum
    BY <1>2 DEF AppendHeader, Restart, IInv, TypeOK, Header, CountInv
  <2> QED
    BY <2>1, <2>2 DEF Held
<1> QED
  BY <1>1, <1>2
-----------------------------------------------------------------------------
LEMMA Times ==
  ASSUME NEW a \in Int, NEW b \in Int, NEW m \in Nat, a <= b
  PROVE  a * m <= b * m
<1>1. b * m = a * m + (b - a) * m /\ (b - a) \in Nat
  OBVIOUS
<1>2. (b - a) * m \in Nat /\ a * m \in Int
  BY <1>1
<1> QED
  BY <1>1, <1>2

\* If the records are paid for by no more than the capacity, the open one and
\* what deaths took, there is room for another.
LEMMA RoomForOne ==
  ASSUME NEW n \in Nat, NEW c \in Nat, NEW cur \in Nat, NEW held \in Nat,
         cur <= Capacity,
         DATA_REC_UNITLEN * n + held
           <= cur + c * (2 * DATA_REC_UNITLEN - 1) + DATA_REC_UNITLEN
  PROVE  n <= Capacity \div DATA_REC_UNITLEN + 1 + 2 * c
<1> DEFINE u == DATA_REC_UNITLEN
           k == Capacity \div DATA_REC_UNITLEN
<1>1. u \in Nat \ {0} /\ Capacity \in Nat
  BY SizeAssumption
<1>2. k \in Nat /\ Capacity < u * (k + 1)
  <2>1. k \in Int /\ Capacity = u * k + (Capacity % u) /\ (Capacity % u) \in 0 .. u - 1
    BY <1>1
  <2>2. k \in Nat
    BY <1>1
  <2>3. u * (k + 1) = u * k + u
    BY <1>1, <2>1
  <2> QED
    BY <1>1, <2>1, <2>2, <2>3
<1> SUFFICES ASSUME n >= k + 2 + 2 * c PROVE FALSE
  BY <1>2
<1>3. (k + 2 + 2 * c) * u <= n * u
  BY <1>1, <1>2, Times
<1>4. (k + 2 + 2 * c) * u = u * (k + 1) + u + 2 * (c * u)
  BY <1>1, <1>2
<1>5. c * (2 * u - 1) = 2 * (c * u) - c /\ n * u = u * n
  BY <1>1
<1>6. u * n + held <= cur + c * (2 * u - 1) + u
  OBVIOUS
<1>7. c * u \in Nat /\ u * n \in Nat /\ u * (k + 1) \in Nat
  BY <1>1, <1>2
<1> HIDE DEF u, k
<1> QED
  BY <1>1, <1>2, <1>3, <1>4, <1>5, <1>6, <1>7

LEMMA HeldType ==
  ASSUME IInv, PlaceInv, NEW u \in Nat
  PROVE  Held(u) \in Int
<1>1. Weight(u, nodes, _mgrhdr.nodenum) \in Int
  BY WeightType
<1>2. \A d \in Nat : Excess(u, d) \in Int
  BY DEF Excess
<1>3. pc \in Removing => nodes[slot].datalen \in Nat /\ recnode.datalen \in Nat
  BY NodeFacts, RemovalFacts, RecordsFit
<1> QED
  BY <1>1, <1>2, <1>3 DEF Held

\* What is accounted for fits an unsigned long.
LEMMA Fits ==
  ASSUME IInv, PlaceInv, AccountInv, NumberInv, pc \notin Removing
  PROVE  _mgrhdr.current_length + Pending < Word
<1> DEFINE n == _mgrhdr.nodenum
           k == Capacity \div DATA_REC_UNITLEN
<1>1. n \in Nat /\ crashes \in Nat /\ MaxRec \in Nat /\ MaxCrashes \in Nat /\ k \in Nat
  BY NodeFacts, RecordsFit, BoundAssumption, SizeAssumption DEF IInv, TypeOK
<1>2. Held(0) \in 0 .. n * MaxRec /\ n * MaxRec \in Nat
  BY <1>1, WeightType DEF Held
<1>3. _mgrhdr.current_length + Pending \in Nat
  BY NodeFacts, RecordsFit DEF Pending
<1>4. n <= k + 2 + 2 * crashes /\ crashes <= MaxCrashes
  BY DEF NumberInv, MostRecords
<1>5. n * MaxRec <= (k + 2 + 2 * crashes) * MaxRec
  BY <1>1, <1>4, Times
<1>6. (k + 2 + 2 * crashes) * MaxRec + crashes * MaxRec = (k + 2 + 3 * crashes) * MaxRec
  BY <1>1
<1>7. (k + 2 + 3 * crashes) * MaxRec <= (k + 2 + 3 * MaxCrashes) * MaxRec
  BY <1>1, <1>4, Times
<1>8. (k + 2 + 3 * MaxCrashes) * MaxRec < Word
  BY WordAssumption
<1>9. crashes * MaxRec \in Nat /\ (k + 2 + 3 * crashes) * MaxRec \in Nat
      /\ (k + 2 + 3 * MaxCrashes) * MaxRec \in Nat /\ Word \in Nat
      /\ (k + 2 + 2 * crashes) * MaxRec \in Nat
  BY <1>1, SizeAssumption
<1>10. Held(0) - (_mgrhdr.current_length + Pending) >= -(crashes * MaxRec)
  BY <1>2, <1>3, <1>9 DEF AccountInv
<1> DEFINE p1 == n * MaxRec
           p2 == (k + 2 + 2 * crashes) * MaxRec
           p3 == crashes * MaxRec
           p4 == (k + 2 + 3 * crashes) * MaxRec
           p5 == (k + 2 + 3 * MaxCrashes) * MaxRec
           x == _mgrhdr.current_length + Pending
           h == Held(0)
<1>11. /\ x \in Nat /\ p1 \in Nat /\ p2 \in Nat /\ p3 \in Nat /\ p4 \in Nat /\ p5 \in Nat
       /\ h \in 0 .. p1 /\ h - x >= -p3 /\ p1 <= p2 /\ p2 + p3 = p4 /\ p4 <= p5
       /\ p5 < Word /\ Word \in Nat
  BY <1>2, <1>3, <1>5, <1>6, <1>7, <1>8, <1>9, <1>10
<1> HIDE DEF p1, p2, p3, p4, p5, x, h
<1>12. x < Word
  BY <1>11
<1> QED
  BY <1>12 DEF x

\* current_length after the header of a removal, and after that of a record.
LEMMA LengthRemoved ==
  ASSUME IInv, NumberInv, RemoveHeader
  PROVE  /\ _mgrhdr'.nodenum = _mgrhdr.nodenum - 1
         /\ _mgrhdr'.current_length = _mgrhdr.current_length - recnode.datalen
         /\ _mgrhdr'.current_length \in 0 .. _mgrhdr.current_length
<1>1. /\ _mgrhdr'.nodenum = _mgrhdr.nodenum - 1
      /\ _mgrhdr'.current_length = (_mgrhdr.current_length - recnode.datalen) % Word
  BY DEF RemoveHeader, IInv, TypeOK, Header
<1>2. _mgrhdr.current_length > Capacity
  BY DEF RemoveHeader, IInv, LengthInv, Removing
<1> DEFINE x == _mgrhdr.current_length
           y == recnode.datalen
<1>3. x \in Nat /\ y \in 0 .. MaxRec /\ x < Word /\ Word \in Nat \ {0} /\ x > Capacity
  BY <1>2, NodeFacts, SizeAssumption DEF NumberInv
<1> HIDE DEF x, y
<1>4. x - y \in 0 .. x /\ (x - y) % Word = x - y
  <2>1. x - y \in 0 .. x /\ x - y < Word /\ x - y \in Nat
    BY <1>3, RecordsFit, SizeAssumption
  <2>2. \A a \in Nat : \A b \in Nat \ {0} : a < b => a % b = a
    OBVIOUS
  <2> QED
    BY <1>3, <2>1, <2>2
<1> QED
  BY <1>1, <1>4 DEF x, y

LEMMA LengthAppended ==
  ASSUME IInv, PlaceInv, AccountInv, NumberInv, AppendHeader
  PROVE  /\ _mgrhdr'.nodenum = _mgrhdr.nodenum
         /\ _mgrhdr'.current_length = _mgrhdr.current_length + m_handle.length
         /\ _mgrhdr'.current_length < Word
<1>1. /\ _mgrhdr'.nodenum = _mgrhdr.nodenum
      /\ _mgrhdr'.current_length = (_mgrhdr.current_length + m_handle.length) % Word
  BY DEF AppendHeader, IInv, TypeOK, Header
<1>2. _mgrhdr.current_length + m_handle.length < Word
  BY Fits DEF AppendHeader, Pending, Removing
<1> DEFINE x == _mgrhdr.current_length + m_handle.length
<1>3. x \in Nat /\ x < Word /\ Word \in Nat \ {0}
  BY <1>2, NodeFacts, RecordsFit, SizeAssumption
<1> HIDE DEF x
<1>4. x % Word = x
  <2>1. \A a \in Nat : \A b \in Nat \ {0} : a < b => a % b = a
    OBVIOUS
  <2> QED
    BY <1>3, <2>1
<1> QED
  BY <1>1, <1>3, <1>4 DEF x
-----------------------------------------------------------------------------
\* The steps that leave both sides of the account alone.
Quiet ==
  \/ NewRecord \/ NewNode \/ Write \/ Release \/ RemoveShift \/ RemoveClear
  \/ RemoveFile \/ Restart \/ UNCHANGED vars

LEMMA QuietFacts ==
  ASSUME IInv, IInv', PlaceInv, Quiet
  PROVE  /\ \A u \in Nat : Held(u)' = Held(u)
         /\ _mgrhdr' = _mgrhdr /\ Pending' = Pending /\ crashes' = crashes
         /\ Active /\ pc # "append_header" <=> (Active /\ pc # "append_header")'
<1>0. diskhdr = _mgrhdr /\ m_handle \in [file : Nat, length : Nat]
  BY DEF IInv, TypeOK, CountInv
<1>1. _mgrhdr' = _mgrhdr /\ crashes' = crashes
  BY <1>0 DEF Quiet, NewRecord, NewNode, Write, Release, RemoveShift, RemoveClear,
     RemoveFile, Restart, vars, recVars, histVars
<1>2. Pending' = Pending
  BY DEF Pending, Quiet, NewRecord, NewNode, Write, Release, RemoveShift, RemoveClear,
     RemoveFile, Restart, vars, recVars
<1>3. (Active /\ pc # "append_header") <=> (Active /\ pc # "append_header")'
  <2>1. CASE Write
    <3>1. PICK size \in 1 .. MaxSize : m_handle' = [m_handle EXCEPT !.length = @ + size]
      BY <2>1 DEF Write
    <3>2. m_handle' # Null /\ m_handle # Null
      <4>1. m_handle # Null
        BY <2>1 DEF Write, IInv, CountInv
      <4>2. m_handle'.length > 0
        BY <1>0, <3>1
      <4> QED
        BY <4>1, <4>2 DEF Null
    <3> QED
      BY <2>1, <3>2 DEF Write, Active
  <2>2. CASE NewRecord
    BY <2>2 DEF NewRecord, Active
  <2>3. CASE NewNode \/ RemoveClear \/ RemoveFile \/ Restart \/ UNCHANGED vars
    BY <2>3 DEF NewNode, RemoveClear, RemoveFile, Restart, vars, recVars, Active
  <2>4. CASE Release \/ RemoveShift
    BY <2>4 DEF Release, RemoveShift, Active
  <2> QED
    BY <2>1, <2>2, <2>3, <2>4 DEF Quiet
<1>4. ASSUME NEW u \in Nat PROVE Held(u)' = Held(u)
  BY HeldSame, HeldNew, HeldRelease, HeldShift, HeldClear DEF Quiet
<1> QED
  BY <1>1, <1>2, <1>3, <1>4

\* What a step adds to the account: a death adds one, and leaves behind what
\* was pending and one of the two records a removal was about.
LEMMA CrashFacts ==
  ASSUME IInv, IInv', PlaceInv, Crash, NEW u \in Nat
  PROVE  /\ _mgrhdr' = _mgrhdr /\ crashes' = crashes + 1 /\ crashes \in Nat
         /\ crashes < MaxCrashes
         /\ Pending' = 0 /\ ~ Active'
         /\ \/ Held(u)' = Held(u) /\ Pending = 0
            \/ Held(u)' = Held(u) /\ pc = "append_header" /\ Pending \in 0 .. MaxRec
            \/ /\ pc \in Removing /\ Pending = 0
               /\ \E d, e \in 0 .. MaxRec :
                    Held(u)' = Held(u) + (Excess(u, d) - Excess(u, e))
<1>1. /\ _mgrhdr' = _mgrhdr /\ crashes' = crashes + 1 /\ crashes < MaxCrashes
      /\ pc' = "down" /\ m_handle' = Null
  BY DEF Crash
<1>2. crashes \in Nat
  BY DEF IInv, TypeOK
<1>3. Pending' = 0 /\ ~ Active'
  BY <1>1 DEF Pending, Active
<1>4. CASE pc \in Removing
  <2>1. nodes[slot].datalen \in 0 .. MaxRec /\ recnode.datalen \in 0 .. MaxRec
    BY <1>4, NodeFacts, RemovalFacts
  <2>2. Held(u)' = Held(u) + (Excess(u, nodes[slot].datalen) - Excess(u, recnode.datalen))
    BY <1>4, HeldCrash
  <2>3. Pending = 0
    BY <1>4 DEF Pending, Removing
  <2> QED
    BY <1>1, <1>2, <1>3, <1>4, <2>1, <2>2, <2>3
<1>5. CASE pc \notin Removing
  <2>1. Held(u) \in Int
    BY HeldType
  <2>2. Held(u)' = Held(u)
    BY <1>5, <2>1, HeldCrash
  <2>3. Pending = 0 \/ (pc = "append_header" /\ Pending \in 0 .. MaxRec)
    BY NodeFacts DEF Pending
  <2> QED
    BY <1>1, <1>2, <1>3, <2>2, <2>3
<1> QED
  BY <1>4, <1>5

LEMMA AccountStep ==
  IInv /\ IInv' /\ PlaceInv /\ AccountInv /\ NumberInv /\ [Next]_vars => AccountInv'
<1> SUFFICES ASSUME IInv, IInv', PlaceInv, AccountInv, NumberInv, [Next]_vars
             PROVE  AccountInv'
  OBVIOUS
<1> DEFINE h == Held(0)
           x == _mgrhdr.current_length
           c == crashes
           m == MaxRec
           p == Pending
           l == m_handle.length
<1>a. /\ h \in Int /\ x \in Nat /\ c \in Nat /\ m \in Nat /\ c * m \in Nat
      /\ p \in Nat /\ l \in Nat
      /\ h - (x + p) \in -(c * m) .. c * m
  <2>1. h \in Int
    BY HeldType
  <2>2. x \in Nat /\ m \in Nat /\ l \in Nat
    BY NodeFacts, RecordsFit
  <2>3. p \in Nat
    BY <2>2 DEF Pending
  <2>4. c \in Nat
    BY DEF IInv, TypeOK
  <2>5. h - (x + p) \in -(c * m) .. c * m
    BY DEF AccountInv
  <2> HIDE DEF h, x, c, m, p, l
  <2>6. c * m \in Nat
    BY <2>2, <2>4
  <2> QED
    BY <2>1, <2>2, <2>3, <2>4, <2>5, <2>6
<1>b. \A d \in Nat : Excess(0, d) = d
  BY ExcessFacts
<1>1. CASE Quiet
  BY <1>1, QuietFacts DEF AccountInv
<1>2. CASE NewHeader
  <2>1. h' = h
    BY <1>2, HeldNew
  <2>2. _mgrhdr'.current_length = _mgrhdr.current_length
    BY <1>2 DEF NewHeader, IInv, TypeOK, Header
  <2>3. Pending = 0 /\ Pending' = 0 /\ crashes' = crashes
    BY <1>2 DEF NewHeader, Pending, histVars
  <2> QED
    BY <1>a, <2>1, <2>2, <2>3 DEF AccountInv
<1>3. CASE AppendNode
  <2>1. h' = h + l
    BY <1>3, <1>a, <1>b, HeldAppend
  <2>2. p = 0 /\ p' = l /\ crashes' = crashes /\ x' = x
    BY <1>3 DEF AppendNode, Pending, histVars, recVars
  <2>3. h' - (x' + p') = h - (x + p)
    BY <1>a, <2>1, <2>2
  <2> QED
    BY <1>a, <2>2, <2>3 DEF AccountInv
<1>4. CASE AppendHeader
  <2>1. h' = h
    BY <1>4, HeldSame
  <2>2. p = l /\ p' = 0 /\ crashes' = crashes
    BY <1>4 DEF AppendHeader, Pending, histVars
  <2>3. x' = x + l
    BY <1>4, LengthAppended
  <2>4. h' - (x' + p') = h - (x + p)
    BY <1>a, <2>1, <2>2, <2>3
  <2> QED
    BY <1>a, <2>2, <2>4 DEF AccountInv
<1>5. CASE RemoveHeader
  <2>1. h' = h - recnode.datalen
    BY <1>5, <1>b, HeldRemove, NodeFacts, RecordsFit
  <2>2. p = 0 /\ p' = 0 /\ crashes' = crashes
    BY <1>5 DEF RemoveHeader, Pending, histVars
  <2>3. x' = x - recnode.datalen /\ recnode.datalen \in Nat
    BY <1>5, LengthRemoved, NodeFacts, RecordsFit
  <2>4. h' - (x' + p') = h - (x + p)
    BY <1>a, <2>1, <2>2, <2>3
  <2> QED
    BY <1>a, <2>2, <2>4 DEF AccountInv
<1>6. CASE Crash
  <2>1. x' = x /\ c' = c + 1 /\ p' = 0
    BY <1>6, CrashFacts
  <2>2. (c + 1) * m = c * m + m
    BY <1>a
  <2>3. \E d \in -m .. m : h' = (h - p) + d
    <3>1. CASE h' = h /\ p \in 0 .. m
      BY <1>a, <2>1, <3>1
    <3>2. CASE p = 0 /\ \E d, e \in 0 .. m : h' = h + (Excess(0, d) - Excess(0, e))
      <4>1. PICK d \in 0 .. m, e \in 0 .. m : h' = h + (Excess(0, d) - Excess(0, e))
        BY <3>2
      <4>2. h' = h + (d - e) /\ d - e \in -m .. m
        BY <1>a, <1>b, <4>1
      <4> QED
        BY <1>a, <2>1, <3>2, <4>2
    <3>3. 0 \in 0 .. m
      BY <1>a
    <3> QED
      BY <1>6, <3>1, <3>2, <3>3, CrashFacts
  <2>4. PICK d \in -m .. m : h' = (h - p) + d
    BY <2>3
  <2>5. h' \in Int
    BY <1>a, <2>4
  <2> DEFINE y == c * m
             h1 == h'
  <2>6. h1 - (x + 0) \in -(y + m) .. (y + m)
    <3>1. h1 = (h - p) + d /\ h1 \in Int
      BY <2>1, <2>4, <2>5
    <3>2. y \in Nat /\ h - (x + p) \in -y .. y
      BY <1>a
    <3> HIDE DEF y, h1, h, p, x, m
    <3> QED
      BY <1>a, <3>1, <3>2
  <2>7. MaxRec' = MaxRec
    OBVIOUS
  <2> QED
    BY <2>1, <2>2, <2>6 DEF AccountInv
<1> QED
  BY <1>1, <1>2, <1>3, <1>4, <1>5, <1>6 DEF Next, Quiet
-----------------------------------------------------------------------------
LEMMA DebtStep ==
  IInv /\ IInv' /\ PlaceInv /\ AccountInv /\ NumberInv /\ DebtInv /\ [Next]_vars
    => DebtInv'
<1> SUFFICES ASSUME IInv, IInv', PlaceInv, AccountInv, NumberInv, DebtInv, [Next]_vars
             PROVE  DebtInv'
  OBVIOUS
<1> DEFINE u == DATA_REC_UNITLEN
           h == Held(u)
           x == _mgrhdr.current_length
           n == _mgrhdr.nodenum
           c == crashes
           p == Pending
           l == m_handle.length
           o == IF Active /\ pc # "append_header" THEN u ELSE 0
<1>u. u \in Nat \ {0} /\ MaxRec \in u .. 2 * u - 1
  BY SizeAssumption DEF MaxRec
<1>a. /\ h \in Int /\ x \in Nat /\ n \in Nat /\ c \in Nat /\ p \in Nat /\ l \in Nat
      /\ o \in {0, u} /\ u * n \in Nat /\ c * (2 * u - 1) \in Nat
  <2>1. x \in Nat /\ n \in Nat /\ p \in Nat /\ l \in Nat
    BY NodeFacts, RecordsFit DEF Pending
  <2>2. c \in Nat
    BY DEF IInv, TypeOK
  <2>3. h \in Int
    BY <1>u, HeldType
  <2> QED
    BY <1>u, <2>1, <2>2, <2>3
<1>b. u * n + h <= x + p + c * (2 * u - 1) + o
  BY DEF DebtInv
<1>c. /\ DebtInv' <=> u * n' + h' <= x' + p' + c' * (2 * u - 1) + o'
      /\ u * (n + 1) = u * n + u /\ u * (n - 1) = u * n - u
      /\ (c + 1) * (2 * u - 1) = c * (2 * u - 1) + (2 * u - 1)
  BY <1>u, <1>a DEF DebtInv
<1>1. CASE Quiet
  <2>1. h' = h
    BY <1>u, <1>1, QuietFacts
  <2>2. x' = x /\ n' = n /\ c' = c /\ p' = p
    BY <1>1, QuietFacts
  <2>3. o' = o
    BY <1>1, QuietFacts
  <2> HIDE DEF u, h, x, n, c, p, l, o
  <2> QED
    BY <1>b, <1>c, <2>1, <2>2, <2>3
<1>2. CASE NewHeader
  <2>1. h' = h
    BY <1>u, <1>2, HeldNew
  <2>2. x' = x /\ n' = n + 1
    BY <1>2 DEF NewHeader, IInv, TypeOK, Header
  <2>3. p = 0 /\ p' = 0 /\ c' = c
    BY <1>2 DEF NewHeader, Pending, histVars
  <2>4. o = 0 /\ o' = u
    <3>1. pc = "new_header" /\ pc' = "write" /\ m_handle' = m_handle
      BY <1>2 DEF NewHeader, recVars
    <3>2. m_handle # Null
      BY <3>1 DEF IInv, CountInv
    <3> QED
      BY <3>1, <3>2 DEF Active
  <2> HIDE DEF u, h, x, n, c, p, l, o
  <2>5. u * n' = u * n + u /\ c' * (2 * u - 1) = c * (2 * u - 1)
    BY <1>c, <2>2, <2>3
  <2> QED
    BY <1>u, <1>a, <1>b, <1>c, <2>1, <2>2, <2>3, <2>4, <2>5
<1>3. CASE AppendNode
  <2>0. l >= u
    BY <1>3 DEF AppendNode, PlaceInv
  <2>1. h' = h + (l - u)
    <3>1. Excess(u, l) = l - u
      BY <1>u, <1>a, <2>0, ExcessFacts
    <3>2. h' = h + Excess(u, l)
      BY <1>u, <1>3, HeldAppend
    <3> QED
      BY <3>1, <3>2
  <2>2. p = 0 /\ p' = l /\ c' = c /\ x' = x /\ n' = n
    BY <1>3 DEF AppendNode, Pending, histVars, recVars
  <2>3. o = u /\ o' = 0
    <3>1. pc = "append_node" /\ pc' = "append_header"
      BY <1>3 DEF AppendNode
    <3>2. m_handle # Null
      BY <3>1 DEF IInv, CountInv
    <3> QED
      BY <3>1, <3>2 DEF Active
  <2> HIDE DEF u, h, x, n, c, p, l, o
  <2>4. u * n' = u * n /\ c' * (2 * u - 1) = c * (2 * u - 1)
    BY <2>2
  <2> QED
    BY <1>u, <1>a, <1>b, <1>c, <2>0, <2>1, <2>2, <2>3, <2>4
<1>4. CASE AppendHeader
  <2>1. h' = h
    BY <1>u, <1>4, HeldSame
  <2>2. p = l /\ p' = 0 /\ c' = c
    BY <1>4 DEF AppendHeader, Pending, histVars
  <2>3. x' = x + l /\ n' = n
    BY <1>4, LengthAppended
  <2>4. o = 0 /\ o' = 0
    BY <1>4 DEF AppendHeader, Active
  <2> HIDE DEF u, h, x, n, c, p, l, o
  <2>5. u * n' = u * n /\ c' * (2 * u - 1) = c * (2 * u - 1)
    BY <2>2, <2>3
  <2> QED
    BY <1>u, <1>a, <1>b, <1>c, <2>1, <2>2, <2>3, <2>4, <2>5
<1>5. CASE RemoveHeader
  <2> DEFINE r == recnode.datalen
             e == Excess(u, r)
  <2>0. r \in Nat /\ e \in Nat /\ r <= e + u
    <3>1. r \in Nat
      BY NodeFacts, RecordsFit
    <3> QED
      BY <1>u, <3>1 DEF Excess
  <2>1. h' = h - e
    BY <1>u, <1>5, HeldRemove
  <2>2. p = 0 /\ p' = 0 /\ c' = c
    BY <1>5 DEF RemoveHeader, Pending, histVars
  <2>3. x' = x - r /\ n' = n - 1
    BY <1>5, LengthRemoved
  <2>4. o = u /\ o' = u
    <3>1. pc = "remove_header" /\ pc' = "append_node" /\ m_handle' = m_handle
      BY <1>5 DEF RemoveHeader, recVars
    <3>2. m_handle # Null
      BY <3>1 DEF IInv, CountInv
    <3> QED
      BY <3>1, <3>2 DEF Active
  <2> HIDE DEF u, h, x, n, c, p, l, o, r, e
  <2>5. u * n' = u * n - u /\ c' * (2 * u - 1) = c * (2 * u - 1)
    BY <1>c, <2>2, <2>3
  <2> QED
    BY <1>u, <1>a, <1>b, <1>c, <2>0, <2>1, <2>2, <2>3, <2>4, <2>5
<1>6. CASE Crash
  <2>1. x' = x /\ n' = n /\ c' = c + 1 /\ p' = 0
    BY <1>u, <1>6, CrashFacts
  <2>2. o' = 0
    BY <1>u, <1>6, CrashFacts
  <2>3. \E d \in Int : h' = h + d /\ d + p + o <= 2 * u - 1
    <3>1. CASE h' = h /\ p = 0
      <4>1. 0 + p + o <= 2 * u - 1 /\ h' = h + 0
        BY <1>u, <1>a, <3>1
      <4> QED
        BY <4>1
    <3>2. CASE h' = h /\ pc = "append_header" /\ p \in 0 .. MaxRec
      <4>1. o = 0
        BY <3>2
      <4>2. 0 + p + o <= 2 * u - 1 /\ h' = h + 0
        BY <1>u, <1>a, <3>2, <4>1
      <4> QED
        BY <4>2
    <3>3. CASE p = 0 /\ \E d, e \in 0 .. MaxRec : h' = h + (Excess(u, d) - Excess(u, e))
      <4>1. PICK d \in 0 .. MaxRec, e \in 0 .. MaxRec :
              h' = h + (Excess(u, d) - Excess(u, e))
        BY <3>3
      <4>2. d \in Nat /\ e \in Nat /\ d <= 2 * u - 1
        BY <1>u, <4>1
      <4>3. Excess(u, d) \in 0 .. u - 1 /\ Excess(u, e) \in Nat
        BY <1>u, <4>2 DEF Excess
      <4>4. Excess(u, d) - Excess(u, e) \in Int
            /\ (Excess(u, d) - Excess(u, e)) + p + o <= 2 * u - 1
        BY <1>u, <1>a, <3>3, <4>3
      <4> QED
        BY <4>1, <4>4
    <3> QED
      BY <1>u, <1>6, <3>1, <3>2, <3>3, CrashFacts
  <2>4. PICK d \in Int : h' = h + d /\ d + p + o <= 2 * u - 1
    BY <2>3
  <2> HIDE DEF u, h, x, n, c, p, l, o
  <2>5. u * n' = u * n /\ c' * (2 * u - 1) = c * (2 * u - 1) + (2 * u - 1)
    BY <1>c, <2>1
  <2> QED
    BY <1>u, <1>a, <1>b, <1>c, <2>1, <2>2, <2>4, <2>5
<1> QED
  BY <1>1, <1>2, <1>3, <1>4, <1>5, <1>6 DEF Next, Quiet

LEMMA NumberStep ==
  IInv /\ IInv' /\ PlaceInv /\ SumInv /\ [Next]_vars => NumberInv'
<1> SUFFICES ASSUME IInv, IInv', PlaceInv, SumInv, [Next]_vars PROVE NumberInv'
  OBVIOUS
<1>0. AccountInv /\ DebtInv /\ NumberInv
  BY DEF SumInv
<1> DEFINE n == _mgrhdr.nodenum
           x == _mgrhdr.current_length
<1>a. n \in Nat /\ x \in Nat /\ crashes \in Nat /\ MaxCrashes \in Nat
      /\ Capacity \div DATA_REC_UNITLEN \in Int
  BY NodeFacts, BoundAssumption, SizeAssumption DEF IInv, TypeOK
<1>b. MostRecords \in Int
  BY <1>a DEF MostRecords
<1>1. CASE Release
  <2>1. UNCHANGED <<_mgrhdr, crashes, m_handle>> /\ pc = "release" /\ m_handle # Null
    BY <1>1 DEF Release, histVars, IInv, CountInv
  <2>2. MostRecords' = MostRecords
    BY <2>1 DEF MostRecords
  <2>3. CASE x > Capacity
    <3>1. ~ Settled'
      BY <1>1, <2>1, <2>3 DEF Release, Settled, Active
    <3> QED
      BY <1>0, <2>1, <2>2, <3>1 DEF NumberInv
  <2>4. CASE ~ (x > Capacity)
    <3>1. Held(DATA_REC_UNITLEN) \in Nat
      <4>1. DATA_REC_UNITLEN \in Nat /\ n * MaxRec \in Nat
        BY <1>a, SizeAssumption, RecordsFit
      <4>2. Weight(DATA_REC_UNITLEN, nodes, n) \in 0 .. n * MaxRec
        BY <4>1, WeightType
      <4> QED
        BY <2>1, <4>1, <4>2 DEF Held, Removing
    <3>2. DATA_REC_UNITLEN * n + Held(DATA_REC_UNITLEN)
            <= x + 0 + crashes * (2 * DATA_REC_UNITLEN - 1) + DATA_REC_UNITLEN
      BY <1>0, <2>1 DEF DebtInv, Pending, Active
    <3>a. x + 0 = x
      BY <1>a
    <3>b. DATA_REC_UNITLEN * n + Held(DATA_REC_UNITLEN)
            <= x + crashes * (2 * DATA_REC_UNITLEN - 1) + DATA_REC_UNITLEN
      BY <3>2, <3>a
    <3>c. x <= Capacity
      BY <1>a, <2>4, SizeAssumption
    <3>3. n <= Capacity \div DATA_REC_UNITLEN + 1 + 2 * crashes
      <4> DEFINE held == Held(DATA_REC_UNITLEN)
      <4>1. /\ n \in Nat /\ x \in Nat /\ crashes \in Nat /\ held \in Nat /\ x <= Capacity
            /\ DATA_REC_UNITLEN * n + held
                 <= x + crashes * (2 * DATA_REC_UNITLEN - 1) + DATA_REC_UNITLEN
        BY <1>a, <3>1, <3>b, <3>c
      <4> HIDE DEF n, x, held
      <4> QED
        BY <4>1, RoomForOne
    <3>4. n <= MostRecords - 1
      BY <1>a, <3>3 DEF MostRecords
    <3> QED
      BY <1>0, <1>a, <1>b, <2>1, <2>2, <3>4 DEF NumberInv
  <2> QED
    BY <2>3, <2>4
<1>2. CASE Quiet /\ ~ Release
  <2>1. _mgrhdr' = _mgrhdr /\ crashes' = crashes
    BY <1>2, QuietFacts
  <2>2. MostRecords' = MostRecords
    BY <2>1 DEF MostRecords
  <2>3. Settled' => Settled
    <3>1. Active /\ pc # "append_header" <=> (Active /\ pc # "append_header")'
      BY <1>2, QuietFacts
    <3>2. pc' = "append_node" => pc = "append_node"
      BY <1>2 DEF Quiet, NewRecord, NewNode, Write, RemoveShift, RemoveClear,
         RemoveFile, Restart, vars
    <3> QED
      BY <3>1, <3>2 DEF Settled
  <2> QED
    BY <1>0, <2>1, <2>2, <2>3 DEF NumberInv
<1>3. CASE NewHeader
  <2>1. /\ n' = n + 1 /\ x' = x /\ crashes' = crashes
        /\ pc = "new_header" /\ pc' = "write" /\ m_handle' = m_handle /\ m_handle # Null
    BY <1>3 DEF NewHeader, IInv, TypeOK, Header, CountInv, recVars, histVars
  <2>2. MostRecords' = MostRecords
    BY <2>1 DEF MostRecords
  <2>3. Settled /\ ~ Settled'
    BY <2>1 DEF Settled, Active
  <2> QED
    BY <1>0, <1>a, <1>b, <2>1, <2>2, <2>3 DEF NumberInv
<1>4. CASE AppendNode
  <2>1. UNCHANGED <<_mgrhdr, crashes>> /\ Settled
    BY <1>4 DEF AppendNode, Settled, histVars
  <2>2. MostRecords' = MostRecords
    BY <2>1 DEF MostRecords
  <2> QED
    BY <1>0, <1>a, <1>b, <2>1, <2>2 DEF NumberInv
<1>5. CASE AppendHeader
  <2>1. n' = n /\ x' < Word
    BY <1>0, <1>5, LengthAppended
  <2>2. crashes' = crashes /\ Settled
    BY <1>5 DEF AppendHeader, Settled, histVars
  <2>3. MostRecords' = MostRecords
    BY <2>2 DEF MostRecords
  <2> QED
    BY <1>0, <1>a, <1>b, <2>1, <2>2, <2>3 DEF NumberInv
<1>6. CASE RemoveHeader
  <2>1. n' = n - 1 /\ x' \in 0 .. x
    BY <1>0, <1>6, LengthRemoved
  <2>2. crashes' = crashes
    BY <1>6 DEF RemoveHeader, histVars
  <2>3. MostRecords' = MostRecords
    BY <2>2 DEF MostRecords
  <2>4. n <= MostRecords /\ x < Word /\ crashes <= MaxCrashes /\ Word \in Nat
    BY <1>0, SizeAssumption DEF NumberInv
  <2>5. n' <= MostRecords - 1 /\ n' <= MostRecords /\ x' < Word
    BY <1>a, <1>b, <2>1, <2>4
  <2> QED
    BY <2>2, <2>3, <2>4, <2>5 DEF NumberInv
<1>7. CASE Crash
  <2>1. _mgrhdr' = _mgrhdr /\ crashes' = crashes + 1 /\ crashes < MaxCrashes
    BY <1>7 DEF Crash
  <2>2. MostRecords' = MostRecords + 2
    BY <1>a, <2>1 DEF MostRecords
  <2>3. n <= MostRecords /\ x < Word
    BY <1>0 DEF NumberInv
  <2>4. n' <= MostRecords' /\ n' <= MostRecords' - 1 /\ x' < Word /\ crashes' <= MaxCrashes
    BY <1>a, <1>b, <2>1, <2>2, <2>3
  <2> QED
    BY <2>4 DEF NumberInv
<1> QED
  BY <1>1, <1>2, <1>3, <1>4, <1>5, <1>6, <1>7 DEF Next, Quiet
-----------------------------------------------------------------------------
LEMMA InitSum == Init => PlaceInv /\ SumInv
<1> SUFFICES ASSUME Init PROVE PlaceInv /\ SumInv
  OBVIOUS
<1>0. IInv
  BY InitIInv
<1>1. PlaceInv
  BY DEF Init, PlaceInv, Active, Null, Removing
<1>2. /\ _mgrhdr.nodenum = 0 /\ _mgrhdr.current_length = 0 /\ pc = "idle"
      /\ crashes = 0 /\ m_handle = Null
  BY DEF Init
<1>3. ASSUME NEW u \in Nat PROVE Held(u) = 0
  <2>1. Weight(u, nodes, 0) \in 0 .. 0 * MaxRec
    BY <1>0, <1>2, <1>3, WeightType
  <2>2. 0 * MaxRec = 0
    BY RecordsFit
  <2> QED
    BY <1>2, <2>1, <2>2 DEF Held, Removing
<1>4. Pending = 0 /\ ~ Active
  BY <1>2 DEF Pending, Active
<1>5. AccountInv
  <2>1. 0 * MaxRec = 0 /\ Held(0) = 0
    BY <1>3, RecordsFit
  <2>2. 0 \in -0 .. 0
    OBVIOUS
  <2> QED
    BY <1>2, <1>4, <2>1, <2>2 DEF AccountInv
<1>6. DebtInv
  <2>1. DATA_REC_UNITLEN \in Nat /\ Held(DATA_REC_UNITLEN) = 0
    BY <1>3, SizeAssumption
  <2> QED
    BY <1>2, <1>4, <2>1 DEF DebtInv
<1>7. NumberInv
  <2>1. Capacity \div DATA_REC_UNITLEN \in Nat
    BY SizeAssumption
  <2> QED
    BY <1>2, <2>1, SizeAssumption, BoundAssumption DEF NumberInv, MostRecords
<1> QED
  BY <1>1, <1>5, <1>6, <1>7 DEF SumInv

LEMMA SumInvIsInvariant == Spec => [](IInv /\ PlaceInv /\ SumInv)
<1> DEFINE Inv == IInv /\ PlaceInv /\ SumInv
<1>1. Init => Inv
  BY InitIInv, InitSum
<1>2. Inv /\ [Next]_vars => Inv'
  <2> SUFFICES ASSUME Inv, [Next]_vars PROVE Inv'
    OBVIOUS
  <2>1. IInv'
    BY TypeStep, LengthStep, CountStep DEF IInv
  <2>2. PlaceInv'
    BY <2>1, PlaceStep
  <2>3. SumInv'
    BY <2>1, AccountStep, DebtStep, NumberStep DEF SumInv
  <2> QED
    BY <2>1, <2>2, <2>3
<1> HIDE DEF Inv
<1>3. Spec => []Inv
  BY <1>1, <1>2, PTL DEF Spec
<1> QED
  BY <1>3 DEF Inv

LEMMA SumFactsHold == IInv /\ PlaceInv /\ SumInv => LengthAccounted /\ RecordsBounded
<1> SUFFICES ASSUME IInv, PlaceInv, SumInv PROVE LengthAccounted /\ RecordsBounded
  OBVIOUS
<1>1. RecordsBounded
  BY DEF SumInv, NumberInv, MostRecords, RecordsBounded
<1>2. ASSUME pc = "idle"
      PROVE  LET total == SumFunction([i \in Records |-> nodes[i].datalen]) IN
             _mgrhdr.current_length
               \in total - crashes * MaxRec .. total + crashes * MaxRec
  <2> DEFINE total == SumFunction([i \in Records |-> nodes[i].datalen])
  <2>1. [i \in Records |-> nodes[i].datalen]
          = [i \in 1 .. _mgrhdr.nodenum |-> Excess(0, nodes[i].datalen)]
    <3>1. \A i \in 1 .. _mgrhdr.nodenum : nodes[i].datalen \in Nat
      BY NodeFacts, RecordsFit
    <3>2. \A i \in 1 .. _mgrhdr.nodenum : Excess(0, nodes[i].datalen) = nodes[i].datalen
      BY <3>1, ExcessFacts
    <3> QED
      BY <3>2 DEF Records
  <2>2. Held(0) = total
    BY <1>2, <2>1 DEF Held, Weight, Removing
  <2>3. Pending = 0
    BY <1>2 DEF Pending
  <2>4. Held(0) \in Int /\ _mgrhdr.current_length \in Nat /\ crashes * MaxRec \in Nat
    <3>1. Held(0) \in Int
      BY HeldType
    <3>2. crashes \in Nat
      BY DEF IInv, TypeOK
    <3> QED
      BY <3>1, <3>2, NodeFacts, RecordsFit
  <2>5. Held(0) - (_mgrhdr.current_length + 0)
          \in -(crashes * MaxRec) .. crashes * MaxRec
    BY <2>3 DEF SumInv, AccountInv
  <2> HIDE DEF total
  <2>6. _mgrhdr.current_length \in total - crashes * MaxRec .. total + crashes * MaxRec
    BY <2>2, <2>4, <2>5
  <2> QED
    BY <2>6 DEF total
<1>3. LengthAccounted
  BY <1>2 DEF LengthAccounted
<1> QED
  BY <1>1, <1>3

\* However often the process dies, current_length is the sum of the lengths
\* in the nodes up to one record for each death (append, remove_first).
THEOREM LengthStaysAccounted == Spec => []LengthAccounted
  BY SumInvIsInvariant, SumFactsHold, PTL

\* Removing one record for each that is added keeps up with the capacity.
THEOREM RecordsStayBounded == Spec => []RecordsBounded
  BY SumInvIsInvariant, SumFactsHold, PTL
-----------------------------------------------------------------------------
(* The disk.                                                               *)

\* What the constructor leaves of the index file.
BootInv ==
  /\ index = "none" => ~ bootDeath
  /\ boot = "created" => index = "empty" /\ ~ bootDeath
  /\ index = "whole" <=> boot = "running"
  /\ index = "whole" => ~ bootDeath
  /\ index = "empty" /\ boot # "created" => bootDeath
  /\ index = "garbled" \/ boot = "garbled" => bootDeath
  /\ boot = "failed" => index = "none"

StoredInv ==
  /\ stored \in [files -> Nat]
  /\ short \subseteq files
  /\ files \subseteq Nat \ {0}

\* What was counted for a data file is what is in it, but for short writes.
Holds(f, length) ==
  \/ length = stored[f] /\ f \notin short
  \/ length > stored[f] /\ f \in short

Told(node) == Holds(node.data_file, node.datalen) \/ (node.datalen = 0 /\ crashes > 0)

\* The nodes of the closed records tell their lengths; m_handle tells that
\* of the open one, whose node says 0 until append() writes it.
TellInv ==
  ~torn =>
    /\ \A i \in Records :
         (pc \in {"clear", "remove_header"} => i > 1) =>
           Rec(i).data_file = m_handle.file \/ Told(Rec(i))
    /\ m_handle # Null => m_handle.file \in files /\ Holds(m_handle.file, m_handle.length)
    /\ Active /\ pc # "append_header" => Rec(_mgrhdr.nodenum).datalen = 0
    /\ pc = "append_header" => nodes[_mgrhdr.nodenum].datalen = m_handle.length
-----------------------------------------------------------------------------
\* Every step of the disk is a step of the manager, or none of its.
LEMMA DiskStep == [DNext]_dvars => [Next]_vars
<1> SUFFICES ASSUME [DNext]_dvars PROVE Next \/ UNCHANGED vars
  OBVIOUS
<1>1. CASE Running
  <2>1. DNewRecord \/ DWrite \/ DRemoveFile \/ DCrash \/ DIndex
    BY <1>1 DEF Running
  <2> QED
    BY <2>1 DEF DNewRecord, DWrite, DRemoveFile, DCrash, DIndex, Next
<1>2. CASE Create \/ WriteHeader \/ ReadNothing \/ WriteGarbage \/ Death
  BY <1>2 DEF Create, WriteHeader, ReadNothing, WriteGarbage, Death
<1>3. CASE UNCHANGED dvars
  BY <1>3 DEF dvars
<1> QED
  BY <1>1, <1>2, <1>3 DEF DNext

\* With the disk around it the manager is still the manager: all that is
\* proved of CFilesysMgr holds of its part of FilesysDisk.
THEOREM DiskKeepsManager == DSpec => Spec
<1>1. DInit => Init
  BY DEF DInit
<1> QED
  BY <1>1, DiskStep, PTL DEF DSpec, Spec

LEMMA BootStep == BootInv /\ [DNext]_dvars => BootInv'
<1> SUFFICES ASSUME BootInv, [DNext]_dvars PROVE BootInv'
  OBVIOUS
<1>1. CASE Create
  BY <1>1 DEF Create, BootInv
<1>2. CASE WriteHeader
  BY <1>2 DEF WriteHeader, BootInv
<1>3. CASE ReadNothing
  BY <1>3 DEF ReadNothing, BootInv
<1>4. CASE WriteGarbage
  BY <1>4 DEF WriteGarbage, BootInv
<1>5. CASE Death
  BY <1>5 DEF Death, BootInv
<1>6. CASE Running \/ UNCHANGED dvars
  BY <1>6 DEF Running, dvars, diskVars, BootInv
<1> QED
  BY <1>1, <1>2, <1>3, <1>4, <1>5, <1>6 DEF DNext

\* An index file whose header was not written before the process died is
\* never whole again, and no other way leads to a header nobody wrote.
THEOREM EmptyIndexStays == DSpec => []EmptyIndexIsFinal
<1>1. DInit => BootInv
  BY DEF DInit, BootInv
<1>2. BootInv => EmptyIndexIsFinal
  BY DEF BootInv, EmptyIndexIsFinal
<1> QED
  BY <1>1, <1>2, BootStep, PTL DEF DSpec
-----------------------------------------------------------------------------
LEMMA StoredStep == IInv /\ TypeOK' /\ StoredInv /\ [DNext]_dvars => StoredInv'
<1> SUFFICES ASSUME IInv, TypeOK', StoredInv, [DNext]_dvars PROVE StoredInv'
  OBVIOUS
<1>a. /\ stored \in [files -> Nat] /\ short \subseteq files
      /\ files \subseteq Nat \ {0}
  BY DEF StoredInv
<1>b. m_handle \in [file : Nat, length : Nat] /\ m_handle' \in [file : Nat, length : Nat]
  BY DEF IInv, TypeOK
<1>1. CASE DNewRecord
  <2>1. PICK t \in 1 .. MaxIndex + MaxCrashes + 2 : files' = files \cup {t}
    BY <1>1 DEF DNewRecord, NewRecord
  <2>2. /\ stored' = [f \in files' |-> IF f \in files THEN stored[f] ELSE 0]
        /\ short' = short \cap files
    BY <1>1 DEF DNewRecord
  <2>3. t \in Nat \ {0}
    BY BoundAssumption
  <2> QED
    BY <1>a, <2>1, <2>2, <2>3 DEF StoredInv
<1>2. CASE DWrite
  <2>1. UNCHANGED files
    BY <1>2 DEF DWrite, Write
  <2>2. CASE m_handle.file \in files
    <3>1. PICK n \in 0 .. m_handle'.length - m_handle.length :
            /\ stored' = [stored EXCEPT ![m_handle.file] = @ + n]
            /\ short' = IF n < m_handle'.length - m_handle.length
                          THEN short \cup {m_handle.file} ELSE short
      BY <1>2, <2>2 DEF DWrite
    <3>2. n \in Nat
      BY <1>b
    <3>3. stored[m_handle.file] + n \in Nat
      <4>1. stored[m_handle.file] \in Nat
        BY <1>a, <2>2
      <4> QED
        BY <3>2, <4>1
    <3>4. stored' \in [files -> Nat]
      BY <1>a, <3>1, <3>3
    <3>5. short' \subseteq files
      BY <1>a, <2>2, <3>1
    <3> QED
      BY <1>a, <2>1, <3>4, <3>5 DEF StoredInv
  <2>3. CASE m_handle.file \notin files
    BY <1>a, <1>2, <2>1, <2>3 DEF DWrite, StoredInv
  <2> QED
    BY <2>2, <2>3
<1>3. CASE DRemoveFile
  <2>1. /\ files' \subseteq files
        /\ stored' = [f \in files' |-> stored[f]]
        /\ short' = short \cap files'
    BY <1>3 DEF DRemoveFile, RemoveFile
  <2> QED
    BY <1>a, <2>1 DEF StoredInv
<1>4. CASE DCrash
  <2>1. UNCHANGED files /\ UNCHANGED short
    BY <1>4 DEF DCrash, Crash
  <2>2. stored' \in [files -> Nat]
    <3>1. CASE m_handle.file \in files /\ pc \in {"idle", "write", "release"}
      <4>1. PICK n \in 0 .. stored[m_handle.file] :
              stored' = [stored EXCEPT ![m_handle.file] = n]
        BY <1>4, <3>1 DEF DCrash
      <4>2. n \in Nat
        BY <1>a, <3>1
      <4> QED
        BY <1>a, <4>1, <4>2
    <3>2. CASE ~ (m_handle.file \in files /\ pc \in {"idle", "write", "release"})
      BY <1>a, <1>4, <3>2 DEF DCrash
    <3> QED
      BY <3>1, <3>2
  <2> QED
    BY <1>a, <2>1, <2>2 DEF StoredInv
<1>5. CASE DIndex
  <2>1. UNCHANGED <<stored, short>>
    BY <1>5 DEF DIndex
  <2>2. UNCHANGED files
    BY <1>5 DEF DIndex, NewNode, NewHeader, Release, RemoveShift, RemoveClear,
       RemoveHeader, AppendNode, AppendHeader, Restart
  <2> QED
    BY <1>a, <2>1, <2>2 DEF StoredInv
<1>6. CASE Create \/ WriteHeader \/ ReadNothing \/ WriteGarbage \/ Death
  BY <1>a, <1>6 DEF Create, WriteHeader, ReadNothing, WriteGarbage, Death,
     vars, StoredInv
<1>7. CASE UNCHANGED dvars
  BY <1>a, <1>7 DEF dvars, vars, StoredInv
<1> QED
  BY <1>1, <1>2, <1>3, <1>4, <1>5, <1>6, <1>7 DEF DNext, Running

\* The steps that touch no data file and no record but move them in the
\* index.
LEMMA TellMoves ==
  ASSUME IInv, IInv', FileInv, FileInv', StoredInv, TellInv, ~torn, ~torn',
         DIndex \/ UNCHANGED <<vars, stored, short>>
  PROVE  TellInv'
<1> USE DEF Records
<1>0. TypeOK /\ LengthInv /\ CountInv /\ RecordsInv /\ OpenInv /\ NewInv /\ ShiftInv
  BY DEF IInv, FileInv
<1>a. /\ _mgrhdr \in Header /\ m_handle \in [file : Nat, length : Nat]
      /\ nodes \in Seq(Node) /\ Len(nodes) \in Nat /\ m_node \in Node /\ pc \in Pcs
  BY <1>0 DEF TypeOK
<1>b. _mgrhdr.nodenum \in Nat /\ _mgrhdr.nodenum <= Len(nodes)
  BY <1>0, <1>a DEF Header, CountInv
<1>c. UNCHANGED <<stored, short>>
  BY DEF DIndex
<1>d. /\ \A i \in Records :
           (pc \in {"clear", "remove_header"} => i > 1) =>
             Rec(i).data_file = m_handle.file \/ Told(Rec(i))
      /\ m_handle # Null =>
           m_handle.file \in files /\ Holds(m_handle.file, m_handle.length)
      /\ Active /\ pc # "append_header" => Rec(_mgrhdr.nodenum).datalen = 0
      /\ pc = "append_header" => nodes[_mgrhdr.nodenum].datalen = m_handle.length
  BY DEF TellInv
<1>1. CASE NewNode
  <2>1. /\ pc = "new_node" /\ pc' = "new_header"
        /\ UNCHANGED <<_mgrhdr, files, m_handle, m_node, crashes>>
    BY <1>1 DEF NewNode, recVars, histVars
  <2>2. \A i \in 1 .. _mgrhdr.nodenum : nodes'[i] = nodes[i]
    <3>1. /\ Len(nodes') = IF _mgrhdr.nodenum + 1 > Len(nodes)
                             THEN _mgrhdr.nodenum + 1 ELSE Len(nodes)
          /\ \A j \in 1 .. Len(nodes') :
               nodes'[j] = IF j = _mgrhdr.nodenum + 1 THEN m_node ELSE nodes[j]
      BY <1>1, NewNodeFacts
    <3>2. \A i \in 1 .. _mgrhdr.nodenum :
            i \in 1 .. Len(nodes') /\ i # _mgrhdr.nodenum + 1
      BY <1>a, <1>b, <3>1
    <3> QED
      BY <3>1, <3>2
  <2>3. \A i \in 1 .. _mgrhdr.nodenum : Rec(i)' = Rec(i)
    BY <2>1, <2>2 DEF Rec, Removing
  <2>4. ~ Active'
    BY <2>1 DEF Active
  <2> QED
    BY <1>c, <1>d, <2>1, <2>3, <2>4 DEF TellInv, Told, Holds
<1>2. CASE NewHeader
  <2>0. PICK n \in Nat : n = _mgrhdr.nodenum
    BY <1>b
  <2>1. _mgrhdr'.nodenum = n + 1
    BY <2>0, <1>a, <1>2 DEF NewHeader, Header
  <2>2. /\ pc = "new_header" /\ pc' = "write"
        /\ UNCHANGED <<nodes, files, m_handle, m_node, crashes>>
    BY <1>2 DEF NewHeader, recVars, histVars
  <2>3. /\ nodes[n + 1] = m_node /\ m_node.data_file = m_handle.file
        /\ m_node.datalen = 0
    BY <2>0, <1>0, <2>2 DEF NewInv, LengthInv
  <2>4. \A i \in 1 .. n + 1 : i \in 1 .. n \/ i = n + 1
    BY <1>b
  <2>5. /\ \A i \in 1 .. n : Rec(i)' = Rec(i)
        /\ Rec(n + 1)' = m_node
    <3>1. \A i \in 1 .. n + 1 : Rec(i)' = nodes[i] /\ Rec(i) = nodes[i]
      BY <2>2 DEF Rec, Removing
    <3>2. Rec(n + 1)' = nodes[n + 1]
      BY <2>2 DEF Rec, Removing
    <3> QED
      BY <2>3, <2>4, <3>1, <3>2
  <2>6. \A i \in 1 .. n : Rec(i)'.data_file = m_handle.file \/ Told(Rec(i))'
    BY <2>0, <1>c, <1>d, <2>2, <2>5 DEF Told, Holds
  <2>7. \A i \in 1 .. n + 1 : Rec(i)'.data_file = m_handle.file \/ Told(Rec(i))'
    <3> SUFFICES ASSUME NEW i \in 1 .. n + 1
                 PROVE  Rec(i)'.data_file = m_handle.file \/ Told(Rec(i))'
      OBVIOUS
    <3>1. CASE i \in 1 .. n
      BY <2>6, <3>1
    <3>2. CASE i = n + 1
      <4>1. Rec(i)' = m_node
        BY <2>5, <3>2
      <4> QED
        BY <2>3, <4>1
    <3> QED
      BY <2>4, <3>1, <3>2
  <2>8. Rec(_mgrhdr.nodenum)'.datalen = 0
    BY <2>1, <2>2, <2>3 DEF Rec, Removing
  <2> QED
    BY <1>c, <1>d, <2>1, <2>2, <2>7, <2>8 DEF TellInv, Holds
<1>3. CASE Release
  <2>1. /\ pc = "release" /\ pc' \in {"shift", "append_node"}
        /\ UNCHANGED <<_mgrhdr, nodes, files, m_handle, m_node, crashes>>
    BY <1>3 DEF Release, histVars
  <2>2. \A i \in 1 .. _mgrhdr.nodenum : Rec(i)' = Rec(i)
    <3>1. pc' = "shift" => slot' = 1 /\ recnode' = nodes[1]
      BY <1>3 DEF Release
    <3> QED
      BY <1>b, <2>1, <3>1 DEF Rec, Removing
  <2>3. Active /\ _mgrhdr.nodenum \in 1 .. _mgrhdr.nodenum
    BY <1>0, <1>b, <2>1 DEF CountInv, Active
  <2> QED
    BY <1>c, <1>d, <2>1, <2>2, <2>3 DEF TellInv, Told, Holds
<1>4. CASE RemoveShift
  <2>1. /\ pc = "shift" /\ pc' \in {"shift", "rm"}
        /\ UNCHANGED <<_mgrhdr, files, m_handle, m_node, crashes>>
    BY <1>4 DEF RemoveShift, histVars
  <2>2. \A i \in 1 .. _mgrhdr.nodenum : Rec(i)' = Rec(i)
    BY <1>4, RecShift
  <2>3. Active /\ _mgrhdr.nodenum \in 1 .. _mgrhdr.nodenum
    BY <1>0, <1>b, <2>1 DEF CountInv, Active, Removing
  <2> QED
    BY <1>c, <1>d, <2>1, <2>2, <2>3 DEF TellInv, Told, Holds
<1>5. CASE RemoveClear
  <2>1. /\ pc = "clear" /\ pc' = "remove_header"
        /\ UNCHANGED <<_mgrhdr, files, m_handle, m_node, crashes>>
    BY <1>5 DEF RemoveClear, recVars, histVars
  <2>2. \A i \in 1 .. _mgrhdr.nodenum : Rec(i)' = Rec(i)
    BY <1>0, <1>5, RecClear
  <2>3. Active /\ _mgrhdr.nodenum \in 1 .. _mgrhdr.nodenum
    BY <1>0, <1>b, <2>1 DEF CountInv, Active, Removing
  <2> QED
    BY <1>c, <1>d, <2>1, <2>2, <2>3 DEF TellInv, Told, Holds
<1>6. CASE RemoveHeader
  <2>0. PICK n \in Nat : n = _mgrhdr.nodenum
    BY <1>b
  <2>1. /\ pc = "remove_header" /\ pc' = "append_node"
        /\ UNCHANGED <<files, m_handle, m_node, crashes>>
    BY <1>6 DEF RemoveHeader, recVars, histVars
  <2>2. /\ _mgrhdr'.nodenum = n - 1 /\ n >= 2 /\ m_handle # Null
        /\ \A i \in 1 .. n - 1 : i + 1 \in 1 .. n /\ i + 1 > 1 /\ Rec(i)' = Rec(i + 1)
    BY <2>0, <1>0, <1>6, RecHeader
  <2>3. n - 1 \in 1 .. n - 1 /\ n - 1 + 1 = n
    BY <1>b, <2>2
  <2>4. \A i \in 1 .. n - 1 : Rec(i)'.data_file = m_handle.file \/ Told(Rec(i))'
    BY <2>0, <1>c, <1>d, <2>1, <2>2 DEF Told, Holds
  <2>5. Rec(_mgrhdr.nodenum)'.datalen = 0
    <3>1. Rec(n).datalen = 0
      BY <2>0, <1>d, <2>1, <2>2 DEF Active
    <3>2. Rec(_mgrhdr.nodenum)' = Rec(n - 1)'
      BY <2>1, <2>2 DEF Rec, Removing
    <3> QED
      BY <2>2, <2>3, <3>1, <3>2
  <2> QED
    BY <1>c, <1>d, <2>1, <2>2, <2>4, <2>5 DEF TellInv, Holds
<1>7. CASE AppendNode
  <2>0. PICK n \in Nat : n = _mgrhdr.nodenum
    BY <1>b
  <2>1. /\ pc = "append_node" /\ pc' = "append_header" /\ m_handle # Null
        /\ UNCHANGED <<_mgrhdr, files, m_handle, m_node, crashes>>
    BY <1>0, <1>7 DEF AppendNode, recVars, histVars, CountInv
  <2>2. n \in 1 .. Len(nodes) /\ Len(nodes') = Len(nodes)
    BY <2>0, <1>7, AppendNodeFacts
  <2>3. \A i \in 1 .. n : i # n => Rec(i)' = Rec(i)
    <3>1. \A i \in 1 .. n : i \in 1 .. Len(nodes')
      BY <1>a, <1>b, <2>2
    <3>2. \A i \in 1 .. n : i # n => nodes'[i] = nodes[i]
      BY <2>0, <1>7, <3>1, AppendNodeFacts
    <3> QED
      BY <2>1, <3>2 DEF Rec, Removing
  <2>4. nodes'[n] = [m_node EXCEPT !.datalen = m_handle.length]
    BY <2>0, <1>7, <2>2, AppendNodeFacts
  <2>5. nodes'[n].datalen = m_handle.length /\ nodes'[n].data_file = m_node.data_file
    BY <1>a, <2>4 DEF Node
  <2>6. Rec(n)' = nodes'[n] /\ m_node.data_file = m_handle.file
    BY <1>0, <2>1 DEF Rec, Removing, OpenInv, Active
  <2>7. \A i \in 1 .. n : Rec(i)'.data_file = m_handle.file \/ Told(Rec(i))'
    <3> SUFFICES ASSUME NEW i \in 1 .. n
                 PROVE  Rec(i)'.data_file = m_handle.file \/ Told(Rec(i))'
      OBVIOUS
    <3>1. CASE i = n
      <4>1. Rec(i)' = nodes'[n]
        BY <2>6, <3>1
      <4> QED
        BY <2>5, <2>6, <4>1
    <3>2. CASE i # n
      BY <2>0, <1>c, <1>d, <2>1, <2>3, <3>2 DEF Told, Holds
    <3> QED
      BY <3>1, <3>2
  <2> QED
    BY <2>0, <1>c, <1>d, <2>1, <2>5, <2>7 DEF TellInv, Holds
<1>8. CASE AppendHeader
  <2>0. PICK n \in Nat : n = _mgrhdr.nodenum
    BY <1>b
  <2>1. _mgrhdr'.nodenum = n
    BY <2>0, <1>a, <1>8 DEF AppendHeader, Header
  <2>2. /\ pc = "append_header" /\ pc' = "idle" /\ m_handle' = Null
        /\ UNCHANGED <<nodes, files, crashes>>
    BY <1>8 DEF AppendHeader, histVars
  <2>3. /\ \A i \in 1 .. n : Rec(i)' = Rec(i)
        /\ Rec(n) = nodes[n] /\ n \in 1 .. n /\ Active /\ m_handle # Null
    BY <2>0, <1>0, <1>b, <2>2 DEF Rec, Removing, Active, CountInv
  <2>4. \A i \in 1 .. n : Told(Rec(i))
    <3> SUFFICES ASSUME NEW i \in 1 .. n PROVE Told(Rec(i))
      OBVIOUS
    <3>1. CASE Rec(i).data_file = m_handle.file
      <4>1. i = n
        BY <2>0, <1>0, <2>3, <3>1 DEF OpenInv, RecordsInv
      <4> QED
        BY <2>0, <1>d, <2>2, <2>3, <3>1, <4>1 DEF Told
    <3>2. CASE Rec(i).data_file # m_handle.file
      BY <2>0, <1>d, <2>2, <3>2
    <3> QED
      BY <3>1, <3>2
  <2>5. \A i \in 1 .. n : Told(Rec(i))'
    BY <1>c, <2>2, <2>3, <2>4 DEF Told, Holds
  <2> QED
    BY <2>1, <2>2, <2>5 DEF TellInv, Active
<1>9. CASE Restart
  <2>1. /\ _mgrhdr' = _mgrhdr /\ pc = "down" /\ pc' = "idle"
        /\ UNCHANGED <<nodes, files, m_handle, m_node, crashes>>
    BY <1>0, <1>9 DEF Restart, recVars, histVars, CountInv
  <2>2. \A i \in 1 .. _mgrhdr.nodenum : Rec(i)' = Rec(i)
    BY <2>1 DEF Rec, Removing
  <2>3. Rec(_mgrhdr.nodenum)' = Rec(_mgrhdr.nodenum)
    BY <2>1 DEF Rec, Removing
  <2> QED
    BY <1>c, <1>d, <2>1, <2>2, <2>3 DEF TellInv, Told, Holds, Active
<1>10. CASE UNCHANGED <<vars, stored, short>>
  <2>1. UNCHANGED <<_mgrhdr, nodes, files, m_handle, m_node, recnode, slot, pc, crashes>>
    BY <1>10 DEF vars, recVars, histVars
  <2> QED
    BY <1>c, <1>d, <2>1 DEF TellInv, Told, Holds, Active, Rec
<1> QED
  BY <1>1, <1>2, <1>3, <1>4, <1>5, <1>6, <1>7, <1>8, <1>9, <1>10 DEF DIndex

\* The steps that make, fill, remove or cut a data file.
LEMMA TellData ==
  ASSUME IInv, IInv', FileInv, FileInv', StoredInv, TellInv, ~torn, ~torn',
         DNewRecord \/ DWrite \/ DRemoveFile \/ DCrash
  PROVE  TellInv'
<1> USE DEF Records
<1>0. TypeOK /\ LengthInv /\ CountInv /\ RecordsInv /\ OpenInv /\ NewInv /\ ShiftInv
  BY DEF IInv, FileInv
<1>a. /\ _mgrhdr \in Header /\ m_handle \in [file : Nat, length : Nat]
      /\ nodes \in Seq(Node) /\ Len(nodes) \in Nat /\ m_node \in Node /\ pc \in Pcs
      /\ crashes \in Nat
  BY <1>0 DEF TypeOK
<1>b. /\ _mgrhdr.nodenum \in Nat /\ _mgrhdr.nodenum <= Len(nodes)
      /\ m_handle.file \in Nat /\ m_handle.length \in Nat
  BY <1>0, <1>a DEF Header, CountInv
<1>c. /\ stored \in [files -> Nat] /\ short \subseteq files
      /\ files \subseteq Nat \ {0}
  BY DEF StoredInv
<1>d. /\ \A i \in Records :
           (pc \in {"clear", "remove_header"} => i > 1) =>
             Rec(i).data_file = m_handle.file \/ Told(Rec(i))
      /\ m_handle # Null =>
           m_handle.file \in files /\ Holds(m_handle.file, m_handle.length)
      /\ Active /\ pc # "append_header" => Rec(_mgrhdr.nodenum).datalen = 0
      /\ pc = "append_header" => nodes[_mgrhdr.nodenum].datalen = m_handle.length
  BY DEF TellInv
<1>e. \A i \in 1 .. _mgrhdr.nodenum :
        (pc \in {"clear", "remove_header"} => i > 1) => Rec(i).data_file \in files
  BY <1>0 DEF RecordsInv
<1>1. CASE DNewRecord
  <2>1. PICK t \in 1 .. MaxIndex + MaxCrashes + 2 :
          /\ t \notin files /\ files' = files \cup {t}
          /\ m_handle' = [file |-> t, length |-> 0]
    BY <1>1 DEF DNewRecord, NewRecord, NextName
  <2>2. /\ pc = "idle" /\ pc' = "new_node" /\ m_handle = Null
        /\ UNCHANGED <<_mgrhdr, nodes, crashes>>
    BY <1>1 DEF DNewRecord, NewRecord, histVars
  <2>3. /\ stored' = [f \in files' |-> IF f \in files THEN stored[f] ELSE 0]
        /\ short' = short \cap files
    BY <1>1 DEF DNewRecord
  <2>4. \A i \in 1 .. _mgrhdr.nodenum : Rec(i)' = Rec(i)
    BY <2>2 DEF Rec, Removing
  <2>5. \A i \in 1 .. _mgrhdr.nodenum : Told(Rec(i)) /\ Rec(i).data_file \in files
    BY <1>c, <1>d, <1>e, <2>2 DEF Null, NONE
  <2>6. \A i \in 1 .. _mgrhdr.nodenum : Told(Rec(i))'
    BY <2>1, <2>2, <2>3, <2>4, <2>5 DEF Told, Holds
  <2>7. m_handle'.file \in files' /\ Holds(m_handle.file, m_handle.length)'
    BY <1>c, <2>1, <2>3 DEF Holds
  <2> QED
    BY <2>2, <2>6, <2>7 DEF TellInv, Active
<1>2. CASE DWrite
  <2>1. /\ pc \in {"write", "idle"} /\ pc' \in {"release", "idle"}
        /\ m_handle # Null
        /\ UNCHANGED <<_mgrhdr, nodes, files, crashes>>
    BY <1>0, <1>2 DEF DWrite, Write, CountInv, histVars
  <2>2. PICK size \in 1 .. MaxSize :
          m_handle' = [m_handle EXCEPT !.length = @ + size]
    BY <1>2 DEF DWrite, Write
  <2>3. /\ m_handle'.file = m_handle.file
        /\ m_handle'.length = m_handle.length + size
    BY <1>a, <2>2
  <2>4. m_handle.file \in files
    BY <1>d, <2>1
  <2>5. PICK n \in 0 .. m_handle'.length - m_handle.length :
          /\ stored' = [stored EXCEPT ![m_handle.file] = @ + n]
          /\ short' = IF n < m_handle'.length - m_handle.length
                        THEN short \cup {m_handle.file} ELSE short
    BY <1>2, <2>4 DEF DWrite
  <2>6. size \in Nat /\ n \in Nat /\ n <= size /\ m_handle'.length - m_handle.length = size
    BY <1>b, <2>3, SizeAssumption
  <2>7. stored'[m_handle.file] = stored[m_handle.file] + n /\ stored[m_handle.file] \in Nat
    BY <1>c, <2>4, <2>5
  <2>8. short' = IF n < size THEN short \cup {m_handle.file} ELSE short
    BY <2>5, <2>6
  <2>9. Holds(m_handle.file, m_handle.length)'
    <3>1. Holds(m_handle.file, m_handle.length)
      BY <1>d, <2>1
    <3>2. CASE n < size
      <4>1. m_handle.file \in short' /\ stored[m_handle.file] <= m_handle.length
        BY <1>b, <2>7, <2>8, <3>1, <3>2 DEF Holds
      <4> QED
        BY <1>b, <2>3, <2>6, <2>7, <3>2, <4>1 DEF Holds
    <3>3. CASE n = size
      <4>1. short' = short
        BY <2>6, <2>8, <3>3
      <4> QED
        BY <1>b, <2>3, <2>6, <2>7, <3>1, <3>3, <4>1 DEF Holds
    <3> QED
      BY <2>6, <3>2, <3>3
  <2>10. \A i \in 1 .. _mgrhdr.nodenum : Rec(i)' = Rec(i)
    BY <2>1 DEF Rec, Removing
  <2>11. \A f \in files : f # m_handle.file =>
           stored'[f] = stored[f] /\ (f \in short' <=> f \in short)
    BY <1>c, <2>5
  <2>12. \A i \in 1 .. _mgrhdr.nodenum : Rec(i)'.data_file = m_handle.file \/ Told(Rec(i))'
    BY <1>d, <1>e, <2>1, <2>10, <2>11 DEF Told, Holds
  <2>13. Rec(_mgrhdr.nodenum)' = Rec(_mgrhdr.nodenum)
    BY <2>1 DEF Rec, Removing
  <2>14. Rec(_mgrhdr.nodenum).datalen = 0
    BY <1>d, <2>1 DEF Active
  <2> QED
    BY <2>1, <2>3, <2>4, <2>9, <2>12, <2>13, <2>14 DEF TellInv
<1>3. CASE DRemoveFile
  <2>1. /\ pc = "rm" /\ pc' = "clear"
        /\ files' \subseteq files /\ files \ {recnode.data_file} \subseteq files'
        /\ UNCHANGED <<_mgrhdr, nodes, m_handle, m_node, recnode, slot, crashes>>
    BY <1>3 DEF DRemoveFile, RemoveFile, recVars, histVars
  <2>2. /\ stored' = [f \in files' |-> stored[f]]
        /\ short' = short \cap files'
    BY <1>3 DEF DRemoveFile
  <2>3. \A i \in 1 .. _mgrhdr.nodenum : Rec(i)' = Rec(i)
    BY <2>1 DEF Rec, Removing
  <2>4. OldestIsClosed
    BY ClosedByInv
  <2>5. _mgrhdr.nodenum >= 2 /\ recnode.data_file # m_handle.file /\ m_handle # Null
    BY <1>0, <2>1, <2>4 DEF OldestIsClosed, Removing, CountInv
  <2>6. m_handle.file \in files'
    BY <1>d, <2>1, <2>5
  <2>7. Rec(1) = recnode /\ 1 \in 1 .. _mgrhdr.nodenum
    BY <1>b, <2>1, <2>5 DEF Rec, Removing
  <2>8. \A i \in 1 .. _mgrhdr.nodenum : i > 1 => Rec(i).data_file \in files'
    BY <1>0, <1>e, <2>1, <2>7 DEF RecordsInv
  <2>9. \A i \in 1 .. _mgrhdr.nodenum :
          i > 1 => Rec(i)'.data_file = m_handle.file \/ Told(Rec(i))'
    BY <1>d, <2>1, <2>2, <2>3, <2>8 DEF Told, Holds
  <2>10. Holds(m_handle.file, m_handle.length)'
    BY <1>d, <2>1, <2>2, <2>5, <2>6 DEF Holds
  <2>11. Rec(_mgrhdr.nodenum)' = Rec(_mgrhdr.nodenum)
    BY <2>1 DEF Rec, Removing
  <2>12. Rec(_mgrhdr.nodenum).datalen = 0
    BY <1>d, <2>1, <2>5 DEF Active
  <2> QED
    BY <2>1, <2>6, <2>9, <2>10, <2>11, <2>12 DEF TellInv
<1>4. CASE DCrash
  <2>1. /\ pc' = "down" /\ m_handle' = Null /\ crashes' = crashes + 1
        /\ UNCHANGED <<_mgrhdr, nodes, files, short>>
    BY <1>4 DEF DCrash, Crash
  <2>2. pc \notin Removing \/ (pc = "shift" /\ slot <= 1)
    <3>1. ~ (torn \/ pc \in {"clear", "rm", "remove_header"}
                  \/ (pc = "shift" /\ slot > 1))
      BY <1>4, Zenon DEF DCrash, Crash
    <3>2. slot \in Nat
      BY <1>0 DEF TypeOK
    <3> QED
      BY <3>1, <3>2 DEF Removing
  <2>3. \A i \in 1 .. _mgrhdr.nodenum : Rec(i) = nodes[i]
    BY <1>0, <1>a, <1>b, <2>2 DEF ShiftInv, CountInv, Rec, Removing
  <2>4. \A i \in 1 .. _mgrhdr.nodenum : Rec(i)' = Rec(i)
    BY <2>1, <2>3 DEF Rec, Removing
  <2>5. \A f \in files : f # m_handle.file => stored'[f] = stored[f]
    <3>1. CASE m_handle.file \in files /\ pc \in {"idle", "write", "release"}
      BY <1>4, <1>c, <3>1 DEF DCrash
    <3>2. CASE ~ (m_handle.file \in files /\ pc \in {"idle", "write", "release"})
      BY <1>4, <3>2 DEF DCrash
    <3> QED
      BY <3>1, <3>2
  <2>6. ASSUME NEW i \in 1 .. _mgrhdr.nodenum
        PROVE  Told(Rec(i))'
    <3>1. Rec(i).data_file \in files /\ (Rec(i).data_file = m_handle.file \/ Told(Rec(i)))
      BY <1>d, <1>e, <2>2 DEF Removing
    <3>2. CASE Rec(i).data_file # m_handle.file
      <4>1. Told(Rec(i))
        BY <3>1, <3>2
      <4>2. crashes' > 0
        BY <1>a, <2>1
      <4> QED
        BY <2>1, <2>4, <2>5, <3>1, <3>2, <4>1, <4>2 DEF Told, Holds
    <3>3. CASE Rec(i).data_file = m_handle.file
      <4>1. m_handle # Null
        BY <1>c, <3>1, <3>3 DEF Null, NONE
      <4>2. Active
        <5>1. pc \notin Removing => Rec(i) = nodes[i]
          BY DEF Rec
        <5> QED
          BY <1>0, <3>3, <4>1, <5>1 DEF NewInv, Active, Removing
      <4>3. _mgrhdr.nodenum \in 1 .. _mgrhdr.nodenum
        BY <1>b
      <4>4. i = _mgrhdr.nodenum
        BY <1>0, <3>3, <4>2, <4>3 DEF OpenInv, RecordsInv
      <4>5. CASE pc # "append_header"
        <5>1. Rec(i).datalen = 0
          BY <1>d, <4>2, <4>4, <4>5
        <5>2. crashes' > 0
          BY <1>a, <2>1
        <5>3. Rec(i)'.datalen = 0
          BY <2>4, <5>1
        <5> QED
          BY <5>2, <5>3 DEF Told
      <4>6. CASE pc = "append_header"
        <5>1. Rec(i).datalen = m_handle.length
          BY <1>d, <2>3, <4>4, <4>6
        <5>2. UNCHANGED stored
          BY <1>4, <4>6 DEF DCrash
        <5>3. Holds(Rec(i).data_file, Rec(i).datalen)
          BY <1>d, <3>3, <4>1, <5>1
        <5>4. Holds(Rec(i).data_file, Rec(i).datalen)'
          BY <2>1, <2>4, <5>2, <5>3 DEF Holds
        <5> QED
          BY <5>4 DEF Told
      <4> QED
        BY <4>5, <4>6
    <3> QED
      BY <3>2, <3>3
  <2> QED
    BY <2>1, <2>6 DEF TellInv, Active
<1> QED
  BY <1>1, <1>2, <1>3, <1>4

LEMMA TellStep ==
  IInv /\ IInv' /\ FileInv /\ FileInv' /\ StoredInv /\ TellInv /\ [DNext]_dvars
    => TellInv'
<1> SUFFICES ASSUME IInv, IInv', FileInv, FileInv', StoredInv, TellInv,
                    [DNext]_dvars, ~torn'
             PROVE  TellInv'
  BY DEF TellInv
<1>1. ~torn
  <2>1. [Next]_vars
    BY DiskStep
  <2>2. torn \in BOOLEAN
    BY DEF IInv, TypeOK
  <2> QED
    BY <2>1, <2>2 DEF Next, vars, histVars, recVars, NewRecord, NewNode,
       NewHeader, Write, Release, RemoveShift, RemoveClear, RemoveFile,
       RemoveHeader, AppendNode, AppendHeader, Crash, Restart
<1>2. CASE Running
  BY <1>1, <1>2, TellMoves, TellData DEF Running
<1>3. CASE Create \/ WriteHeader \/ ReadNothing \/ WriteGarbage \/ Death
  <2>1. UNCHANGED <<vars, stored, short>>
    BY <1>3 DEF Create, WriteHeader, ReadNothing, WriteGarbage, Death
  <2> QED
    BY <1>1, <2>1, TellMoves
<1>4. CASE UNCHANGED dvars
  <2>1. UNCHANGED <<vars, stored, short>>
    BY <1>4 DEF dvars
  <2> QED
    BY <1>1, <2>1, TellMoves
<1> QED
  BY <1>2, <1>3, <1>4 DEF DNext

\* The node of a closed record tells how long its data file is, for all
\* lengths and deaths, but for the writes the disk cut short and the records
\* that were open when the process died.
THEOREM NodesAlwaysTell == DSpec => []NodesTellLengths
<1>1. DInit => StoredInv /\ TellInv
  BY DEF DInit, Init, StoredInv, TellInv, Records, Active, Null
<1>2. IInv /\ IInv' /\ FileInv /\ FileInv' /\ StoredInv /\ TellInv /\ [DNext]_dvars
        => StoredInv' /\ TellInv'
  <2>1. IInv' => TypeOK'
    BY DEF IInv
  <2> QED
    BY <2>1, StoredStep, TellStep
<1>3. IInv /\ StoredInv /\ TellInv => NodesTellLengths
  BY DEF NodesTellLengths, TellInv, Told, Holds, Records, Rec, Removing
<1>4. DSpec => []IInv /\ []FileInv
  BY DiskKeepsManager, IInvIsInvariant, FileInvIsInvariant, PTL
<1> QED
  BY <1>1, <1>2, <1>3, <1>4, PTL DEF DSpec
-----------------------------------------------------------------------------
(* How many files there are.                                               *)

\* The records whose files have not been removed.
Kept == {j \in Records : pc \in {"clear", "remove_header"} => j > 1}

\* The files a record or the manager itself knows by name.
Named ==
  {Rec(i).data_file : i \in Kept}
    \cup (IF pc \in {"new_node", "new_header"} THEN {m_handle.file} ELSE {})

\* The open record is the last one, and its node has its name.
NameInv ==
  /\ Active => \A i \in Records :
       i = _mgrhdr.nodenum => Rec(i).data_file = m_node.data_file
  /\ pc \in {"new_node", "new_header"} => m_node.data_file = m_handle.file

\* A death leaves one file at most that nobody knows, a failed removal another.
OrphanInv ==
  /\ IsFiniteSet(files)
  /\ Cardinality(files \ Named) <= crashes + leaks

\* No file is longer than a record, and the open one no longer than it says.
SizeInv ==
  /\ \A f \in files : stored[f] <= MaxRec
  /\ m_handle.file \in files => stored[m_handle.file] <= m_handle.length
-----------------------------------------------------------------------------
LEMMA PlaceIsShift == PlaceInv => ShiftInv
  BY DEF PlaceInv, ShiftInv

\* The first step of a removal, and the writing of a node that is not
\* counted, leave the records where they are.
LEMMA RecRelease ==
  ASSUME IInv, Release
  PROVE  \A i \in Records : Rec(i)' = Rec(i)
<1>1. pc \notin Removing /\ UNCHANGED <<_mgrhdr, nodes>>
  BY DEF Release, Removing
<1>2. CASE pc' = "append_node"
  BY <1>1, <1>2 DEF Rec, Removing
<1>3. CASE pc' = "shift" /\ slot' = 1 /\ recnode' = nodes[1]
  BY <1>1, <1>3, NodeFacts DEF Rec, Removing, Records
<1> QED
  BY <1>2, <1>3 DEF Release

LEMMA RecNewNode ==
  ASSUME IInv, NewNode
  PROVE  \A i \in Records : Rec(i)' = Rec(i)
<1>1. pc \notin Removing /\ pc' \notin Removing
  BY DEF NewNode, Removing
<1>2. \A i \in Records : nodes'[i] = nodes[i]
  BY NewNodePlaces DEF Records
<1> QED
  BY <1>1, <1>2 DEF Rec

LEMMA RecSame ==
  ASSUME IInv, NewRecord \/ Write \/ RemoveFile \/ AppendHeader \/ Restart \/ UNCHANGED vars
  PROVE  /\ Records' = Records
         /\ \A i \in Records : Rec(i)' = Rec(i)
<1>1. CASE NewRecord \/ Write \/ RemoveFile \/ UNCHANGED vars
  <2>1. UNCHANGED <<_mgrhdr, nodes, recnode, slot>> /\ (pc' \in Removing <=> pc \in Removing)
    BY <1>1 DEF NewRecord, Write, RemoveFile, vars, recVars, Removing
  <2> QED
    BY <2>1 DEF Rec, Records
<1>2. CASE AppendHeader \/ Restart
  <2>1. UNCHANGED nodes /\ pc \notin Removing /\ pc' \notin Removing
    BY <1>2 DEF AppendHeader, Restart, Removing
  <2>2. _mgrhdr'.nodenum = _mgrhdr.nodenum
    BY <1>2 DEF AppendHeader, Restart, IInv, TypeOK, Header, CountInv
  <2> QED
    BY <2>1, <2>2 DEF Rec, Records
<1> QED
  BY <1>1, <1>2

\* The node of the open record is written anew.
LEMMA RecAppend ==
  ASSUME IInv, PlaceInv, NameInv, AppendNode
  PROVE  /\ Records' = Records
         /\ \A i \in Records : Rec(i)'.data_file = Rec(i).data_file
         /\ \A i \in Records :
              i = _mgrhdr.nodenum => Rec(i)'.data_file = m_node.data_file
<1>1. /\ pc \notin Removing /\ pc' \notin Removing /\ _mgrhdr' = _mgrhdr
      /\ pc = "append_node"
  BY DEF AppendNode, Removing
<1>2. Active
  BY <1>1 DEF Active, IInv, CountInv
<1>3. nodes'[_mgrhdr.nodenum] = [m_node EXCEPT !.datalen = m_handle.length]
      /\ \A j \in 1 .. Len(nodes) : j # _mgrhdr.nodenum => nodes'[j] = nodes[j]
      /\ _mgrhdr.nodenum \in 1 .. Len(nodes)
  BY AppendNodeFacts
<1>4. nodes'[_mgrhdr.nodenum].data_file = m_node.data_file
  BY <1>3 DEF IInv, TypeOK, Node
<1>5. nodes[_mgrhdr.nodenum].data_file = m_node.data_file
  BY <1>1, <1>2, NodeFacts DEF NameInv, Rec, Records, IInv, CountInv
<1>6. \A i \in Records : nodes'[i].data_file = nodes[i].data_file
  BY <1>3, <1>4, <1>5, NodeFacts DEF Records
<1> QED
  BY <1>1, <1>4, <1>6 DEF Rec, Records

LEMMA NameStep ==
  IInv /\ IInv' /\ PlaceInv /\ NameInv /\ [Next]_vars => NameInv'
<1> SUFFICES ASSUME IInv, IInv', PlaceInv, NameInv, [Next]_vars PROVE NameInv'
  OBVIOUS
<1>a. _mgrhdr.nodenum \in Nat
  BY NodeFacts
<1>1. CASE NewRecord
  BY <1>1 DEF NewRecord, NameInv, Active
<1>2. CASE NewNode
  BY <1>2 DEF NewNode, NameInv, recVars, Active
<1>3. CASE NewHeader
  <2>1. /\ _mgrhdr'.nodenum = _mgrhdr.nodenum + 1 /\ nodes' = nodes
        /\ pc = "new_header" /\ pc' = "write" /\ m_node' = m_node
    BY <1>3 DEF NewHeader, IInv, TypeOK, Header, recVars
  <2>2. nodes[_mgrhdr.nodenum + 1] = m_node
    BY <2>1 DEF PlaceInv
  <2> QED
    BY <2>1, <2>2 DEF NameInv, Rec, Removing
<1>4. CASE Write \/ Release \/ RemoveShift \/ RemoveClear \/ RemoveFile
  <2>1. /\ UNCHANGED <<_mgrhdr, m_node>> /\ pc' \notin {"new_node", "new_header"}
        /\ Active' => Active
    <3>1. CASE Write
      BY <1>4, <3>1 DEF Write, Active, IInv, CountInv
    <3>2. CASE Release \/ RemoveShift \/ RemoveClear \/ RemoveFile
      BY <3>2 DEF Release, RemoveShift, RemoveClear, RemoveFile, recVars, Active
    <3> QED
      BY <1>4, <3>1, <3>2
  <2>2. \A i \in Records : Rec(i)' = Rec(i)
    BY <1>4, PlaceIsShift, RecRelease, RecShift, RecClear, RecSame
  <2>3. Records' = Records
    BY <2>1 DEF Records
  <2> QED
    BY <2>1, <2>2, <2>3 DEF NameInv
<1>6. CASE RemoveHeader
  <2>1. /\ UNCHANGED m_node /\ pc' \notin {"new_node", "new_header"}
        /\ Active' => Active
    BY <1>6 DEF RemoveHeader, recVars, Active
  <2>2. /\ _mgrhdr'.nodenum = _mgrhdr.nodenum - 1 /\ _mgrhdr.nodenum >= 2
        /\ \A i \in 1 .. _mgrhdr.nodenum - 1 : i + 1 \in Records /\ Rec(i)' = Rec(i + 1)
    BY <1>6, PlaceIsShift, RecHeader
  <2>3. ASSUME NEW i \in Records', i = _mgrhdr'.nodenum, Active'
        PROVE  Rec(i)'.data_file = m_node'.data_file
    <3>1. i \in 1 .. _mgrhdr.nodenum - 1 /\ i + 1 = _mgrhdr.nodenum
      BY <1>a, <2>2, <2>3 DEF Records
    <3>2. i + 1 \in Records /\ Rec(i)' = Rec(i + 1)
      BY <2>2, <3>1
    <3>3. Rec(i + 1).data_file = m_node.data_file
      BY <2>1, <2>3, <3>1, <3>2 DEF NameInv
    <3> QED
      BY <2>1, <3>2, <3>3
  <2> QED
    BY <2>1, <2>3 DEF NameInv
<1>7. CASE AppendNode
  <2>1. UNCHANGED <<_mgrhdr, m_node>> /\ pc' = "append_header"
    BY <1>7 DEF AppendNode, recVars
  <2> QED
    BY <1>7, <2>1, RecAppend DEF NameInv
<1>8. CASE AppendHeader
  BY <1>8 DEF AppendHeader, NameInv, Active
<1>9. CASE Crash
  BY <1>9 DEF Crash, NameInv, Active
<1>10. CASE Restart
  <2>1. /\ UNCHANGED m_node /\ pc' = "idle" /\ _mgrhdr' = _mgrhdr
        /\ Active' => Active
    BY <1>10 DEF Restart, recVars, Active, IInv, CountInv
  <2> QED
    BY <1>10, <2>1, RecSame DEF NameInv
<1>11. CASE UNCHANGED vars
  <2>1. Records' = Records /\ \A i \in Records : Rec(i)' = Rec(i)
    BY <1>11, RecSame
  <2> QED
    BY <1>11, <2>1 DEF vars, recVars, NameInv, Active
<1> QED
  BY <1>1, <1>2, <1>3, <1>4, <1>6, <1>7, <1>8, <1>9, <1>10, <1>11 DEF Next
-----------------------------------------------------------------------------
LEMMA NoMore ==
  ASSUME NEW S, IsFiniteSet(S), NEW T, T \subseteq S
  PROVE  IsFiniteSet(T) /\ Cardinality(T) <= Cardinality(S)
  BY FS_Subset

LEMMA OneMore ==
  ASSUME NEW S, IsFiniteSet(S), NEW T, NEW x, T \subseteq S \cup {x}
  PROVE  IsFiniteSet(T) /\ Cardinality(T) <= Cardinality(S) + 1
<1>1. /\ IsFiniteSet(S \cup {x})
      /\ Cardinality(S \cup {x}) = IF x \in S THEN Cardinality(S) ELSE Cardinality(S) + 1
  BY FS_AddElement
<1>2. IsFiniteSet(T) /\ Cardinality(T) <= Cardinality(S \cup {x})
  BY <1>1, NoMore
<1>3. Cardinality(S) \in Nat /\ Cardinality(T) \in Nat
  BY <1>2, FS_CardinalityType
<1> QED
  BY <1>1, <1>2, <1>3

\* A step after which everything that had a name still has one.
NamesStay == \A f \in Named : f \in Named'

\* Only a death or a removal takes a name away, one at most.
LEMMA NamedFacts ==
  ASSUME IInv, IInv', PlaceInv, NameInv, [Next]_vars
  PROVE  /\ ~ Crash /\ ~ RemoveFile => NamesStay
         /\ Crash => \E x : Named \subseteq Named' \cup {x}
         /\ RemoveFile => Named \subseteq Named' \cup {recnode.data_file}
<1>a. _mgrhdr.nodenum \in Nat /\ Records = 1 .. _mgrhdr.nodenum
  BY NodeFacts DEF Records
<1>1. ASSUME NewRecord PROVE NamesStay
  <2>1. Kept' = Kept /\ pc = "idle"
    BY <1>1, RecSame DEF NewRecord, Kept
  <2> QED
    BY <1>1, <2>1, RecSame DEF NamesStay, Named, Kept
<1>2. ASSUME NewNode PROVE NamesStay
  <2>1. Records' = Records /\ pc = "new_node" /\ pc' = "new_header" /\ m_handle' = m_handle
    BY <1>2 DEF NewNode, recVars, Records
  <2> QED
    BY <1>2, <2>1, RecNewNode DEF NamesStay, Named, Kept
<1>3. ASSUME NewHeader PROVE NamesStay
  <2>1. /\ _mgrhdr'.nodenum = _mgrhdr.nodenum + 1 /\ nodes' = nodes
        /\ pc = "new_header" /\ pc' = "write"
    BY <1>3 DEF NewHeader, IInv, TypeOK, Header, recVars
  <2>2. nodes[_mgrhdr.nodenum + 1].data_file = m_handle.file
    BY <2>1 DEF PlaceInv, NameInv
  <2>3. Records \subseteq Records' /\ _mgrhdr.nodenum + 1 \in Records'
    BY <1>a, <2>1 DEF Records
  <2>4. \A i : Rec(i) = nodes[i] /\ Rec(i)' = nodes[i]
    BY <2>1 DEF Rec, Removing
  <2> QED
    BY <2>1, <2>2, <2>3, <2>4 DEF NamesStay, Named, Kept
<1>4. ASSUME Write \/ Release \/ RemoveShift \/ RemoveClear PROVE NamesStay
  <2>1. /\ _mgrhdr' = _mgrhdr /\ pc \notin {"new_node", "new_header"}
        /\ pc' \in {"clear", "remove_header"} <=> pc \in {"clear", "remove_header"}
    BY <1>4 DEF Write, Release, RemoveShift, RemoveClear
  <2>2. \A i \in Records : Rec(i)' = Rec(i)
    BY <1>4, PlaceIsShift, RecRelease, RecShift, RecClear, RecSame
  <2>3. Kept' = Kept
    BY <2>1 DEF Kept, Records
  <2> QED
    BY <2>1, <2>2, <2>3 DEF NamesStay, Named, Kept
<1>5. ASSUME AppendHeader \/ Restart \/ UNCHANGED vars PROVE NamesStay
  <2>1. /\ pc' \in {"clear", "remove_header"} <=> pc \in {"clear", "remove_header"}
        /\ pc \in {"new_node", "new_header"} =>
             pc' \in {"new_node", "new_header"} /\ m_handle' = m_handle
    BY <1>5 DEF AppendHeader, Restart, vars, recVars
  <2> QED
    BY <1>5, <2>1, RecSame DEF NamesStay, Named, Kept
<1>6. ASSUME AppendNode PROVE NamesStay
  <2>1. pc = "append_node" /\ pc' = "append_header"
    BY <1>6 DEF AppendNode
  <2> QED
    BY <1>6, <2>1, RecAppend DEF NamesStay, Named, Kept
<1>7. ASSUME RemoveHeader PROVE NamesStay
  <2>1. pc = "remove_header" /\ pc' = "append_node"
    BY <1>7 DEF RemoveHeader
  <2>2. /\ _mgrhdr'.nodenum = _mgrhdr.nodenum - 1 /\ _mgrhdr.nodenum >= 2
        /\ \A i \in 1 .. _mgrhdr.nodenum - 1 : Rec(i)' = Rec(i + 1)
    BY <1>7, PlaceIsShift, RecHeader
  <2>3. ASSUME NEW i \in Kept PROVE \E j \in Kept' : Rec(j)'.data_file = Rec(i).data_file
    <3>1. i - 1 \in 1 .. _mgrhdr.nodenum - 1 /\ (i - 1) + 1 = i
      BY <1>a, <2>1, <2>3 DEF Kept
    <3>2. i - 1 \in Kept'
      BY <2>1, <2>2, <3>1 DEF Kept, Records
    <3>3. PICK j \in 1 .. _mgrhdr.nodenum - 1 : j = i - 1
      BY <3>1
    <3>4. Rec(j)' = Rec(i)
      BY <2>2, <3>1, <3>3
    <3> QED
      BY <3>2, <3>3, <3>4
  <2> QED
    BY <2>1, <2>3 DEF NamesStay, Named
<1>8. ASSUME RemoveFile PROVE Named \subseteq Named' \cup {recnode.data_file}
  <2>1. pc = "rm" /\ pc' = "clear" /\ Rec(1) = recnode
    BY <1>8 DEF RemoveFile, Rec, Removing
  <2>2. \A i \in Kept : i = 1 \/ i \in Kept'
    BY <1>8, <1>a, <2>1, RecSame DEF Kept
  <2> QED
    BY <1>8, <2>1, <2>2, RecSame DEF Named, Kept
<1>9. ASSUME Crash PROVE \E x : Named \subseteq Named' \cup {x}
  <2>1. /\ pc' = "down" /\ nodes' = nodes /\ Records' = Records
        /\ \A i : Rec(i)' = nodes[i]
    BY <1>9 DEF Crash, Records, Rec, Removing
  <2>2. Kept' = Records
    BY <2>1 DEF Kept
  <2>3. CASE pc \in {"new_node", "new_header"}
    <3>1. Named \subseteq Named' \cup {m_handle.file}
      BY <2>1, <2>2, <2>3 DEF Named, Kept, Rec, Removing
    <3> QED
      BY <3>1
  <2>4. CASE pc \notin Removing \cup {"new_node", "new_header"}
    <3>1. Named \subseteq Named'
      BY <2>1, <2>2, <2>4 DEF Named, Kept, Rec
    <3> QED
      BY <3>1
  <2>5. CASE pc \in Removing
    <3>1. ASSUME NEW i \in Records, i # 1
          PROVE  \E j \in Kept' : Rec(j)'.data_file = Rec(i).data_file
      <4>1. Rec(i) = IF i <= slot THEN nodes[i - 1] ELSE nodes[i]
        BY <2>5, <3>1 DEF Rec
      <4>2. i \in Kept' /\ i - 1 \in Kept'
        BY <1>a, <2>2, <3>1
      <4>3. PICK j \in Kept' : j = i - 1
        BY <4>2
      <4>4. Rec(j)' = nodes[i - 1] /\ Rec(i)' = nodes[i]
        BY <2>1, <4>3
      <4> QED
        BY <4>1, <4>2, <4>4
    <3>2. Rec(1) = recnode
      BY <2>5 DEF Rec
    <3>3. Named \subseteq Named' \cup {recnode.data_file}
      BY <2>5, <3>1, <3>2 DEF Named, Kept, Removing
    <3> QED
      BY <3>3
  <2> QED
    BY <2>3, <2>4, <2>5
<1> QED
  BY <1>1, <1>2, <1>3, <1>4, <1>5, <1>6, <1>7, <1>8, <1>9 DEF Next
-----------------------------------------------------------------------------
\* The files that lost their name are one more at most, and that one is paid
\* for by a death or by an rm that failed.
LEMMA OrphanStep ==
  IInv /\ IInv' /\ PlaceInv /\ NameInv /\ leaks \in Nat /\ OrphanInv /\ [DNext]_dvars
    => OrphanInv' /\ leaks' \in Nat
<1> SUFFICES ASSUME IInv, IInv', PlaceInv, NameInv, leaks \in Nat, OrphanInv, [DNext]_dvars
             PROVE  OrphanInv' /\ leaks' \in Nat
  OBVIOUS
<1> DEFINE lost == files \ Named
<1>a. IsFiniteSet(files) /\ IsFiniteSet(lost) /\ Cardinality(lost) <= crashes + leaks
  BY NoMore DEF OrphanInv
<1>b. Cardinality(lost) \in Nat /\ crashes \in Nat
  BY <1>a, FS_CardinalityType DEF IInv, TypeOK
<1>c. [Next]_vars
  BY DiskStep
<1>d. IsFiniteSet(files') =>
        /\ IsFiniteSet(lost') /\ Cardinality(lost') \in Nat
  BY NoMore, FS_CardinalityType
<1>1. CASE NewRecord /\ leaks' = leaks
  <2>1. PICK t : files' = files \cup {t} /\ m_handle' = [file |-> t, length |-> 0]
    BY <1>1 DEF NewRecord
  <2>2. t \in Named' /\ crashes' = crashes
    BY <1>1, <2>1 DEF NewRecord, Named, histVars
  <2>3. NamesStay
    BY <1>1, <1>c, NamedFacts DEF NewRecord, Crash, RemoveFile
  <2>4. lost' \subseteq lost /\ IsFiniteSet(files')
    BY <1>a, <2>1, <2>2, <2>3, FS_AddElement DEF NamesStay
  <2>5. Cardinality(lost') <= Cardinality(lost)
    BY <1>a, <2>4, NoMore
  <2> QED
    BY <1>1, <1>a, <1>b, <1>d, <2>2, <2>4, <2>5 DEF OrphanInv
<1>2. CASE Crash /\ leaks' = leaks
  <2>1. files' = files /\ crashes' = crashes + 1
    BY <1>2 DEF Crash
  <2>2. PICK x : Named \subseteq Named' \cup {x}
    BY <1>2, <1>c, NamedFacts
  <2>3. lost' \subseteq lost \cup {x}
    BY <2>1, <2>2
  <2>4. Cardinality(lost') <= Cardinality(lost) + 1
    BY <1>a, <2>3, OneMore
  <2> QED
    BY <1>2, <1>a, <1>b, <1>d, <2>1, <2>4 DEF OrphanInv
<1>3. CASE RemoveFile /\ leaks' = IF recnode.data_file \in files' THEN leaks + 1 ELSE leaks
  <2>1. Named \subseteq Named' \cup {recnode.data_file}
    BY <1>3, <1>c, NamedFacts
  <2>2. /\ files' \in {files, files \ {recnode.data_file}} /\ files' \subseteq files
        /\ crashes' = crashes
    BY <1>3 DEF RemoveFile, histVars
  <2>3. IsFiniteSet(files')
    BY <1>a, <2>2, NoMore
  <2>4. CASE recnode.data_file \in files'
    <3>1. lost' \subseteq lost \cup {recnode.data_file}
      BY <2>1, <2>2
    <3>2. Cardinality(lost') <= Cardinality(lost) + 1
      BY <1>a, <3>1, OneMore
    <3> QED
      BY <1>3, <1>b, <1>d, <2>2, <2>3, <2>4, <3>2, <1>a DEF OrphanInv
  <2>5. CASE recnode.data_file \notin files'
    <3>1. lost' \subseteq lost
      BY <2>1, <2>2, <2>5
    <3>2. Cardinality(lost') <= Cardinality(lost)
      BY <1>a, <3>1, NoMore
    <3> QED
      BY <1>3, <1>b, <1>d, <2>2, <2>3, <2>5, <3>2, <1>a DEF OrphanInv
  <2> QED
    BY <2>4, <2>5
<1>4. CASE ~ NewRecord /\ ~ Crash /\ ~ RemoveFile /\ leaks' = leaks
  <2>1. UNCHANGED <<files, crashes>>
    BY <1>4, <1>c DEF Next, NewNode, NewHeader, Write, Release, RemoveShift, RemoveClear,
       RemoveHeader, AppendNode, AppendHeader, Restart, vars, histVars
  <2>2. NamesStay
    BY <1>4, <1>c, NamedFacts
  <2>3. lost' \subseteq lost
    BY <2>1, <2>2 DEF NamesStay
  <2>4. Cardinality(lost') <= Cardinality(lost)
    BY <1>a, <2>3, NoMore
  <2> QED
    BY <1>4, <1>a, <1>b, <1>d, <2>1, <2>4 DEF OrphanInv
<1>5. \/ NewRecord /\ leaks' = leaks
      \/ Crash /\ leaks' = leaks
      \/ RemoveFile /\ leaks' = IF recnode.data_file \in files' THEN leaks + 1 ELSE leaks
      \/ ~ NewRecord /\ ~ Crash /\ ~ RemoveFile /\ leaks' = leaks
  <2>1. CASE Running
    <3>1. CASE DWrite
      BY <3>1 DEF DWrite, Write, NewRecord, Crash, RemoveFile
    <3>2. CASE DIndex
      BY <3>2 DEF DIndex, NewNode, NewHeader, Release, RemoveShift, RemoveClear,
         RemoveHeader, AppendNode, AppendHeader, Restart, NewRecord, Crash, RemoveFile
    <3> QED
      BY <2>1, <3>1, <3>2 DEF Running, DNewRecord, DRemoveFile, DCrash
  <2>2. CASE Create \/ WriteHeader \/ ReadNothing \/ WriteGarbage \/ Death \/ UNCHANGED dvars
    <3>1. leaks' = leaks /\ pc' = pc
      BY <2>2 DEF Create, WriteHeader, ReadNothing, WriteGarbage, Death, dvars, vars
    <3> QED
      BY <3>1 DEF NewRecord, Crash, RemoveFile
  <2> QED
    BY <2>1, <2>2 DEF DNext
<1> HIDE DEF lost
<1> QED
  BY <1>1, <1>2, <1>3, <1>4, <1>5
-----------------------------------------------------------------------------
\* What is in a file was counted when it was written.
LEMMA SizeStep ==
  IInv /\ IInv' /\ StoredInv /\ SizeInv /\ [DNext]_dvars => SizeInv'
<1> SUFFICES ASSUME IInv, IInv', StoredInv, SizeInv, [DNext]_dvars PROVE SizeInv'
  OBVIOUS
<1>a. /\ stored \in [files -> Nat] /\ files \subseteq Nat \ {0}
      /\ m_handle \in [file : Nat, length : Nat] /\ m_handle' \in [file : Nat, length : Nat]
      /\ m_handle'.length <= MaxRec /\ MaxRec \in Nat
  BY RecordsFit DEF StoredInv, IInv, TypeOK, LengthInv
<1>b. m_handle' = Null => m_handle'.file \notin files
  BY <1>a DEF Null, NONE
<1>1. CASE DNewRecord
  <2>1. PICK t : /\ NextName(t) /\ files' = files \cup {t}
                 /\ m_handle' = [file |-> t, length |-> 0]
    BY <1>1 DEF DNewRecord, NewRecord
  <2>2. t \notin files /\ stored' = [f \in files' |-> IF f \in files THEN stored[f] ELSE 0]
    BY <1>1, <2>1 DEF DNewRecord, NextName
  <2>3. ASSUME NEW f \in files' PROVE stored'[f] <= MaxRec
    <3>1. stored'[f] = IF f \in files THEN stored[f] ELSE 0
      BY <2>2, <2>3
    <3>2. f \in files => stored[f] <= MaxRec
      BY DEF SizeInv
    <3> QED
      BY <1>a, <3>1, <3>2
  <2>4. stored'[m_handle'.file] <= m_handle'.length
    BY <2>1, <2>2
  <2> QED
    BY <2>3, <2>4 DEF SizeInv
<1>2. CASE DWrite
  <2>1. files' = files /\ m_handle'.file = m_handle.file
    BY <1>2, <1>a DEF DWrite, Write
  <2>2. CASE m_handle.file \in files
    <3>1. PICK n \in 0 .. m_handle'.length - m_handle.length :
            stored' = [stored EXCEPT ![m_handle.file] = @ + n]
      BY <1>2, <2>2 DEF DWrite
    <3>2. stored[m_handle.file] \in Nat /\ stored[m_handle.file] <= m_handle.length
      BY <1>a, <2>2 DEF SizeInv
    <3>3. stored[m_handle.file] + n <= m_handle'.length
      BY <1>a, <3>2
    <3>4. stored'[m_handle.file] <= m_handle'.length
      BY <1>a, <2>2, <3>1, <3>3
    <3>5. \A f \in files : f # m_handle.file => stored'[f] = stored[f]
      BY <1>a, <3>1
    <3>6. m_handle'.length \in Nat /\ stored'[m_handle.file] \in Nat
      BY <1>a, <2>2, <3>1, <3>2
    <3>7. \A f \in files : stored'[f] <= MaxRec
      BY <1>a, <3>4, <3>5, <3>6 DEF SizeInv
    <3> QED
      BY <2>1, <3>4, <3>7 DEF SizeInv
  <2>3. CASE m_handle.file \notin files
    BY <1>2, <2>1, <2>3 DEF DWrite, SizeInv
  <2> QED
    BY <2>2, <2>3
<1>3. CASE DRemoveFile
  <2>1. /\ files' \subseteq files /\ stored' = [f \in files' |-> stored[f]]
        /\ m_handle' = m_handle
    BY <1>3 DEF DRemoveFile, RemoveFile, recVars
  <2> QED
    BY <2>1 DEF SizeInv
<1>4. CASE DCrash
  <2>1. files' = files /\ m_handle' = Null
    BY <1>4 DEF DCrash, Crash
  <2>2. \A f \in files : stored'[f] <= MaxRec
    <3>1. CASE m_handle.file \in files /\ pc \in {"idle", "write", "release"}
      <4>1. PICK n \in 0 .. stored[m_handle.file] :
              stored' = [stored EXCEPT ![m_handle.file] = n]
        BY <1>4, <3>1 DEF DCrash
      <4>2. stored[m_handle.file] \in Nat /\ stored[m_handle.file] <= MaxRec
        BY <1>a, <3>1 DEF SizeInv
      <4>3. n <= MaxRec
        BY <1>a, <4>2
      <4> QED
        BY <1>a, <4>1, <4>3 DEF SizeInv
    <3>2. CASE ~ (m_handle.file \in files /\ pc \in {"idle", "write", "release"})
      BY <1>4, <3>2 DEF DCrash, SizeInv
    <3> QED
      BY <3>1, <3>2
  <2> QED
    BY <1>b, <2>1, <2>2 DEF SizeInv
<1>5. CASE DIndex
  <2>1. UNCHANGED <<stored, files>> /\ (m_handle' = m_handle \/ m_handle' = Null)
    BY <1>5 DEF DIndex, NewNode, NewHeader, Release, RemoveShift, RemoveClear,
       RemoveHeader, AppendNode, AppendHeader, Restart, recVars
  <2> QED
    BY <1>b, <2>1 DEF SizeInv
<1>6. CASE Create \/ WriteHeader \/ ReadNothing \/ WriteGarbage \/ Death \/ UNCHANGED dvars
  BY <1>6 DEF Create, WriteHeader, ReadNothing, WriteGarbage, Death,
     dvars, vars, recVars, SizeInv
<1> QED
  BY <1>1, <1>2, <1>3, <1>4, <1>5, <1>6 DEF DNext, Running
-----------------------------------------------------------------------------
\* There are as many names as records at most, and one more while a record
\* is begun; but then the records are fewer.
LEMMA NamedBound ==
  ASSUME IInv, NumberInv
  PROVE  IsFiniteSet(Named) /\ Cardinality(Named) <= MostRecords
<1> DEFINE n == _mgrhdr.nodenum
           S == {Rec(i).data_file : i \in Kept}
           g == [i \in Kept |-> Rec(i).data_file]
<1>a. n \in Nat /\ Records = 1 .. n /\ MostRecords \in Nat
  <2>1. crashes \in Nat
    BY DEF IInv, TypeOK
  <2>2. Capacity \div DATA_REC_UNITLEN \in Nat
    BY SizeAssumption
  <2> QED
    BY <2>1, <2>2, NodeFacts DEF Records, MostRecords
<1>1. IsFiniteSet(1 .. n) /\ Cardinality(1 .. n) = n
  BY <1>a, FS_Interval
<1>2. IsFiniteSet(Kept) /\ Cardinality(Kept) <= n
  BY <1>1, <1>a, NoMore DEF Kept
<1>3. g \in Surjection(Kept, S)
  BY DEF Surjection
<1> HIDE DEF g, S, n
<1>4. IsFiniteSet(S) /\ Cardinality(S) <= Cardinality(Kept)
  BY <1>2, <1>3, FS_Surjection
<1>5. Cardinality(S) \in Nat /\ Cardinality(Kept) \in Nat
  BY <1>2, <1>4, FS_CardinalityType
<1>6. CASE pc \in {"new_node", "new_header"}
  <2>1. Named \subseteq S \cup {m_handle.file}
    BY DEF Named, S
  <2>2. IsFiniteSet(Named) /\ Cardinality(Named) <= Cardinality(S) + 1
    BY <1>4, <2>1, OneMore
  <2>3. n <= MostRecords - 1
    BY <1>6 DEF NumberInv, Settled, Active, n
  <2>4. Cardinality(Named) \in Nat
    BY <2>2, FS_CardinalityType
  <2> QED
    BY <1>a, <1>2, <1>4, <1>5, <2>2, <2>3, <2>4
<1>7. CASE pc \notin {"new_node", "new_header"}
  <2>1. Named = S
    BY <1>7 DEF Named, S
  <2>2. n <= MostRecords
    BY DEF NumberInv, n
  <2> QED
    BY <1>a, <1>2, <1>4, <1>5, <2>1, <2>2
<1> QED
  BY <1>6, <1>7

LEMMA FilesBound ==
  ASSUME IInv, NumberInv, OrphanInv, leaks \in Nat
  PROVE  Cardinality(files) <= Capacity \div DATA_REC_UNITLEN + 2 + 3 * crashes + leaks
<1>1. IsFiniteSet(files) /\ IsFiniteSet(files \ Named) /\ Cardinality(files \ Named) <= crashes + leaks
  BY NoMore DEF OrphanInv
<1>2. IsFiniteSet(Named) /\ Cardinality(Named) <= MostRecords
  BY NamedBound
<1>3. /\ IsFiniteSet(Named \cup (files \ Named))
      /\ Cardinality(Named \cup (files \ Named))
           = Cardinality(Named) + Cardinality(files \ Named) - Cardinality(Named \cap (files \ Named))
  BY <1>1, <1>2, FS_Union
<1>4. Named \cap (files \ Named) = {}
  OBVIOUS
<1>5. Cardinality(Named \cap (files \ Named)) = 0
  BY <1>4, FS_EmptySet
<1>6. Cardinality(files) <= Cardinality(Named \cup (files \ Named))
  BY <1>3, NoMore
<1>7. /\ Cardinality(files) \in Nat /\ Cardinality(Named) \in Nat
      /\ Cardinality(files \ Named) \in Nat
  BY <1>1, <1>2, FS_CardinalityType
<1>8. crashes \in Nat /\ Capacity \div DATA_REC_UNITLEN \in Nat
  <2>1. crashes \in Nat
    BY DEF IInv, TypeOK
  <2> QED
    BY <2>1, SizeAssumption
<1> DEFINE q == Capacity \div DATA_REC_UNITLEN
           a == Cardinality(files \ Named)
           b == Cardinality(Named)
           c == Cardinality(files)
<1>9. /\ a \in Nat /\ b \in Nat /\ c \in Nat /\ q \in Nat /\ crashes \in Nat
      /\ a <= crashes + leaks /\ b <= q + 2 + 2 * crashes /\ c <= b + a - 0
  BY <1>1, <1>2, <1>3, <1>5, <1>6, <1>7, <1>8 DEF MostRecords
<1> HIDE DEF q, a, b, c
<1>10. c <= q + 2 + 3 * crashes + leaks
  BY <1>9
<1> QED
  BY <1>10 DEF q, c

\* The constructor's part of the disk.
DiskTypeInv ==
  /\ index \in {"none", "empty", "whole", "garbled"}
  /\ boot \in {"start", "created", "running", "garbled", "failed"}
  /\ boots \in 0 .. MaxBoots /\ bootDeath \in BOOLEAN

LEMMA DiskTypeStep == DiskTypeInv /\ [DNext]_dvars => DiskTypeInv'
<1> SUFFICES ASSUME DiskTypeInv, [DNext]_dvars PROVE DiskTypeInv'
  OBVIOUS
<1> USE DEF DiskTypeInv
<1>1. CASE Create
  BY <1>1 DEF Create
<1>2. CASE WriteHeader
  BY <1>2 DEF WriteHeader
<1>3. CASE ReadNothing
  BY <1>3 DEF ReadNothing
<1>4. CASE WriteGarbage
  BY <1>4 DEF WriteGarbage
<1>5. CASE Death
  <2>1. index' = index /\ boot' = "start" /\ bootDeath' = (bootDeath \/ boot = "created")
    BY <1>5 DEF Death
  <2>2. boots' \in 0 .. MaxBoots
    BY <1>5, BootAssumption DEF Death
  <2>3. bootDeath' \in BOOLEAN
    BY <2>1, Zenon
  <2> QED
    BY <2>1, <2>2, <2>3
<1>6. CASE Running \/ UNCHANGED dvars
  BY <1>6 DEF Running, dvars, diskVars
<1> QED
  BY <1>1, <1>2, <1>3, <1>4, <1>5, <1>6 DEF DNext

\* What is inductive for FilesysDisk, beside that of the manager.
FilesInv ==
  /\ StoredInv /\ DiskTypeInv /\ leaks \in Nat
  /\ NameInv /\ OrphanInv /\ SizeInv

LEMMA FilesInvIsInvariant == DSpec => [](IInv /\ PlaceInv /\ SumInv /\ FilesInv)
<1> DEFINE Kind == IInv /\ PlaceInv /\ SumInv
<1>1. DSpec => []Kind
  BY DiskKeepsManager, SumInvIsInvariant
<1>2. DInit => FilesInv
  <2> SUFFICES ASSUME DInit PROVE FilesInv
    OBVIOUS
  <2>1. files = {} /\ stored = <<>> /\ short = {} /\ leaks = 0 /\ crashes = 0
        /\ pc = "idle" /\ m_handle = Null
    BY DEF DInit, Init
  <2>2. stored \in [files -> Nat]
    BY <2>1
  <2>3. NameInv
    BY <2>1 DEF NameInv, Active
  <2>4. OrphanInv
    <3>1. files \ Named = {}
      BY <2>1
    <3> QED
      BY <2>1, <3>1, FS_EmptySet DEF OrphanInv
  <2>5. DiskTypeInv
    <3>1. boots = 0 /\ bootDeath = FALSE /\ index = "none" /\ boot = "start"
      BY DEF DInit
    <3>2. boots \in 0 .. MaxBoots
      BY <3>1, BootAssumption
    <3> QED
      BY <3>1, <3>2 DEF DiskTypeInv
  <2> QED
    BY <2>1, <2>2, <2>3, <2>4, <2>5 DEF FilesInv, StoredInv, SizeInv
<1>3. Kind /\ Kind' /\ FilesInv /\ [DNext]_dvars => FilesInv'
  <2> SUFFICES ASSUME Kind, Kind', FilesInv, [DNext]_dvars PROVE FilesInv'
    OBVIOUS
  <2>1. StoredInv'
    BY StoredStep DEF IInv, FilesInv
  <2>2. DiskTypeInv'
    BY DiskTypeStep DEF FilesInv
  <2>3. NameInv'
    BY DiskStep, NameStep DEF FilesInv
  <2>4. OrphanInv' /\ leaks' \in Nat
    BY OrphanStep DEF FilesInv
  <2>5. SizeInv'
    BY SizeStep DEF FilesInv
  <2> QED
    BY <2>1, <2>2, <2>3, <2>4, <2>5 DEF FilesInv
<1> HIDE DEF Kind
<1>4. DSpec => [](Kind /\ FilesInv)
  BY <1>1, <1>2, <1>3, PTL DEF DSpec
<1>5. Kind /\ FilesInv => IInv /\ PlaceInv /\ SumInv /\ FilesInv
  BY DEF Kind
<1> QED
  BY <1>4, <1>5, PTL

\* However often the process dies and an rm fails, there are no more data
\* files than the capacity holds, two, three for each death and one for each
\* failed rm, and none is longer than a record.
THEOREM DiskStaysBounded == DSpec => []DiskBounded
<1>1. IInv /\ PlaceInv /\ SumInv /\ FilesInv => DiskBounded
  <2> SUFFICES ASSUME IInv, PlaceInv, SumInv, FilesInv PROVE DiskBounded
    OBVIOUS
  <2>1. DTypeOK
    BY DEF DTypeOK, IInv, StoredInv, DiskTypeInv, FilesInv
  <2>2. RecordsBounded
    BY SumFactsHold
  <2>3. Cardinality(files) <= Capacity \div DATA_REC_UNITLEN + 2 + 3 * crashes + leaks
    BY FilesBound DEF SumInv, FilesInv
  <2> QED
    BY <2>1, <2>2, <2>3 DEF DiskBounded, SizeInv, FilesInv
<1> QED
  BY <1>1, FilesInvIsInvariant, PTL
=============================================================================
