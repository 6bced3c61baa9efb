--------------------------- MODULE MCCapturePath ---------------------------
(***************************************************************************)
(* CapturePath on streams of nine bytes: headers at any place, and words   *)
(* that look like the first or the second half of one.  Chunks of six      *)
(* bytes are the shortest that can hold a header behind other bytes.       *)
(***************************************************************************)
EXTENDS CapturePath

\* A header at each place of H, a first half at each place of F and a
\* second half at each place of S (what comes later in the list loses).
Stream(H, F, S) ==
  [i \in 0 .. StreamLen - 1 |->
     IF \E h \in H : i - h \in 0 .. 3
       THEN (CHOOSE j \in 1 .. 4 : \E h \in H : i = h + j - 1)
     ELSE IF i \in F THEN 1 ELSE IF i > 0 /\ i - 1 \in F THEN 2
     ELSE IF i \in S THEN 3 ELSE IF i > 0 /\ i - 1 \in S THEN 4
     ELSE 0]

MCStreams ==
  {Stream({h}, {}, {}) : h \in {0, 3, 4}}
    \cup {Stream({4}, {2}, {0}), Stream({5}, {}, {2}),
          Stream({0, 4}, {}, {}), Stream({}, {4}, {2})}
=============================================================================
