------------------------------- MODULE NavRow -------------------------------
(***************************************************************************)
(* What the dataset navigation promises: one row per knowledge base with a *)
(* line per document, whose lines are appended, refreshed and removed one  *)
(* at a time, as long as the lock and the store keep what they promise.    *)
(***************************************************************************)
EXTENDS Naturals, FiniteSets

CONSTANTS Doc,       \* the documents of the knowledge base
          Summary,   \* the summaries a line can carry
          NoLine,    \* the document has no line
          MaxDocs    \* the cap on the number of lines

VARIABLES row,       \* the line of every document
          sound      \* nothing that the writers rely on has failed so far

Lines(r) == {d \in Doc : r[d] # NoLine}

NavInit == row = [d \in Doc |-> NoLine]

UpsertLine(d, s) ==
    /\ row[d] # NoLine \/ Cardinality(Lines(row)) < MaxDocs
    /\ row' = [row EXCEPT ![d] = s]

RemoveLine(d) == row' = [row EXCEPT ![d] = NoLine]

NavNext == sound' => \E d \in Doc : RemoveLine(d) \/ \E s \in Summary : UpsertLine(d, s)

NavSpec == NavInit /\ [][NavNext]_row
=============================================================================
