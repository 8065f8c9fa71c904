----------------------------- MODULE MCKnowledge -----------------------------
(* Instances of Knowledge for TLC.                                         *)
EXTENDS Knowledge, TLC

\* Requests are interchangeable, and so are bodies (safety runs only).
KnowledgeSymmetry == Permutations(Requests) \cup Permutations(Bodies)

=============================================================================
