--------------------------- MODULE MCDiagnosisRun ---------------------------
(* Instances of DiagnosisRun for TLC.                                      *)
EXTENDS DiagnosisRun

\* Everything that can go wrong besides exits.
AllFaults == {"enqueue", "db", "timeout", "panic"}

=============================================================================
