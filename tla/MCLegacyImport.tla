---------------------------- MODULE MCLegacyImport ----------------------------
(* Instances of LegacyImport for TLC.                                        *)
EXTENDS LegacyImport

\* Payloads, workers and commands are interchangeable.
LegacySymmetry ==
  Permutations(Payloads) \cup Permutations(Workers) \cup Permutations(Commands)

\* Everything that can go wrong besides exits.
AllFaults == {"disk", "enqueue", "reply", "panic", "power", "timeout"}

\* Two commands overlap while nothing fails, one meets with an exit or a failure, and
\* three of these meet while no command runs.
FewAtOnce ==
  \/ exits + faults = 0
  \/ exits + faults + 2 * Cardinality({c \in Commands : cmd[c] # Ready}) <= 3

===============================================================================
