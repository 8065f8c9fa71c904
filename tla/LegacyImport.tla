---------------------------- MODULE LegacyImport ----------------------------
(***************************************************************************)
(* The commands of workspacectl that bring the reports of LegacyReports    *)
(* into the workspace database: ImportLegacyReports reads the snapshot     *)
(* file, while the old process may go on writing it, and archives every    *)
(* report in one transaction; BackupExistingDatabase copies the database   *)
(* (internal/workspace/migration.go).  Several commands may run at once.   *)
(***************************************************************************)
EXTENDS LegacyReports

CONSTANTS
  Commands,    \* invocations of workspacectl, each of one command
  CommandKinds \* "import", "backup": what they may be

VARIABLES
  archive,  \* evidence rows of imported reports, with their run rows
  imported, \* reports of the snapshots whose import was committed (history)
  cmd,      \* local states of the commands
  backup    \* the command that made the file at the backup path

importVars == <<archive, imported, cmd, backup>>
vars == <<ring, file, hook, task, worker, notice, told, cut, overdue, up, issued, faults, exits,
          archive, imported, cmd, backup>>

\* raw: the original JSON; run: the status of the archived run, never a runnable one.
Row == [raw : Report, run : {"succeeded", "failed"}]
NoRow == [raw |-> [id |-> 0, status |-> "queued", text |-> "none"], run |-> "failed"]
Archive == [Ids -> Row \cup {NoRow}]

NoCommand == "nobody"
Command == [pc : {"ready", "commit", "link", "ended"}, items : Seq(Report)]

EmptyArchive == [i \in Ids |-> NoRow]
Ready == [pc |-> "ready", items |-> <<>>]
Ended == [Ready EXCEPT !.pc = "ended"]

\* Types of all variables of the model.
TypeOK ==
  /\ LegacyTypeOK
  /\ archive \in Archive
  /\ imported \subseteq Report
  /\ cmd \in [Commands -> Command]
  /\ backup \in Commands \cup {NoCommand}

Init ==
  /\ LegacyInit
  /\ archive = EmptyArchive
  /\ imported = {}
  /\ cmd = [c \in Commands |-> Ready]
  /\ backup = NoCommand

-----------------------------------------------------------------------------
(* ImportLegacyReports                                                     *)

\* readLegacySnapshot; a missing or torn file is an error.
ReadSnapshot(c) ==
  /\ cmd[c].pc = "ready"
  /\ "import" \in CommandKinds
  /\ file.state = "readable"
  /\ cmd' = [cmd EXCEPT ![c] = [Ready EXCEPT !.pc = "commit", !.items = file.items]]
  /\ UNCHANGED <<archive, imported, backup>>

Known(old) == archive[old.id] # NoRow

\* Mutant: a report that is archived in another wording is passed over.
ConflictsNever(old) == FALSE

\* The report is archived in another wording (legacy_report_sha256).
Conflicts(old) == Known(old) /\ archive[old.id].raw # old

\* The archived run: done is succeeded, everything else is failed.
Archived(old) == [raw |-> old, run |-> IF old.status = "done" THEN "succeeded" ELSE "failed"]

\* The rows of all reports of the snapshot that are not archived yet are inserted; one
\* that the snapshot has twice must agree with itself.
ImportCommit(c) ==
  LET items == cmd[c].items
  IN /\ cmd[c].pc = "commit"
     /\ \A n \in DOMAIN items : ~Conflicts(items[n])
     /\ \A m, n \in DOMAIN items : items[m].id = items[n].id => items[m] = items[n]
     /\ archive' = [i \in Ids |->
          IF archive[i] = NoRow /\ i \in IdsOf(items)
            THEN Archived(items[CHOOSE n \in DOMAIN items : items[n].id = i])
            ELSE archive[i]]
     /\ imported' = imported \cup {items[n] : n \in DOMAIN items}
     /\ cmd' = [cmd EXCEPT ![c] = Ended]
     /\ UNCHANGED backup

\* ErrConflict, a failing statement or the end of the command: the transaction is
\* rolled back, and the command may be given again.
ImportRollsBack(c) ==
  /\ cmd[c].pc = "commit"
  /\ cmd' = [cmd EXCEPT ![c] = Ready]
  /\ UNCHANGED <<archive, imported, backup>>

-----------------------------------------------------------------------------
(* BackupExistingDatabase                                                  *)

\* The path is free (Lstat); VACUUM INTO writes a consistent copy to a temporary file.
CopyDatabase(c) ==
  /\ cmd[c].pc = "ready"
  /\ "backup" \in CommandKinds
  /\ backup = NoCommand
  /\ cmd' = [cmd EXCEPT ![c] = [Ready EXCEPT !.pc = "link"]]
  /\ UNCHANGED <<archive, imported, backup>>

\* Mutant: the copy is renamed to the path.
LinkReplaces(c) == backup' = c

\* os.Link fails if the path exists by now.
Link(c) == backup' = IF backup # NoCommand THEN backup ELSE c

LinkBackup(c) ==
  /\ cmd[c].pc = "link"
  /\ Link(c)
  /\ cmd' = [cmd EXCEPT ![c] = Ended]
  /\ UNCHANGED <<archive, imported>>

ImportNext(c) ==
  \/ ReadSnapshot(c) \/ ImportCommit(c) \/ ImportRollsBack(c)
  \/ CopyDatabase(c) \/ LinkBackup(c)

Next ==
  \/ LegacyNext /\ UNCHANGED importVars
  \/ \E c \in Commands : ImportNext(c) /\ UNCHANGED legacyVars

Spec == Init /\ [][Next]_vars

-----------------------------------------------------------------------------
(* Properties                                                              *)

\* What an import reported as imported is in the archive in its original wording for
\* good (LegacyReportArchive), all of its file and nothing of an import that was refused,
\* although the old process goes on changing the reports and imports overlap.
ArchiveIsOriginal ==
  {archive[i].raw : i \in {j \in Ids : archive[j] # NoRow}} = imported

\* A backup is never overwritten, also by a command that found the path free before
\* ("no backup is overwritten", migration.go:227).
BackupNeverOverwritten == [][backup # NoCommand => backup' = backup]_vars

=============================================================================
