---------------------------- MODULE DiagnosisRun ----------------------------
(***************************************************************************)
(* Execution of diagnosis runs: the run row and its outbox row, asynq      *)
(* workers and synchronous /plan callers that claim the run, the steps of  *)
(* diagnose, the publication of the report, leases and attempt fencing,    *)
(* process exits and Recover (internal/workspace/service.go, diagnosis.go, *)
(* admission.go insertRun, internal/handler/workspace_plan.go).            *)
(*                                                                         *)
(* An executor keeps the Run it got from claim and goes on using it while  *)
(* others change the row; each of its transactions re-checks `owned'.      *)
(***************************************************************************)
EXTENDS OutboxQueue

CONSTANTS
  Workers,         \* asynq goroutines of the diagnosis server
  Callers,         \* synchronous POST /plan requests
  NIncidents,      \* incidents of a run
  NHits,           \* search results per incident (3 in the code)
  JudgeConfigured, \* Judge.APIKey and Judge.Model are set
  WebhookSet       \* WebhookURL is set

ASSUME DiagnosisAssumption ==
  /\ NIncidents \in Nat \ {0}
  /\ NHits \in Nat
  /\ JudgeConfigured \in BOOLEAN
  /\ WebhookSet \in BOOLEAN
ASSUME ExecutorsAssumption == Workers \cap Callers = {}

Runs == Items
Execs == Workers \cup Callers
Evidence == (1..NIncidents) \X (0..NHits)

VARIABLES
  run,     \* diagnosis_runs.data
  lease,   \* the run is running and lease_until is in the future
  log,     \* run_events of each run, as far as the properties look at them
  exec     \* local state of each executor

runVars == <<run, lease, log>>
vars == <<run, lease, log, exec, outbox, task, retried, batch, offer, up, crashes, faults>>

-----------------------------------------------------------------------------
(* State                                                                   *)

Statuses == {"absent", "queued", "running", "succeeded", "failed"}
Terminal == {"succeeded", "failed"}
Dispatches == {"pending", "enqueued"}
EvidenceStatuses == {"not_evaluated", "has_citations", "no_evidence", "source_unavailable"}
Citation == Nat \X Evidence

\* last: attempt of the event with the highest sequence; reports: attempt and kind of
\* the "report" events.
Log == [last : Nat, reports : SUBSET (Nat \X Terminal)]

\* cites: CitationIDs and report_citations; report: attempt whose text it is, 0 for nil.
Row == [status : Statuses, dispatch : Dispatches, attempt : Nat, revision : Nat,
        cites : SUBSET Citation, evidence : EvidenceStatuses, report : Nat,
        notification : {"disabled", "pending"}]
NoRow == [status |-> "absent", dispatch |-> "pending", attempt |-> 0, revision |-> 0,
          cites |-> {}, evidence |-> "not_evaluated", report |-> 0,
          notification |-> "disabled"]

\* Program points at which an executor holds a claimed run inside diagnose, in the
\* order it reaches them; "abort" is the deferred finish of ProcessAlertDiagnosis.
Steps == {"retrieve", "record", "cite", "judge", "judging", "finish"}
Holding == Steps \cup {"abort"}
PCs == {"idle", "claim", "ret", "done"} \cup Holding

\* attempt and dispatch: fields of the Run claim returned.
Local == [pc : PCs, run : Runs, attempt : Nat, dispatch : Dispatches,
          inc : 1..NIncidents, left : 0..NHits, cited : BOOLEAN, lost : BOOLEAN,
          expired : BOOLEAN, score : {"none", "good", "low"}, ret : {"ok", "err", "skip"}]

DiagTypeOK ==
  /\ run \in [Runs -> Row]
  /\ lease \in [Runs -> BOOLEAN]
  /\ log \in [Runs -> Log]
  /\ exec \in [Execs -> Local]

\* Types of all variables of the model.
TypeOK == QueueTypeOK /\ DiagTypeOK

IdleAt(r) ==
  [pc |-> "idle", run |-> r, attempt |-> 0, dispatch |-> "pending", inc |-> 1, left |-> 0,
   cited |-> FALSE, lost |-> FALSE, expired |-> FALSE, score |-> "none", ret |-> "ok"]
Idle == IdleAt(CHOOSE r \in Runs : TRUE)

Init ==
  /\ QueueInit
  /\ run = [r \in Runs |-> NoRow]
  /\ lease = [r \in Runs |-> FALSE]
  /\ log = [r \in Runs |-> [last |-> 0, reports |-> {}]]
  /\ exec = [w \in Execs |-> Idle]

\* addEvent: the next sequence number, with the attempt of the Run it is given.
AddEvent(r, a) == log' = [log EXCEPT ![r].last = a]
Goto(w, to) == exec' = [exec EXCEPT ![w].pc = to]
Return(w, how) == exec' = [exec EXCEPT ![w] = [IdleAt(@.run) EXCEPT !.pc = "ret", !.ret = how]]

-----------------------------------------------------------------------------
(* Admission and dispatch of a run                                         *)

\* insertRun: run, its first events and its outbox row in one transaction.
Admit(r) ==
  /\ up
  /\ run[r].status = "absent"
  /\ run' = [run EXCEPT ![r].status = "queued", ![r].revision = 1]
  /\ AddEvent(r, 0)
  /\ outbox' = [outbox EXCEPT ![r] = "pending"]
  /\ UNCHANGED <<lease, exec, task, retried, batch, offer, up, crashes, faults>>

\* Mutant: Dispatch marks the row sent and forgets the revision.
MarkSentKeepsRevision(r) ==
  /\ SettleSent(r)
  /\ run' = [run EXCEPT ![r].dispatch = "enqueued"]
  /\ UNCHANGED <<lease, log, exec>>

\* The transaction of Dispatch after a delivery re-reads the run.
MarkSent(r) ==
  /\ SettleSent(r)
  /\ run' = [run EXCEPT ![r].dispatch = "enqueued", ![r].revision = @ + 1]
  /\ UNCHANGED <<lease, log, exec>>

Dispatch ==
  \/ DispatchSnapshot /\ UNCHANGED <<run, lease, log, exec>>
  \/ \E r \in Runs : Enqueue(r) /\ UNCHANGED <<run, lease, log, exec>>
  \/ \E r \in Runs : EnqueueFails(r) /\ UNCHANGED <<run, lease, log, exec>>
  \/ \E r \in Runs : MarkSent(r)
  \/ \E r \in Runs : SettleBackoff(r) /\ UNCHANGED <<run, lease, log, exec>>
  \/ DispatchAborts /\ UNCHANGED <<run, lease, log, exec>>

-----------------------------------------------------------------------------
(* Executors                                                               *)

\* An asynq goroutine takes the task and calls ProcessAlertDiagnosis.
Fetch(w, r) ==
  /\ w \in Workers
  /\ exec[w].pc = "idle"
  /\ TaskTaken(r)
  /\ exec' = [exec EXCEPT ![w] = [IdleAt(r) EXCEPT !.pc = "claim"]]
  /\ UNCHANGED <<run, lease, log>>

\* Plan calls ProcessAlertDiagnosis for the run Admit returned, new or existing.
PlanCalls(w, r) ==
  /\ w \in Callers
  /\ up
  /\ exec[w].pc = "idle"
  /\ run[r].status # "absent"
  /\ exec' = [exec EXCEPT ![w] = [IdleAt(r) EXCEPT !.pc = "claim"]]
  /\ UNCHANGED <<run, lease, log, queueVars>>

\* claim on a terminal run: nothing to do.
ClaimTerminal(w) ==
  /\ exec[w].pc = "claim"
  /\ run[exec[w].run].status \in Terminal
  /\ Return(w, "ok")
  /\ UNCHANGED <<run, lease, log, queueVars>>

\* claim on a run whose lease has not run out: "run already leased".
ClaimLeased(w) ==
  /\ exec[w].pc = "claim"
  /\ run[exec[w].run].status = "running"
  /\ lease[exec[w].run]
  /\ Return(w, "err")
  /\ UNCHANGED <<run, lease, log, queueVars>>

\* Mutant: claim keeps the number of the attempt before.
ClaimedRowSameAttempt(row) ==
  [row EXCEPT !.status = "running", !.revision = @ + 1,
              !.cites = {}, !.evidence = "not_evaluated", !.report = 0]

\* Mutant: claim leaves the citations of the attempt before in place.
ClaimedRowKeepsCitations(row) ==
  [row EXCEPT !.status = "running", !.attempt = @ + 1, !.revision = @ + 1,
              !.evidence = "not_evaluated", !.report = 0]

\* The row claim writes: facts of earlier attempts go, the attempt is new.
ClaimedRow(row) ==
  [row EXCEPT !.status = "running", !.attempt = @ + 1, !.revision = @ + 1,
              !.cites = {}, !.evidence = "not_evaluated", !.report = 0]

\* Mutant: only the lease is looked at.
ClaimableByLease(r) == run[r].status # "absent" /\ ~lease[r]

\* A run that is queued, or running under a lease that ran out.
Claimable(r) ==
  \/ run[r].status = "queued"
  \/ run[r].status = "running" /\ ~lease[r]

\* claim: the run is taken under a new attempt and a new lease.
Claim(w) ==
  LET r == exec[w].run
      a == ClaimedRow(run[r]).attempt
  IN /\ exec[w].pc = "claim"
     /\ Claimable(r)
     /\ run' = [run EXCEPT ![r] = ClaimedRow(@)]
     /\ lease' = [lease EXCEPT ![r] = TRUE]
     /\ AddEvent(r, a)
     /\ exec' = [exec EXCEPT ![w].pc = "retrieve", ![w].attempt = a,
                             ![w].dispatch = run[r].dispatch]
     /\ UNCHANGED queueVars

\* claim's transaction fails: no deferred finish is set up yet.
ClaimFails(w) ==
  /\ exec[w].pc = "claim"
  /\ Fault("db")
  /\ Return(w, "err")
  /\ UNCHANGED <<run, lease, log, outbox, task, retried, batch, offer, up, crashes>>

\* Mutant: the fence compares no attempt.
OwnedByStatus(w) == run[exec[w].run].status = "running"

\* owned: the executor's attempt is the run's attempt and the run is running.
Owned(w) ==
  /\ run[exec[w].run].attempt = exec[w].attempt
  /\ run[exec[w].run].status = "running"

\* A transaction of diagnose or finish meets ErrFenced: the error is returned as it is.
FencedOut(w) ==
  /\ exec[w].pc \in Steps
  /\ ~Owned(w)
  /\ Return(w, "err")
  /\ UNCHANGED <<run, lease, log, queueVars>>

\* The retrieval of the next incident begins.
BeginRetrieval(w) ==
  /\ exec[w].pc = "retrieve"
  /\ Owned(w)
  /\ AddEvent(exec[w].run, exec[w].attempt)
  /\ Goto(w, "record")
  /\ UNCHANGED <<run, lease, queueVars>>

\* At the top of the incident loop the context has ended: finish as failed.
ContextEnded(w) ==
  /\ exec[w].pc = "retrieve"
  /\ Fault("timeout")
  /\ exec' = [exec EXCEPT ![w].pc = "finish", ![w].expired = TRUE]
  /\ UNCHANGED <<run, lease, log, outbox, task, retried, batch, offer, up, crashes>>

\* Mutant: the incident loop runs once too often.
NextIncidentOffByOne(l) ==
  IF l.inc <= NIncidents THEN [l EXCEPT !.pc = "retrieve", !.inc = @ + 1, !.left = 0]
                         ELSE [l EXCEPT !.pc = "judge", !.left = 0]

\* Local state after the last hit of an incident: next incident, or the judge.
NextIncident(l) ==
  IF l.inc < NIncidents THEN [l EXCEPT !.pc = "retrieve", !.inc = @ + 1, !.left = 0]
                        ELSE [l EXCEPT !.pc = "judge", !.left = 0]

\* Search returned n hits; the retrieval is recorded.
RecordRetrieval(w, n) ==
  /\ exec[w].pc = "record"
  /\ Owned(w)
  /\ AddEvent(exec[w].run, exec[w].attempt)
  /\ exec' = [exec EXCEPT ![w] =
                IF n = 0 THEN NextIncident(@) ELSE [@ EXCEPT !.pc = "cite", !.left = n]]
  /\ UNCHANGED <<run, lease, queueVars>>

\* Search failed or the source is not ready; the failed retrieval is recorded.
RecordUnavailable(w) ==
  /\ exec[w].pc = "record"
  /\ Owned(w)
  /\ AddEvent(exec[w].run, exec[w].attempt)
  /\ exec' = [exec EXCEPT ![w] = NextIncident([@ EXCEPT !.lost = TRUE])]
  /\ UNCHANGED <<run, lease, queueVars>>

AfterHit(l) == IF l.left > 1 THEN [l EXCEPT !.left = @ - 1] ELSE NextIncident(l)

\* An eligible hit: its evidence and citation, on the row as it is now.
CiteHit(w) ==
  LET l == exec[w]
  IN /\ l.pc = "cite"
     /\ Owned(w)
     /\ run' = [run EXCEPT ![l.run].cites = @ \cup {<<l.attempt, <<l.inc, l.left>>>>},
                           ![l.run].revision = @ + 1]
     /\ exec' = [exec EXCEPT ![w] = AfterHit([l EXCEPT !.cited = TRUE])]
     /\ UNCHANGED <<lease, log, queueVars>>

\* An ineligible hit, or one without identifiers, which is skipped unfenced.
SkipHit(w) ==
  /\ exec[w].pc = "cite"
  /\ exec' = [exec EXCEPT ![w] = AfterHit(@)]
  /\ UNCHANGED <<run, lease, log, queueVars>>

JudgeSkipped(w) ==
  /\ ~JudgeConfigured
  /\ exec[w].pc = "judge"
  /\ Owned(w)
  /\ AddEvent(exec[w].run, exec[w].attempt)
  /\ Goto(w, "finish")
  /\ UNCHANGED <<run, lease, queueVars>>

JudgeStarted(w) ==
  /\ JudgeConfigured
  /\ exec[w].pc = "judge"
  /\ Owned(w)
  /\ AddEvent(exec[w].run, exec[w].attempt)
  /\ Goto(w, "judging")
  /\ UNCHANGED <<run, lease, queueVars>>

\* The judge's answer; "none" when it is unavailable, "low" below JudgeThreshold.
JudgeAnswered(w, score) ==
  /\ exec[w].pc = "judging"
  /\ Owned(w)
  /\ AddEvent(exec[w].run, exec[w].attempt)
  /\ exec' = [exec EXCEPT ![w].pc = "finish", ![w].score = score]
  /\ UNCHANGED <<run, lease, queueVars>>

-----------------------------------------------------------------------------
(* finish                                                                  *)

\* diagnose's verdict: status and evidence_status.
VerdictStatus(l) == IF l.expired \/ l.lost THEN "failed" ELSE "succeeded"
VerdictEvidence(l) ==
  CASE l.expired \/ l.lost -> "source_unavailable"
    [] ~(l.expired \/ l.lost) /\ l.cited -> "has_citations"
    [] OTHER -> "no_evidence"

\* finish notifies about failures and low scores, when a webhook is set.
NotifyAbout(status, score) == WebhookSet /\ (status = "failed" \/ score = "low")

\* The row finish saves is the claimed Run, with the citations and the revision of
\* the row as it is now.
FinishedRow(row, l, status, evidence, score) ==
  [status |-> status, dispatch |-> l.dispatch, attempt |-> l.attempt,
   revision |-> row.revision + 1, cites |-> row.cites, evidence |-> evidence,
   report |-> l.attempt,
   notification |-> IF NotifyAbout(status, score) THEN "pending" ELSE "disabled"]

\* finish adds the report event (and "notification skipped" when it does not notify).
AddReport(l, status) ==
  log' = [log EXCEPT ![l.run].last = l.attempt,
                     ![l.run].reports = @ \cup {<<l.attempt, status>>}]

\* Mutant: finish keeps the citations the executor saw at claim time (none).
FinishLosesCitations(w, status, evidence, score) ==
  LET l == exec[w]
  IN /\ Owned(w)
     /\ run' = [run EXCEPT ![l.run] =
                  [FinishedRow(@, l, status, evidence, score) EXCEPT !.cites = {}]]
     /\ AddReport(l, status)
     /\ lease' = [lease EXCEPT ![l.run] = FALSE]

\* finish: report, outbox row and final status in one fenced transaction.
FinishTx(w, status, evidence, score) ==
  LET l == exec[w]
  IN /\ Owned(w)
     /\ run' = [run EXCEPT ![l.run] = FinishedRow(@, l, status, evidence, score)]
     /\ AddReport(l, status)
     /\ lease' = [lease EXCEPT ![l.run] = FALSE]

Finish(w) ==
  LET l == exec[w]
  IN /\ l.pc = "finish"
     /\ FinishTx(w, VerdictStatus(l), VerdictEvidence(l), l.score)
     /\ Return(w, "ok")
     /\ UNCHANGED queueVars

\* diagnose is left; the deferred finish knows only the claimed Run.
Abort(w, how) ==
  exec' = [exec EXCEPT ![w] = [IdleAt(@.run) EXCEPT !.pc = "abort", !.ret = how,
                                 !.attempt = exec[w].attempt, !.dispatch = exec[w].dispatch]]

\* A step of diagnose, or its finish, fails: the deferred finish runs next.
StepFails(w) ==
  /\ exec[w].pc \in Steps
  /\ Fault("db")
  /\ Abort(w, "err")
  /\ UNCHANGED <<run, lease, log, outbox, task, retried, batch, offer, up, crashes>>

\* diagnose panics: the deferred finish runs and asynq is told not to retry.
StepPanics(w) ==
  /\ exec[w].pc \in Steps
  /\ Fault("panic")
  /\ Abort(w, "skip")
  /\ UNCHANGED <<run, lease, log, outbox, task, retried, batch, offer, up, crashes>>

\* The deferred finish publishes a failed run.
AbortFinish(w) ==
  /\ exec[w].pc = "abort"
  /\ FinishTx(w, "failed", "source_unavailable", "none")
  /\ Return(w, exec[w].ret)
  /\ UNCHANGED queueVars

\* The deferred finish is fenced; the handler still returns its error.
AbortFenced(w) ==
  /\ exec[w].pc = "abort"
  /\ ~Owned(w)
  /\ Return(w, exec[w].ret)
  /\ UNCHANGED <<run, lease, log, queueVars>>

\* The deferred finish fails too: the run stays running.
AbortFails(w) ==
  /\ exec[w].pc = "abort"
  /\ Fault("db")
  /\ Return(w, exec[w].ret)
  /\ UNCHANGED <<run, lease, log, outbox, task, retried, batch, offer, up, crashes>>

\* The handler has returned to asynq, which settles the task.
SettleTask(w) ==
  LET r == exec[w].run
  IN /\ w \in Workers
     /\ exec[w].pc = "ret"
     /\ CASE exec[w].ret = "ok" -> TaskDone(r)
          [] exec[w].ret = "err" -> TaskFailed(r)
          [] exec[w].ret = "skip" -> TaskSkipped(r)
     /\ exec' = [exec EXCEPT ![w] = Idle]
     /\ UNCHANGED <<run, lease, log, outbox, batch, offer, up, crashes, faults>>

\* The /plan request got its answer; a caller stands for one request.
PlanAnswered(w) ==
  /\ w \in Callers
  /\ exec[w].pc = "ret"
  /\ Goto(w, "done")
  /\ UNCHANGED <<run, lease, log, queueVars>>

\* Progress of an executor that needs no failure.
Work(w) ==
  \/ ClaimTerminal(w) \/ ClaimLeased(w) \/ Claim(w)
  \/ FencedOut(w)
  \/ BeginRetrieval(w)
  \/ \E n \in 0..NHits : RecordRetrieval(w, n)
  \/ RecordUnavailable(w)
  \/ CiteHit(w) \/ SkipHit(w)
  \/ JudgeSkipped(w) \/ JudgeStarted(w)
  \/ \E s \in {"none", "good", "low"} : JudgeAnswered(w, s)
  \/ Finish(w) \/ AbortFinish(w) \/ AbortFenced(w)
  \/ SettleTask(w) \/ PlanAnswered(w)

Failure(w) ==
  \/ ClaimFails(w) \/ ContextEnded(w)
  \/ StepFails(w) \/ StepPanics(w) \/ AbortFails(w)

-----------------------------------------------------------------------------
(* Time, process exits and Recover                                         *)

\* lease_until passes.
LeaseExpires(r) ==
  /\ lease[r]
  /\ lease' = [lease EXCEPT ![r] = FALSE]
  /\ UNCHANGED <<run, log, exec, queueVars>>

Backoff(r) == BackoffElapses(r) /\ UNCHANGED <<run, lease, log, exec>>

\* asynq reclaims an active task that no goroutine of this process holds.
Reclaim(r) ==
  /\ \A w \in Workers : ~(exec[w].pc # "idle" /\ exec[w].run = r)
  /\ TaskReclaimed(r)
  /\ UNCHANGED <<run, lease, log, exec>>

Exit(graceful) ==
  /\ ProcessExits(graceful)
  /\ exec' = [w \in Execs |->
                IF w \in Callers /\ exec[w].pc # "idle"
                  THEN [Idle EXCEPT !.pc = "done"] ELSE Idle]
  /\ UNCHANGED <<run, lease, log>>

\* Mutant: Recover hands the run back without a new attempt number.
RecoveredRowSameAttempt(row) ==
  [row EXCEPT !.status = "queued", !.dispatch = "pending", !.revision = @ + 1]

\* Recover fences the interrupted attempt before the run is delivered again.
RecoveredRow(row) ==
  [row EXCEPT !.status = "queued", !.dispatch = "pending",
              !.attempt = @ + 1, !.revision = @ + 1]

\* Mutant: Recover also selects finished runs.
InterruptedOrFinished == {r \in Runs : run[r].status \notin {"absent", "queued"}}

\* The runs Recover selects.
Interrupted == {r \in Runs : run[r].status = "running"}

\* Boot: Recover is one transaction, before the workers and the ticker start.
Boot ==
  /\ ~up
  /\ up' = TRUE
  /\ run' = [r \in Runs |-> IF r \in Interrupted THEN RecoveredRow(run[r]) ELSE run[r]]
  /\ log' = [r \in Runs |-> IF r \in Interrupted
                             THEN [log[r] EXCEPT !.last = run[r].attempt] ELSE log[r]]
  /\ lease' = [r \in Runs |-> FALSE]
  /\ outbox' = [r \in Runs |-> IF r \in Interrupted THEN "pending" ELSE outbox[r]]
  /\ UNCHANGED <<exec, task, retried, batch, offer, crashes, faults>>

Next ==
  \/ \E r \in Runs : Admit(r)
  \/ Dispatch
  \/ \E w \in Execs, r \in Runs : Fetch(w, r) \/ PlanCalls(w, r)
  \/ \E w \in Execs : Work(w) \/ Failure(w)
  \/ \E r \in Runs : LeaseExpires(r) \/ Backoff(r) \/ Reclaim(r)
  \/ \E g \in BOOLEAN : Exit(g)
  \/ Boot

Spec == Init /\ [][Next]_vars

\* What the scheduler, asynq and the clock guarantee: goroutines go on, the 2s ticker
\* dispatches, asynq hands tasks out and reclaims lost ones, time passes, and a stopped
\* process is started again.  Requests, failures and exits are not owed to anyone.
Fairness ==
  /\ WF_vars(DispatchSnapshot /\ UNCHANGED <<run, lease, log, exec>>)
  /\ \A r \in Runs :
       /\ WF_vars(Enqueue(r) /\ UNCHANGED <<run, lease, log, exec>>)
       /\ WF_vars(MarkSent(r))
       /\ WF_vars(SettleBackoff(r) /\ UNCHANGED <<run, lease, log, exec>>)
       /\ WF_vars(Backoff(r))
       /\ WF_vars(Reclaim(r))
       /\ WF_vars(LeaseExpires(r))
       /\ WF_vars(\E w \in Execs : Fetch(w, r))
  /\ \A w \in Execs : WF_vars(Work(w))
  /\ WF_vars(Boot)

FairSpec == Spec /\ Fairness

-----------------------------------------------------------------------------
(* Properties                                                              *)

\* An attempt number belongs to one executor: of all executors that hold a run, in
\* whatever state of staleness, no two carry the same attempt, and none carries an
\* attempt the row has not reached.  This is what makes `owned' (service.go) a fence.
AttemptsAreExclusive ==
  \A w \in Execs : exec[w].pc \in Holding =>
    /\ exec[w].attempt <= run[exec[w].run].attempt
    /\ \A v \in Execs \ {w} :
         exec[v].pc \in Holding /\ exec[v].run = exec[w].run
           => exec[v].attempt # exec[w].attempt

\* The citations of a run that is executing or finished were all recorded by its
\* current attempt: claim removed those of earlier attempts and stale executors
\* added none (diagnose's per-hit transaction; "no citations spliced across attempts").
CitationsOfCurrentAttempt ==
  \A r \in Runs : run[r].status \notin {"absent", "queued"} =>
    \A c \in run[r].cites : c[1] = run[r].attempt

\* The timeline has a report event exactly when the run is final: one, of the attempt
\* and with the outcome that the row shows (finish writes both in one transaction).
OneReportPerRun ==
  \A r \in Runs :
    log[r].reports = IF run[r].status \in Terminal
                       THEN {<<run[r].attempt, run[r].status>>} ELSE {}

\* A final report claims citations only if it has some: evidence_status
\* has_citations, computed from what the executor remembers, agrees with the
\* citations the row holds when finish publishes.
EvidenceMatchesCitations ==
  \A r \in Runs : run[r].status = "succeeded" =>
    (run[r].evidence = "has_citations" <=> run[r].cites # {})

\* A final run is never executed again or changed by a late worker, Recover or a
\* redelivered task: only Dispatch's bookkeeping may still touch it.
FinalStaysFinal ==
  [][\A r \in Runs : run[r].status \in Terminal =>
       /\ run'[r] = [run[r] EXCEPT !.dispatch = run'[r].dispatch, !.revision = run'[r].revision]
       /\ log'[r] = log[r]]_vars

\* Readers poll on the revision: every change of the row raises it, whoever writes.
RevisionRises ==
  [][\A r \in Runs : run'[r] # run[r] => run'[r].revision > run[r].revision]_vars

\* A stale executor adds nothing to the timeline: by sequence, the attempts of the
\* events never go back (addEvent numbers events whoever adds them).
TimelineInAttemptOrder ==
  [][\A r \in Runs : log'[r].last >= log[r].last]_vars

\* The life of a run as RunLifecycle promises it.
Lifecycle == INSTANCE RunLifecycle WITH
  life <- [r \in Runs |-> [state |-> run[r].status, attempt |-> run[r].attempt,
                           cited |-> run[r].cites, report |-> run[r].report]]

\* Runs with queues, leases, stale executors and restarts implement RunLifecycle.
ImplementsLifecycle == Lifecycle!LifecycleSpec

\* Every accepted run gets its final report, if exits do not outnumber asynq's retries.
EventuallyFinal ==
  \A r \in Runs : run[r].status = "queued" ~> run[r].status \in Terminal

\* Something will still carry an accepted, unfinished run forward: an outbox row to
\* deliver, a task asynq will run, an executor, or the Recover of the next boot.
AcceptedRunRecoverable ==
  \A r \in Runs : run[r].status \in {"queued", "running"} =>
    \/ outbox[r] \in {"pending", "backoff"}
    \/ task[r] \in {"pending", "active"}
    \/ \E w \in Execs : exec[w].pc \notin {"idle", "done"} /\ exec[w].run = r
    \/ ~up /\ run[r].status = "running"

=============================================================================
