------------------------- MODULE DiagnosisRun_proofs -------------------------
(***************************************************************************)
(* Proofs about DiagnosisRun, for any number of runs, workers, /plan       *)
(* callers, retries, exits and failures.                                   *)
(***************************************************************************)
EXTENDS DiagnosisRun, TLAPS

-----------------------------------------------------------------------------
(* The outbox and the queue                                                *)

\* The variables of the queue have their types initially.
LEMMA QueueInitType == QueueInit => QueueTypeOK
  BY MaxRetryAssumption, BoundsAssumption
  DEF QueueInit, QueueTypeOK, OutboxStates, TaskStates, Offers

\* An injected failure only counts.
LEMMA FaultType ==
  ASSUME QueueTypeOK, NEW k, Fault(k),
         UNCHANGED <<outbox, task, retried, batch, offer, up, crashes>>
  PROVE  QueueTypeOK'
  BY BoundsAssumption DEF QueueTypeOK, Fault

\* A new retry count and state of one task.
LEMMA TaskType ==
  ASSUME QueueTypeOK, NEW i \in Items,
         TaskDone(i) \/ TaskFailed(i) \/ TaskSkipped(i),
         UNCHANGED <<outbox, batch, offer, up, crashes, faults>>
  PROVE  QueueTypeOK'
<1>1. CASE TaskDone(i)
  BY <1>1 DEF TaskDone, QueueTypeOK, TaskStates
<1>2. CASE TaskSkipped(i)
  BY <1>2 DEF TaskSkipped, QueueTypeOK, TaskStates
<1>3. CASE TaskFailed(i)
  <2>1. CASE retried[i] < MaxRetry
    BY <1>3, <2>1, MaxRetryAssumption DEF TaskFailed, QueueTypeOK, TaskStates
  <2>2. CASE ~(retried[i] < MaxRetry)
    BY <1>3, <2>2 DEF TaskFailed, QueueTypeOK, TaskStates
  <2> QED
    BY <2>1, <2>2
<1> QED
  BY <1>1, <1>2, <1>3

\* The steps of Dispatch (service.go) and of the clock on one row.
LEMMA DispatchType ==
  ASSUME QueueTypeOK, NEW i \in Items,
         \/ DispatchSnapshot \/ Enqueue(i) \/ EnqueueFails(i)
         \/ SettleSent(i) \/ SettleBackoff(i) \/ DispatchAborts \/ BackoffElapses(i)
  PROVE  QueueTypeOK'
<1>1. CASE DispatchSnapshot
  BY <1>1 DEF DispatchSnapshot, Due, QueueTypeOK
<1>2. CASE Enqueue(i)
  <2>1. task' \in [Items -> TaskStates] /\ retried' \in [Items -> 0..MaxRetry]
    BY <1>2, MaxRetryAssumption DEF Enqueue, QueueTypeOK, TaskStates
  <2>2. offer' \in Offers
    BY <1>2 DEF Enqueue, Offers
  <2> QED
    BY <1>2, <2>1, <2>2 DEF Enqueue, QueueTypeOK
<1>3. CASE EnqueueFails(i)
  <2>1. task' \in [Items -> TaskStates] /\ retried' \in [Items -> 0..MaxRetry]
    BY <1>3, MaxRetryAssumption DEF EnqueueFails, QueueTypeOK, TaskStates
  <2>2. offer' \in Offers
    BY <1>3 DEF EnqueueFails, Offers
  <2>3. faults' \in 0..MaxFaults
    BY <1>3, BoundsAssumption DEF EnqueueFails, Fault, QueueTypeOK
  <2> QED
    BY <1>3, <2>1, <2>2, <2>3 DEF EnqueueFails, QueueTypeOK
<1>4. CASE SettleSent(i)
  BY <1>4 DEF SettleSent, QueueTypeOK, OutboxStates, Offers
<1>5. CASE SettleBackoff(i)
  BY <1>5 DEF SettleBackoff, QueueTypeOK, OutboxStates, Offers
<1>6. CASE DispatchAborts
  BY <1>6, BoundsAssumption DEF DispatchAborts, Fault, QueueTypeOK, Offers
<1>7. CASE BackoffElapses(i)
  BY <1>7 DEF BackoffElapses, QueueTypeOK, OutboxStates
<1> QED
  BY <1>1, <1>2, <1>3, <1>4, <1>5, <1>6, <1>7

\* asynq hands a task out or reclaims it, and the process exits.
LEMMA AsynqType ==
  ASSUME QueueTypeOK, NEW i \in Items, NEW g \in BOOLEAN,
         TaskTaken(i) \/ TaskReclaimed(i) \/ ProcessExits(g)
  PROVE  QueueTypeOK'
<1>1. CASE TaskTaken(i)
  BY <1>1 DEF TaskTaken, QueueTypeOK, TaskStates
<1>2. CASE TaskReclaimed(i)
  BY <1>2, TaskType DEF TaskReclaimed
<1>3. CASE ProcessExits(g)
  <2>1. task' \in [Items -> TaskStates]
    BY <1>3 DEF ProcessExits, QueueTypeOK, TaskStates
  <2>2. crashes' \in 0..MaxCrashes
    BY <1>3, BoundsAssumption DEF ProcessExits, QueueTypeOK
  <2> QED
    BY <1>3, <2>1, <2>2 DEF ProcessExits, QueueTypeOK, Offers
<1> QED
  BY <1>1, <1>2, <1>3

-----------------------------------------------------------------------------
(* Local states                                                            *)

\* A handler's local state before claim is a local state.
LEMMA IdleAtLocal ==
  ASSUME NEW r \in Runs, NEW p \in PCs, NEW t \in {"ok", "err", "skip"}
  PROVE  /\ IdleAt(r) \in Local
         /\ [IdleAt(r) EXCEPT !.pc = p] \in Local
         /\ [IdleAt(r) EXCEPT !.pc = p, !.ret = t] \in Local
<1>1. 1 \in 1..NIncidents /\ 0 \in 0..NHits
  BY DiagnosisAssumption
<1>2. IdleAt(r) \in Local
  BY <1>1 DEF IdleAt, Local, PCs, Dispatches
<1>3. [IdleAt(r) EXCEPT !.pc = p] \in Local
  BY <1>2 DEF Local
<1>4. [IdleAt(r) EXCEPT !.pc = p, !.ret = t] \in Local
  BY <1>2 DEF Local
<1> QED
  BY <1>2, <1>3, <1>4

\* Idle names some run.
LEMMA IdleLocal ==
  /\ Idle \in Local
  /\ [Idle EXCEPT !.pc = "done"] \in Local
  BY ItemsAssumption, IdleAtLocal DEF ItemsAssumption, Idle, Runs, PCs, Holding, Steps, IdleAt

\* Storing a local state for one executor.
LEMMA StoreLocal ==
  ASSUME exec \in [Execs -> Local], NEW w \in Execs, NEW l \in Local,
         exec' = [exec EXCEPT ![w] = l]
  PROVE  exec' \in [Execs -> Local]
  OBVIOUS

\* Moving to another program point.
LEMMA GotoLocal ==
  ASSUME exec \in [Execs -> Local], NEW w \in Execs, NEW to \in PCs, Goto(w, to)
  PROVE  exec' \in [Execs -> Local]
<1>1. [exec[w] EXCEPT !.pc = to] \in Local
  BY DEF Local
<1> QED
  BY <1>1, StoreLocal DEF Goto

\* Returning from ProcessAlertDiagnosis.
LEMMA ReturnLocal ==
  ASSUME exec \in [Execs -> Local], NEW w \in Execs, NEW how \in {"ok", "err", "skip"},
         Return(w, how)
  PROVE  exec' \in [Execs -> Local]
<1>1. exec[w].run \in Runs
  BY DEF Local
<1>2. [IdleAt(exec[w].run) EXCEPT !.pc = "ret", !.ret = how] \in Local
  BY <1>1, IdleAtLocal DEF PCs
<1> QED
  BY <1>2, StoreLocal DEF Return

\* Leaving diagnose for the deferred finish.
LEMMA AbortLocal ==
  ASSUME exec \in [Execs -> Local], NEW w \in Execs, NEW how \in {"ok", "err", "skip"},
         Abort(w, how)
  PROVE  exec' \in [Execs -> Local]
<1>1. exec[w].run \in Runs /\ exec[w].attempt \in Nat /\ exec[w].dispatch \in Dispatches
  BY DEF Local
<1>2. [IdleAt(exec[w].run) EXCEPT !.pc = "abort", !.ret = how] \in Local
  BY <1>1, IdleAtLocal DEF PCs, Holding
<1>3. [IdleAt(exec[w].run) EXCEPT !.pc = "abort", !.ret = how,
          !.attempt = exec[w].attempt, !.dispatch = exec[w].dispatch] \in Local
  BY <1>1, <1>2 DEF Local, IdleAt
<1> QED
  BY <1>3, StoreLocal DEF Abort

\* The incident loop stays within the incidents of the run.
LEMMA NextIncidentLocal ==
  ASSUME NEW l \in Local
  PROVE  NextIncident(l) \in Local
<1>1. l.inc \in 1..NIncidents /\ 0 \in 0..NHits /\ NIncidents \in Nat
  BY DiagnosisAssumption DEF Local
<1>2. CASE l.inc < NIncidents
  <2>1. l.inc + 1 \in 1..NIncidents
    BY <1>1, <1>2
  <2>2. [l EXCEPT !.pc = "retrieve", !.inc = l.inc + 1, !.left = 0] \in Local
    BY <1>1, <2>1 DEF Local, PCs, Holding, Steps
  <2> QED
    BY <1>2, <2>2 DEF NextIncident
<1>3. CASE ~(l.inc < NIncidents)
  <2>1. [l EXCEPT !.pc = "judge", !.left = 0] \in Local
    BY <1>1 DEF Local, PCs, Holding, Steps
  <2> QED
    BY <1>3, <2>1 DEF NextIncident
<1> QED
  BY <1>2, <1>3

\* The hit loop stays within the hits of the search.
LEMMA AfterHitLocal ==
  ASSUME NEW l \in Local
  PROVE  AfterHit(l) \in Local
<1>1. CASE l.left > 1
  <2>1. l.left \in 0..NHits /\ NHits \in Nat
    BY DiagnosisAssumption DEF Local
  <2>2. l.left - 1 \in 0..NHits
    BY <1>1, <2>1
  <2>3. [l EXCEPT !.left = l.left - 1] \in Local
    BY <2>2 DEF Local
  <2> QED
    BY <1>1, <2>3 DEF AfterHit
<1>2. CASE ~(l.left > 1)
  BY <1>2, NextIncidentLocal DEF AfterHit
<1> QED
  BY <1>1, <1>2

-----------------------------------------------------------------------------
(* Rows and events                                                         *)

\* addEvent with the attempt of some Run.
LEMMA AddEventLog ==
  ASSUME log \in [Runs -> Log], NEW r \in Runs, NEW a \in Nat, AddEvent(r, a)
  PROVE  log' \in [Runs -> Log]
  BY DEF AddEvent, Log

\* The rows that claim and Recover write.
LEMMA ClaimedRecoveredRow ==
  ASSUME NEW row \in Row
  PROVE  /\ ClaimedRow(row) \in Row
         /\ ClaimedRow(row).attempt \in Nat
         /\ RecoveredRow(row) \in Row
<1>1. row.attempt + 1 \in Nat /\ row.revision + 1 \in Nat
  BY DEF Row
<1>2. ClaimedRow(row) \in Row
  BY <1>1 DEF ClaimedRow, Row, Statuses, EvidenceStatuses
<1>3. RecoveredRow(row) \in Row
  BY <1>1 DEF RecoveredRow, Row, Statuses, Dispatches
<1> QED
  BY <1>2, <1>3 DEF Row

\* The row with one more citation, and the row Dispatch marks.
LEMMA CitedMarkedRow ==
  ASSUME NEW row \in Row, NEW c \in SUBSET Citation
  PROVE  /\ [row EXCEPT !.cites = c, !.revision = @ + 1] \in Row
         /\ [row EXCEPT !.dispatch = "enqueued", !.revision = @ + 1] \in Row
<1>1. row.revision + 1 \in Nat
  BY DEF Row
<1> QED
  BY <1>1 DEF Row, Dispatches

\* finish writes a row and an event of the right types.
LEMMA FinishTxType ==
  ASSUME DiagTypeOK, NEW w \in Execs, NEW status \in Terminal,
         NEW evidence \in EvidenceStatuses, NEW score,
         FinishTx(w, status, evidence, score)
  PROVE  /\ run' \in [Runs -> Row]
         /\ lease' \in [Runs -> BOOLEAN]
         /\ log' \in [Runs -> Log]
<1> DEFINE l == exec[w]
<1>1. l.run \in Runs /\ l.attempt \in Nat /\ l.dispatch \in Dispatches
  BY DEF DiagTypeOK, Local
<1>2. run[l.run] \in Row /\ log[l.run] \in Log
  BY <1>1 DEF DiagTypeOK
<1>3. FinishedRow(run[l.run], l, status, evidence, score) \in Row
  BY <1>1, <1>2 DEF FinishedRow, Row, Statuses, Terminal
<1>4. run' \in [Runs -> Row]
  BY <1>1, <1>3 DEF FinishTx, DiagTypeOK
<1>5. [log[l.run] EXCEPT !.last = l.attempt, !.reports = @ \cup {<<l.attempt, status>>}] \in Log
  <2>1. <<l.attempt, status>> \in Nat \X Terminal
    BY <1>1
  <2>2. log[l.run].reports \cup {<<l.attempt, status>>} \in SUBSET (Nat \X Terminal)
    BY <1>2, <2>1 DEF Log
  <2> QED
    BY <1>1, <1>2, <2>2 DEF Log
<1>6. log' \in [Runs -> Log]
  BY <1>1, <1>5 DEF FinishTx, AddReport, DiagTypeOK
<1> QED
  BY <1>1, <1>4, <1>6 DEF FinishTx, DiagTypeOK

-----------------------------------------------------------------------------
(* Types                                                                   *)

\* The steps that only touch the queue or the executor's local state.
LEMMA IdleStepsType ==
  ASSUME TypeOK, NEW w \in Execs,
         \/ ClaimTerminal(w) \/ ClaimLeased(w) \/ FencedOut(w) \/ SkipHit(w)
         \/ AbortFenced(w) \/ PlanAnswered(w)
         \/ ClaimFails(w) \/ ContextEnded(w) \/ StepFails(w) \/ StepPanics(w) \/ AbortFails(w)
  PROVE  TypeOK'
<1> USE DEF TypeOK, DiagTypeOK
<1>1. exec[w] \in Local /\ exec[w].ret \in {"ok", "err", "skip"}
  BY DEF Local
<1>2. CASE ClaimTerminal(w) \/ ClaimLeased(w) \/ FencedOut(w) \/ AbortFenced(w)
  <2>1. PICK how \in {"ok", "err", "skip"} : Return(w, how)
    BY <1>1, <1>2 DEF ClaimTerminal, ClaimLeased, FencedOut, AbortFenced
  <2>2. exec' \in [Execs -> Local]
    BY <2>1, ReturnLocal
  <2> QED
    BY <1>2, <2>2
    DEF ClaimTerminal, ClaimLeased, FencedOut, AbortFenced, queueVars, QueueTypeOK
<1>3. CASE SkipHit(w)
  <2>1. exec' \in [Execs -> Local]
    BY <1>1, <1>3, AfterHitLocal DEF SkipHit
  <2> QED
    BY <1>3, <2>1 DEF SkipHit, queueVars, QueueTypeOK
<1>4. CASE PlanAnswered(w)
  <2>1. exec' \in [Execs -> Local]
    BY <1>4, GotoLocal DEF PlanAnswered, PCs
  <2> QED
    BY <1>4, <2>1 DEF PlanAnswered, queueVars, QueueTypeOK
<1>5. CASE ClaimFails(w) \/ AbortFails(w)
  <2>1. PICK how \in {"ok", "err", "skip"} : Return(w, how)
    BY <1>1, <1>5 DEF ClaimFails, AbortFails
  <2>2. exec' \in [Execs -> Local]
    BY <2>1, ReturnLocal
  <2>3. QueueTypeOK'
    BY <1>5, FaultType DEF ClaimFails, AbortFails
  <2> QED
    BY <1>5, <2>2, <2>3 DEF ClaimFails, AbortFails
<1>6. CASE StepFails(w) \/ StepPanics(w)
  <2>1. PICK how \in {"ok", "err", "skip"} : Abort(w, how)
    BY <1>6 DEF StepFails, StepPanics
  <2>2. exec' \in [Execs -> Local]
    BY <2>1, AbortLocal
  <2>3. QueueTypeOK'
    BY <1>6, FaultType DEF StepFails, StepPanics
  <2> QED
    BY <1>6, <2>2, <2>3 DEF StepFails, StepPanics
<1>7. CASE ContextEnded(w)
  <2>1. [exec[w] EXCEPT !.pc = "finish", !.expired = TRUE] \in Local
    BY <1>1 DEF Local, PCs, Holding, Steps
  <2>2. exec' \in [Execs -> Local]
    BY <1>7, <2>1 DEF ContextEnded
  <2>3. QueueTypeOK'
    BY <1>7, FaultType DEF ContextEnded
  <2> QED
    BY <1>7, <2>2, <2>3 DEF ContextEnded
<1> QED
  BY <1>2, <1>3, <1>4, <1>5, <1>6, <1>7

\* The steps that add to the timeline or the citations.
LEMMA RecordStepsType ==
  ASSUME TypeOK, NEW w \in Execs, NEW n \in 0..NHits, NEW score \in {"none", "good", "low"},
         \/ BeginRetrieval(w) \/ RecordRetrieval(w, n) \/ RecordUnavailable(w)
         \/ CiteHit(w) \/ JudgeSkipped(w) \/ JudgeStarted(w) \/ JudgeAnswered(w, score)
  PROVE  TypeOK'
<1> USE DEF TypeOK, DiagTypeOK
<1> DEFINE l == exec[w]
<1>1. /\ l \in Local /\ l.run \in Runs /\ l.attempt \in Nat
      /\ l.inc \in 1..NIncidents /\ l.left \in 0..NHits
  BY DEF Local
<1>2. CASE BeginRetrieval(w) \/ JudgeSkipped(w) \/ JudgeStarted(w)
  <2>1. log' \in [Runs -> Log]
    BY <1>1, <1>2, AddEventLog DEF BeginRetrieval, JudgeSkipped, JudgeStarted
  <2>2. exec' \in [Execs -> Local]
    BY <1>2, GotoLocal DEF BeginRetrieval, JudgeSkipped, JudgeStarted, PCs, Holding, Steps
  <2> QED
    BY <1>2, <2>1, <2>2
    DEF BeginRetrieval, JudgeSkipped, JudgeStarted, queueVars, QueueTypeOK
<1>3. CASE RecordRetrieval(w, n)
  <2>1. log' \in [Runs -> Log]
    BY <1>1, <1>3, AddEventLog DEF RecordRetrieval
  <2>2. [l EXCEPT !.pc = "cite", !.left = n] \in Local
    BY <1>1 DEF Local, PCs, Holding, Steps
  <2>3. exec' \in [Execs -> Local]
    BY <1>1, <1>3, <2>2, NextIncidentLocal DEF RecordRetrieval
  <2> QED
    BY <1>3, <2>1, <2>3 DEF RecordRetrieval, queueVars, QueueTypeOK
<1>4. CASE RecordUnavailable(w)
  <2>1. log' \in [Runs -> Log]
    BY <1>1, <1>4, AddEventLog DEF RecordUnavailable
  <2>2. [l EXCEPT !.lost = TRUE] \in Local
    BY <1>1 DEF Local
  <2>3. exec' \in [Execs -> Local]
    BY <1>4, <2>2, NextIncidentLocal DEF RecordUnavailable
  <2> QED
    BY <1>4, <2>1, <2>3 DEF RecordUnavailable, queueVars, QueueTypeOK
<1>5. CASE CiteHit(w)
  <2>1. run[l.run] \in Row
    BY <1>1
  <2>2. <<l.attempt, <<l.inc, l.left>>>> \in Citation
    BY <1>1 DEF Citation, Evidence
  <2>3. run[l.run].cites \cup {<<l.attempt, <<l.inc, l.left>>>>} \in SUBSET Citation
    BY <2>1, <2>2 DEF Row
  <2>4. [run[l.run] EXCEPT !.cites = @ \cup {<<l.attempt, <<l.inc, l.left>>>>},
                           !.revision = @ + 1] \in Row
    BY <2>1, <2>3, CitedMarkedRow
  <2>5. run' \in [Runs -> Row]
    BY <1>1, <1>5, <2>4 DEF CiteHit
  <2>6. [l EXCEPT !.cited = TRUE] \in Local
    BY <1>1 DEF Local
  <2>7. exec' \in [Execs -> Local]
    BY <1>5, <2>6, AfterHitLocal DEF CiteHit
  <2> QED
    BY <1>5, <2>5, <2>7 DEF CiteHit, queueVars, QueueTypeOK
<1>6. CASE JudgeAnswered(w, score)
  <2>1. log' \in [Runs -> Log]
    BY <1>1, <1>6, AddEventLog DEF JudgeAnswered
  <2>2. [l EXCEPT !.pc = "finish", !.score = score] \in Local
    BY <1>1 DEF Local, PCs, Holding, Steps
  <2>3. exec' \in [Execs -> Local]
    BY <1>6, <2>2 DEF JudgeAnswered
  <2> QED
    BY <1>6, <2>1, <2>3 DEF JudgeAnswered, queueVars, QueueTypeOK
<1> QED
  BY <1>2, <1>3, <1>4, <1>5, <1>6

\* claim and the two ways to finish.
LEMMA ClaimFinishType ==
  ASSUME TypeOK, NEW w \in Execs,
         Claim(w) \/ Finish(w) \/ AbortFinish(w)
  PROVE  TypeOK'
<1> USE DEF TypeOK, DiagTypeOK
<1> DEFINE l == exec[w]
           r == exec[w].run
<1>1. l \in Local /\ r \in Runs /\ l.ret \in {"ok", "err", "skip"}
  BY DEF Local
<1>2. run[r] \in Row /\ run[r].dispatch \in Dispatches
  BY <1>1 DEF Row
<1>3. CASE Claim(w)
  <2> DEFINE a == ClaimedRow(run[r]).attempt
  <2>1. ClaimedRow(run[r]) \in Row /\ a \in Nat
    BY <1>2, ClaimedRecoveredRow
  <2>2. run' \in [Runs -> Row]
    BY <1>1, <1>3, <2>1 DEF Claim
  <2>3. log' \in [Runs -> Log]
    <3>1. AddEvent(r, a)
      BY <1>3 DEF Claim
    <3> QED
      BY <1>1, <2>1, <3>1, AddEventLog
  <2>4. exec' \in [Execs -> Local]
    <3>1. exec' = [exec EXCEPT ![w] = [l EXCEPT !.pc = "retrieve", !.attempt = a,
                                                !.dispatch = run[r].dispatch]]
      BY <1>3 DEF Claim
    <3> HIDE DEF a
    <3>2. [l EXCEPT !.pc = "retrieve", !.attempt = a, !.dispatch = run[r].dispatch] \in Local
      BY <1>1, <1>2, <2>1 DEF Local, PCs, Holding, Steps
    <3> QED
      BY <3>1, <3>2
  <2> QED
    BY <1>1, <1>3, <2>2, <2>3, <2>4 DEF Claim, queueVars, QueueTypeOK
<1>4. CASE Finish(w)
  <2>1. VerdictStatus(l) \in Terminal /\ VerdictEvidence(l) \in EvidenceStatuses
    BY DEF VerdictStatus, VerdictEvidence, Terminal, EvidenceStatuses
  <2>2. run' \in [Runs -> Row] /\ lease' \in [Runs -> BOOLEAN] /\ log' \in [Runs -> Log]
    BY <1>4, <2>1, FinishTxType DEF Finish
  <2>3. exec' \in [Execs -> Local]
    BY <1>4, ReturnLocal DEF Finish
  <2> QED
    BY <1>4, <2>2, <2>3 DEF Finish, queueVars, QueueTypeOK
<1>5. CASE AbortFinish(w)
  <2>1. "failed" \in Terminal /\ "source_unavailable" \in EvidenceStatuses
    BY DEF Terminal, EvidenceStatuses
  <2>2. run' \in [Runs -> Row] /\ lease' \in [Runs -> BOOLEAN] /\ log' \in [Runs -> Log]
    BY <1>5, <2>1, FinishTxType DEF AbortFinish
  <2>3. exec' \in [Execs -> Local]
    BY <1>1, <1>5, ReturnLocal DEF AbortFinish
  <2> QED
    BY <1>5, <2>2, <2>3 DEF AbortFinish, queueVars, QueueTypeOK
<1> QED
  BY <1>3, <1>4, <1>5

\* Every step keeps the types.
LEMMA NextType ==
  ASSUME TypeOK, [Next]_vars
  PROVE  TypeOK'
<1> USE DEF TypeOK, DiagTypeOK, Runs
<1>1. CASE UNCHANGED vars
  BY <1>1 DEF vars, QueueTypeOK
<1>2. ASSUME NEW r \in Runs, Admit(r)
      PROVE  TypeOK'
  <2>1. run[r] \in Row
    OBVIOUS
  <2>2. [run[r] EXCEPT !.status = "queued", !.revision = 1] \in Row
    BY <2>1 DEF Row, Statuses
  <2>3. run' \in [Runs -> Row]
    BY <1>2, <2>2 DEF Admit
  <2>4. log' \in [Runs -> Log]
    BY <1>2, AddEventLog DEF Admit
  <2> QED
    BY <1>2, <2>3, <2>4 DEF Admit, QueueTypeOK, OutboxStates
<1>3. CASE Dispatch
  <2>1. QueueTypeOK'
    BY <1>3, DispatchType, ItemsAssumption DEF Dispatch, MarkSent
  <2>2. ASSUME NEW r \in Runs, MarkSent(r)
        PROVE  run' \in [Runs -> Row]
    <3>1. [run[r] EXCEPT !.dispatch = "enqueued", !.revision = @ + 1] \in Row
      BY CitedMarkedRow, {} \in SUBSET Citation
    <3> QED
      BY <2>2, <3>1 DEF MarkSent
  <2>3. run' \in [Runs -> Row]
    BY <1>3, <2>2 DEF Dispatch
  <2> QED
    BY <1>3, <2>1, <2>3 DEF Dispatch, MarkSent
<1>4. ASSUME NEW w \in Execs, NEW r \in Runs, Fetch(w, r) \/ PlanCalls(w, r)
      PROVE  TypeOK'
  <2>1. [IdleAt(r) EXCEPT !.pc = "claim"] \in Local
    BY IdleAtLocal DEF PCs
  <2>2. exec' \in [Execs -> Local]
    BY <1>4, <2>1 DEF Fetch, PlanCalls
  <2>3. QueueTypeOK'
    BY <1>4, AsynqType DEF Fetch, PlanCalls, queueVars, QueueTypeOK
  <2> QED
    BY <1>4, <2>2, <2>3 DEF Fetch, PlanCalls
<1>5. ASSUME NEW w \in Execs, Work(w) \/ Failure(w)
      PROVE  TypeOK'
  <2>1. CASE SettleTask(w)
    <3>1. exec[w].run \in Runs /\ exec[w].ret \in {"ok", "err", "skip"}
      BY DEF Local
    <3>2. exec' \in [Execs -> Local]
      BY <2>1, IdleLocal DEF SettleTask
    <3>3. QueueTypeOK'
      BY <2>1, <3>1, TaskType DEF SettleTask
    <3> QED
      BY <2>1, <3>2, <3>3 DEF SettleTask
  <2>2. CASE ~SettleTask(w)
    BY <1>5, <2>2, IdleStepsType, RecordStepsType, ClaimFinishType, DiagnosisAssumption
    DEF Work, Failure
  <2> QED
    BY <2>1, <2>2
<1>6. ASSUME NEW r \in Runs, LeaseExpires(r) \/ Backoff(r) \/ Reclaim(r)
      PROVE  TypeOK'
  <2>1. QueueTypeOK'
    BY <1>6, DispatchType, AsynqType
    DEF LeaseExpires, Backoff, Reclaim, queueVars, QueueTypeOK
  <2> QED
    BY <1>6, <2>1 DEF LeaseExpires, Backoff, Reclaim
<1>7. ASSUME NEW g \in BOOLEAN, Exit(g)
      PROVE  TypeOK'
  <2>1. QueueTypeOK'
    BY <1>7, AsynqType, ItemsAssumption DEF Exit
  <2> QED
    BY <1>7, <2>1, IdleLocal DEF Exit
<1>8. CASE Boot
  <2>1. \A r \in Runs : run[r] \in Row /\ log[r] \in Log /\ RecoveredRow(run[r]) \in Row
    BY ClaimedRecoveredRow
  <2>2. run' \in [Runs -> Row]
    BY <1>8, <2>1 DEF Boot
  <2>3. \A r \in Runs : [log[r] EXCEPT !.last = run[r].attempt] \in Log
    BY <2>1 DEF Log, Row
  <2>4. log' \in [Runs -> Log]
    BY <1>8, <2>1, <2>3 DEF Boot
  <2> QED
    BY <1>8, <2>2, <2>4 DEF Boot, QueueTypeOK, OutboxStates
<1> QED
  BY <1>1, <1>2, <1>3, <1>4, <1>5, <1>6, <1>7, <1>8 DEF Next

\* Every state the program reaches has the types of TypeOK, with any number of
\* executors, exits and failures: no loop counter, retry count or row leaves its range.
THEOREM TypeCorrect == Spec => []TypeOK
<1>1. Init => TypeOK
  <2> SUFFICES ASSUME Init PROVE TypeOK
    OBVIOUS
  <2>1. QueueTypeOK
    BY QueueInitType DEF Init
  <2>2. NoRow \in Row
    BY DEF NoRow, Row, Statuses, Dispatches, EvidenceStatuses
  <2>3. [last |-> 0, reports |-> {}] \in Log
    BY DEF Log
  <2> QED
    BY <2>1, <2>2, <2>3, IdleLocal DEF Init, TypeOK, DiagTypeOK
<1>2. TypeOK /\ [Next]_vars => TypeOK'
  BY NextType
<1> QED
  BY <1>1, <1>2, PTL DEF Spec

-----------------------------------------------------------------------------
(* What a step may do to one row: the case split behind the safety proofs  *)

SameReports(r) == log'[r].reports = log[r].reports

\* The transaction of Dispatch that settles a delivery of this run.
RowMarked(r) ==
  /\ offer = [kind |-> "delivered", item |-> r]
  /\ run'[r].revision = run[r].revision + 1

\* Bookkeeping of Dispatch, or nothing; events only while the run is not final, and of
\* its current attempt.
RowKept(r) ==
  /\ run'[r] = [run[r] EXCEPT !.dispatch = run'[r].dispatch, !.revision = run'[r].revision]
  /\ run'[r] = run[r] \/ RowMarked(r)
  /\ SameReports(r)
  /\ log'[r].last \in {log[r].last, run[r].attempt}
  /\ run[r].status \in Terminal => log'[r] = log[r]

RowAdmitted(r) ==
  /\ run[r].status = "absent"
  /\ run'[r] = [run[r] EXCEPT !.status = "queued", !.revision = 1]
  /\ SameReports(r)
  /\ log'[r].last = 0

RowClaimed(r) ==
  /\ run[r].status \in {"queued", "running"}
  /\ run'[r] = ClaimedRow(run[r])
  /\ SameReports(r)
  /\ log'[r].last = run'[r].attempt

RowCited(r) ==
  /\ run[r].status = "running"
  /\ \E e \in Evidence :
       run'[r] = [run[r] EXCEPT !.cites = @ \cup {<<run[r].attempt, e>>}, !.revision = @ + 1]
  /\ \E w \in Execs : exec[w].run = r /\ CiteHit(w)
  /\ SameReports(r)
  /\ log'[r].last = log[r].last

\* The evidence status of a succeeded run is what its owner remembers of its hits.
FinishedBySteps(r) ==
  \E w \in Execs :
    /\ exec[w].run = r
    /\ exec[w].pc \in Steps
    /\ Owned(w)
    /\ run'[r].evidence = "has_citations" <=> exec[w].cited

RowFinished(r) ==
  /\ run[r].status = "running"
  /\ \E s \in Terminal :
       /\ run'[r].status = s
       /\ log'[r].reports = log[r].reports \cup {<<run[r].attempt, s>>}
  /\ run'[r].attempt = run[r].attempt
  /\ run'[r].revision = run[r].revision + 1
  /\ run'[r].report = run[r].attempt
  /\ run'[r].cites = run[r].cites
  /\ run'[r].status = "succeeded" => FinishedBySteps(r)
  /\ log'[r].last = run[r].attempt

RowRecovered(r) ==
  /\ run[r].status = "running"
  /\ run'[r] = RecoveredRow(run[r])
  /\ SameReports(r)
  /\ log'[r].last = run[r].attempt

RowStep(r) ==
  \/ RowKept(r) \/ RowAdmitted(r) \/ RowClaimed(r)
  \/ RowCited(r) \/ RowFinished(r) \/ RowRecovered(r)

\* The fields of the row after each of these steps.
LEMMA RowFields ==
  ASSUME TypeOK, NEW r \in Runs
  PROVE  /\ RowKept(r) =>
              /\ run'[r].status = run[r].status /\ run'[r].attempt = run[r].attempt
              /\ run'[r].cites = run[r].cites /\ run'[r].evidence = run[r].evidence
              /\ run'[r].report = run[r].report
         /\ RowAdmitted(r) =>
              /\ run'[r].status = "queued" /\ run'[r].attempt = run[r].attempt
              /\ run[r].status = "absent" /\ log'[r].last = 0
              /\ run'[r].revision = 1 /\ run'[r].cites = run[r].cites
              /\ run'[r].report = run[r].report
         /\ RowClaimed(r) =>
              /\ run'[r].status = "running" /\ run'[r].attempt = run[r].attempt + 1
              /\ run'[r].revision = run[r].revision + 1
              /\ run'[r].cites = {} /\ run'[r].report = 0
         /\ RowCited(r) =>
              /\ run'[r].status = "running" /\ run'[r].attempt = run[r].attempt
              /\ run'[r].revision = run[r].revision + 1 /\ run'[r].report = run[r].report
              /\ \E e \in Evidence : run'[r].cites = run[r].cites \cup {<<run[r].attempt, e>>}
         /\ RowRecovered(r) =>
              /\ run'[r].status = "queued" /\ run'[r].attempt = run[r].attempt + 1
              /\ run'[r].revision = run[r].revision + 1
              /\ run'[r].cites = run[r].cites /\ run'[r].report = run[r].report
<1>1. run[r] \in Row
  BY DEF TypeOK, DiagTypeOK
<1>2. RowKept(r) =>
        /\ run'[r].status = run[r].status /\ run'[r].attempt = run[r].attempt
        /\ run'[r].cites = run[r].cites /\ run'[r].evidence = run[r].evidence
        /\ run'[r].report = run[r].report
  BY <1>1 DEF RowKept, Row
<1>3. RowAdmitted(r) =>
        /\ run'[r].status = "queued" /\ run'[r].attempt = run[r].attempt
        /\ run[r].status = "absent" /\ log'[r].last = 0
        /\ run'[r].revision = 1 /\ run'[r].cites = run[r].cites
        /\ run'[r].report = run[r].report
  BY <1>1 DEF RowAdmitted, Row
<1>4. RowClaimed(r) =>
        /\ run'[r].status = "running" /\ run'[r].attempt = run[r].attempt + 1
        /\ run'[r].revision = run[r].revision + 1
        /\ run'[r].cites = {} /\ run'[r].report = 0
  BY <1>1 DEF RowClaimed, ClaimedRow, Row
<1>5. RowCited(r) =>
        /\ run'[r].status = "running" /\ run'[r].attempt = run[r].attempt
        /\ run'[r].revision = run[r].revision + 1 /\ run'[r].report = run[r].report
        /\ \E e \in Evidence : run'[r].cites = run[r].cites \cup {<<run[r].attempt, e>>}
  BY <1>1 DEF RowCited, Row
<1>6. RowRecovered(r) =>
        /\ run'[r].status = "queued" /\ run'[r].attempt = run[r].attempt + 1
        /\ run'[r].revision = run[r].revision + 1
        /\ run'[r].cites = run[r].cites /\ run'[r].report = run[r].report
  BY <1>1 DEF RowRecovered, RecoveredRow, Row
<1> QED
  BY <1>2, <1>3, <1>4, <1>5, <1>6

\* A step that writes no run row, and events only for a run that is not final.
LEMMA RowsUntouched ==
  ASSUME TypeOK, NEW r \in Runs, run' = run,
         \/ log' = log
         \/ \E q \in Runs : run[q].status \notin Terminal /\ AddEvent(q, run[q].attempt)
  PROVE  RowKept(r)
<1>1. run[r] \in Row /\ log[r] \in Log
  BY DEF TypeOK, DiagTypeOK
<1>2. run'[r] = [run[r] EXCEPT !.dispatch = run'[r].dispatch, !.revision = run'[r].revision]
  BY <1>1 DEF Row
<1>3. /\ SameReports(r) /\ (run[r].status \in Terminal => log'[r] = log[r])
      /\ log'[r].last \in {log[r].last, run[r].attempt}
  BY <1>1 DEF SameReports, AddEvent, TypeOK, DiagTypeOK, Log
<1> QED
  BY <1>2, <1>3 DEF RowKept

\* finish, whoever calls it, finishes the row of its run.
LEMMA FinishTxRow ==
  ASSUME TypeOK, NEW r \in Runs, NEW w \in Execs, NEW status \in Terminal,
         NEW evidence \in EvidenceStatuses, NEW score, FinishTx(w, status, evidence, score),
         status = "succeeded" => /\ exec[w].pc \in Steps
                                 /\ evidence = "has_citations" <=> exec[w].cited
  PROVE  RowKept(r) \/ RowFinished(r)
<1> DEFINE q == exec[w].run
<1>1. q \in Runs /\ run[q] \in Row /\ log[q] \in Log /\ run[r] \in Row
  BY DEF TypeOK, DiagTypeOK, Local
<1>2. run[q].status = "running" /\ run[q].attempt = exec[w].attempt
  BY DEF FinishTx, Owned
<1>3. CASE r = q
  <2>1. run'[r] = FinishedRow(run[r], exec[w], status, evidence, score)
    BY <1>1, <1>3 DEF FinishTx, TypeOK, DiagTypeOK
  <2>2. /\ log'[r].reports = log[r].reports \cup {<<exec[w].attempt, status>>}
        /\ log'[r].last = run[r].attempt
    BY <1>1, <1>2, <1>3 DEF FinishTx, AddReport, TypeOK, DiagTypeOK, Log
  <2>3. status = "succeeded" => FinishedBySteps(r)
    BY <1>3, <2>1 DEF FinishedBySteps, FinishedRow, FinishTx
  <2> QED
    BY <1>2, <1>3, <2>1, <2>2, <2>3 DEF RowFinished, FinishedRow
<1>4. CASE r # q
  <2>1. run'[r] = run[r] /\ log'[r] = log[r]
    BY <1>1, <1>4 DEF FinishTx, AddReport, TypeOK, DiagTypeOK
  <2> QED
    BY <1>1, <2>1 DEF RowKept, SameReports, Row
<1> QED
  BY <1>3, <1>4

\* Every step of the program does one of the six things to every row.
LEMMA NextRow ==
  ASSUME TypeOK, [Next]_vars, NEW r \in Runs
  PROVE  RowStep(r)
<1> USE DEF TypeOK, DiagTypeOK
<1>0. run[r] \in Row /\ log[r] \in Log /\ (run'[r] = run[r] => run'[r] =
        [run[r] EXCEPT !.dispatch = run'[r].dispatch, !.revision = run'[r].revision])
  BY DEF Row
<1>1. CASE UNCHANGED vars
  BY <1>1, RowsUntouched DEF vars, RowStep
<1>2. ASSUME NEW q \in Runs, Admit(q)
      PROVE  RowStep(r)
  <2>1. CASE q = r
    <3>1. SameReports(r) /\ log'[r].last = 0
      BY <1>0, <1>2, <2>1 DEF Admit, AddEvent, Log, SameReports
    <3> QED
      BY <1>0, <1>2, <2>1, <3>1 DEF Admit, RowAdmitted, RowStep
  <2>2. CASE q # r
    BY <1>0, <1>2, <2>2 DEF Admit, AddEvent, RowKept, SameReports, RowStep
  <2> QED
    BY <2>1, <2>2
<1>3. CASE Dispatch
  <2>1. CASE run' = run
    BY <1>3, <2>1, RowsUntouched DEF Dispatch, MarkSent, RowStep
  <2>2. ASSUME NEW q \in Runs, MarkSent(q)
        PROVE  RowStep(r)
    <3>1. run'[r] = [run[r] EXCEPT !.dispatch = run'[r].dispatch, !.revision = run'[r].revision]
      <4>1. CASE q = r
        <5>1. run'[r] = [run[r] EXCEPT !.dispatch = "enqueued", !.revision = @ + 1]
          BY <2>2, <4>1 DEF MarkSent
        <5> QED
          BY <1>0, <5>1 DEF Row
      <4>2. CASE q # r
        BY <1>0, <2>2, <4>2 DEF MarkSent
      <4> QED
        BY <4>1, <4>2
    <3>2. run'[r] = run[r] \/ RowMarked(r)
      BY <1>0, <2>2 DEF MarkSent, SettleSent, RowMarked, Row
    <3> QED
      BY <2>2, <3>1, <3>2 DEF MarkSent, RowKept, SameReports, RowStep
  <2> QED
    BY <1>3, <2>1, <2>2 DEF Dispatch
<1>4. ASSUME NEW w \in Execs, NEW q \in Runs, Fetch(w, q) \/ PlanCalls(w, q)
      PROVE  RowStep(r)
  BY <1>4, RowsUntouched DEF Fetch, PlanCalls, RowStep
<1>5. ASSUME NEW w \in Execs, Work(w) \/ Failure(w)
      PROVE  RowStep(r)
  <2> DEFINE l == exec[w]
             q == exec[w].run
  <2>0. q \in Runs /\ l.attempt \in Nat /\ l.inc \in 1..NIncidents /\ l.left \in 0..NHits
    BY DEF Local
  <2>1. CASE \/ ClaimTerminal(w) \/ ClaimLeased(w) \/ FencedOut(w) \/ SkipHit(w)
             \/ AbortFenced(w) \/ SettleTask(w) \/ PlanAnswered(w) \/ Failure(w)
    BY <2>1, RowsUntouched
    DEF ClaimTerminal, ClaimLeased, FencedOut, SkipHit, AbortFenced, SettleTask, PlanAnswered,
        Failure, ClaimFails, ContextEnded, StepFails, StepPanics, AbortFails, RowStep
  <2>2. CASE Claim(w)
    <3>1. CASE q = r
      <4>1. run'[r] = ClaimedRow(run[r]) /\ SameReports(r) /\ log'[r].last = run'[r].attempt
        BY <1>0, <2>2, <3>1 DEF Claim, AddEvent, SameReports, Log
      <4>2. run[r].status \in {"queued", "running"}
        BY <2>2, <3>1 DEF Claim, Claimable
      <4> QED
        BY <4>1, <4>2 DEF RowClaimed, RowStep
    <3>2. CASE q # r
      <4>1. run'[r] = run[r] /\ log'[r] = log[r]
        BY <2>0, <2>2, <3>2 DEF Claim, AddEvent
      <4> QED
        BY <1>0, <4>1 DEF RowKept, SameReports, RowStep
    <3> QED
      BY <3>1, <3>2
  <2>3. CASE \/ BeginRetrieval(w) \/ RecordUnavailable(w) \/ JudgeSkipped(w) \/ JudgeStarted(w)
             \/ \E n \in 0..NHits : RecordRetrieval(w, n)
             \/ \E s \in {"none", "good", "low"} : JudgeAnswered(w, s)
    <3>1. run' = run /\ Owned(w) /\ AddEvent(q, l.attempt)
      BY <2>3 DEF BeginRetrieval, RecordUnavailable, JudgeSkipped, JudgeStarted,
                  RecordRetrieval, JudgeAnswered
    <3>2. run[q].status \notin Terminal /\ run[q].attempt = l.attempt
      BY <3>1 DEF Owned, Terminal
    <3> QED
      BY <2>0, <3>1, <3>2, RowsUntouched DEF RowStep
  <2>4. CASE CiteHit(w)
    <3>1. CASE q = r
      <4>1. /\ run[r].status = "running" /\ run[r].attempt = l.attempt
            /\ SameReports(r) /\ log'[r].last = log[r].last
        BY <2>4, <3>1 DEF CiteHit, Owned, SameReports
      <4>2. <<l.inc, l.left>> \in Evidence
        BY <2>0 DEF Evidence
      <4>3. run'[r] = [run[r] EXCEPT !.cites = @ \cup {<<l.attempt, <<l.inc, l.left>>>>},
                                     !.revision = @ + 1]
        BY <2>4, <3>1 DEF CiteHit
      <4> QED
        BY <2>4, <3>1, <4>1, <4>2, <4>3 DEF RowCited, RowStep
    <3>2. CASE q # r
      <4>1. run'[r] = run[r] /\ log'[r] = log[r]
        BY <2>0, <2>4, <3>2 DEF CiteHit
      <4> QED
        BY <1>0, <4>1 DEF RowKept, SameReports, RowStep
    <3> QED
      BY <3>1, <3>2
  <2>5. CASE Finish(w)
    <3>1. VerdictStatus(l) \in Terminal /\ VerdictEvidence(l) \in EvidenceStatuses
      BY DEF VerdictStatus, VerdictEvidence, Terminal, EvidenceStatuses
    <3>2. VerdictStatus(l) = "succeeded" =>
            (VerdictEvidence(l) = "has_citations" <=> l.cited)
      BY DEF VerdictStatus, VerdictEvidence
    <3> QED
      BY <2>5, <3>1, <3>2, FinishTxRow DEF Finish, RowStep, Steps
  <2>6. CASE AbortFinish(w)
    <3>1. /\ "failed" \in Terminal /\ "source_unavailable" \in EvidenceStatuses
          /\ "failed" # "succeeded"
      BY DEF Terminal, EvidenceStatuses
    <3> QED
      BY <2>6, <3>1, FinishTxRow DEF AbortFinish, RowStep
  <2> QED
    BY <1>5, <2>1, <2>2, <2>3, <2>4, <2>5, <2>6 DEF Work
<1>6. ASSUME NEW q \in Runs, LeaseExpires(q) \/ Backoff(q) \/ Reclaim(q)
      PROVE  RowStep(r)
  BY <1>6, RowsUntouched DEF LeaseExpires, Backoff, Reclaim, RowStep
<1>7. ASSUME NEW g \in BOOLEAN, Exit(g)
      PROVE  RowStep(r)
  BY <1>7, RowsUntouched DEF Exit, RowStep
<1>8. CASE Boot
  <2>1. CASE r \in Interrupted
    <3>1. run'[r] = RecoveredRow(run[r]) /\ run[r].status = "running"
      BY <1>8, <2>1 DEF Boot, Interrupted
    <3>2. SameReports(r) /\ log'[r].last = run[r].attempt
      BY <1>0, <1>8, <2>1 DEF Boot, SameReports, Log
    <3> QED
      BY <3>1, <3>2 DEF RowRecovered, RowStep
  <2>2. CASE r \notin Interrupted
    <3>1. run'[r] = run[r] /\ log'[r] = log[r]
      BY <1>8, <2>2 DEF Boot
    <3> QED
      BY <1>0, <3>1 DEF RowKept, SameReports, RowStep
  <2> QED
    BY <2>1, <2>2
<1> QED
  BY <1>1, <1>2, <1>3, <1>4, <1>5, <1>6, <1>7, <1>8 DEF Next

-----------------------------------------------------------------------------
(* Reports and citations                                                   *)

\* A run that is executing or final shows only citations of its current attempt,
\* whatever stale executors still do (claim, diagnose and finish).
THEOREM CitationsProved == Spec => []CitationsOfCurrentAttempt
<1>1. Init => CitationsOfCurrentAttempt
  BY DEF Init, NoRow, CitationsOfCurrentAttempt
<1>2. TypeOK /\ CitationsOfCurrentAttempt /\ [Next]_vars => CitationsOfCurrentAttempt'
  <2> SUFFICES ASSUME TypeOK, CitationsOfCurrentAttempt, [Next]_vars,
                      NEW r \in Runs, run'[r].status \notin {"absent", "queued"},
                      NEW c \in run'[r].cites
               PROVE  c[1] = run'[r].attempt
    BY DEF CitationsOfCurrentAttempt
  <2>0. run[r] \in Row
    BY DEF TypeOK, DiagTypeOK
  <2>1. RowStep(r)
    BY NextRow
  <2>2. CASE RowKept(r)
    BY <2>0, <2>2 DEF RowKept, Row, CitationsOfCurrentAttempt
  <2>3. CASE RowAdmitted(r)
    BY <2>0, <2>3 DEF RowAdmitted, Row
  <2>4. CASE RowClaimed(r)
    BY <2>0, <2>4 DEF RowClaimed, ClaimedRow, Row
  <2>5. CASE RowCited(r)
    BY <2>0, <2>5 DEF RowCited, Row, CitationsOfCurrentAttempt
  <2>6. CASE RowFinished(r)
    BY <2>6 DEF RowFinished, CitationsOfCurrentAttempt
  <2>7. CASE RowRecovered(r)
    BY <2>0, <2>7 DEF RowRecovered, RecoveredRow, Row
  <2> QED
    BY <2>1, <2>2, <2>3, <2>4, <2>5, <2>6, <2>7 DEF RowStep
<1> QED
  BY <1>1, <1>2, TypeCorrect, PTL DEF Spec

\* The timeline of a run has its one report event, of the attempt and outcome the row
\* shows, exactly when the run is final (finish).
THEOREM OneReportProved == Spec => []OneReportPerRun
<1>1. Init => OneReportPerRun
  BY DEF Init, NoRow, Terminal, OneReportPerRun
<1>2. TypeOK /\ OneReportPerRun /\ [Next]_vars => OneReportPerRun'
  <2> SUFFICES ASSUME TypeOK, OneReportPerRun, [Next]_vars, NEW r \in Runs
               PROVE  log'[r].reports = IF run'[r].status \in Terminal
                                          THEN {<<run'[r].attempt, run'[r].status>>} ELSE {}
    BY DEF OneReportPerRun
  <2>0. run[r] \in Row
    BY DEF TypeOK, DiagTypeOK
  <2>1. RowStep(r)
    BY NextRow
  <2>2. CASE RowKept(r)
    BY <2>0, <2>2 DEF RowKept, SameReports, Row, OneReportPerRun
  <2>3. CASE RowAdmitted(r)
    BY <2>0, <2>3 DEF RowAdmitted, SameReports, Row, Terminal, OneReportPerRun
  <2>4. CASE RowClaimed(r)
    BY <2>0, <2>4 DEF RowClaimed, ClaimedRow, SameReports, Row, Terminal, OneReportPerRun
  <2>5. CASE RowCited(r)
    BY <2>0, <2>5 DEF RowCited, SameReports, Row, Terminal, OneReportPerRun
  <2>6. CASE RowFinished(r)
    BY <2>6 DEF RowFinished, Terminal, OneReportPerRun
  <2>7. CASE RowRecovered(r)
    BY <2>0, <2>7 DEF RowRecovered, RecoveredRow, SameReports, Row, Terminal, OneReportPerRun
  <2> QED
    BY <2>1, <2>2, <2>3, <2>4, <2>5, <2>6, <2>7 DEF RowStep
<1> QED
  BY <1>1, <1>2, TypeCorrect, PTL DEF Spec

\* No late worker, redelivered task, /plan request or Recover changes a final run.
THEOREM FinalStaysFinalProved == Spec => FinalStaysFinal
<1>1. TypeOK /\ [Next]_vars =>
        [\A r \in Runs : run[r].status \in Terminal =>
           /\ run'[r] = [run[r] EXCEPT !.dispatch = run'[r].dispatch,
                                       !.revision = run'[r].revision]
           /\ log'[r] = log[r]]_vars
  <2> SUFFICES ASSUME TypeOK, [Next]_vars, NEW r \in Runs, run[r].status \in Terminal
               PROVE  RowKept(r)
    BY DEF RowKept
  <2>1. RowStep(r)
    BY NextRow
  <2> QED
    BY <2>1 DEF RowStep, RowAdmitted, RowClaimed, RowCited, RowFinished, RowRecovered, Terminal
<1> QED
  BY <1>1, TypeCorrect, PTL DEF Spec, FinalStaysFinal

-----------------------------------------------------------------------------
(* Attempts                                                                *)

\* An executor that holds a run after a step held it before, as the same attempt, or
\* has just claimed it; inside diagnose it remembers whether it has cited anything.
LEMMA HoldersPersist ==
  ASSUME TypeOK, [Next]_vars, NEW w \in Execs, exec'[w].pc \in Holding
  PROVE  \/ /\ exec[w].pc \in Holding
            /\ exec'[w].run = exec[w].run
            /\ exec'[w].attempt = exec[w].attempt
            /\ exec'[w].pc \in Steps =>
                 /\ exec[w].pc \in Steps
                 /\ CiteHit(w) \/ exec'[w].cited = exec[w].cited
         \/ Claim(w)
<1> USE DEF TypeOK, DiagTypeOK
<1> DEFINE Kept == /\ exec[w].pc \in Holding
                   /\ exec'[w].run = exec[w].run
                   /\ exec'[w].attempt = exec[w].attempt
                   /\ exec'[w].pc \in Steps =>
                        /\ exec[w].pc \in Steps
                        /\ CiteHit(w) \/ exec'[w].cited = exec[w].cited
<1>0. exec[w] \in Local
  OBVIOUS
<1>1. CASE exec'[w] = exec[w]
  BY <1>1
<1>2. ASSUME NEW v \in Execs, NEW q \in Runs, Fetch(v, q) \/ PlanCalls(v, q)
      PROVE  Kept
  BY <1>0, <1>2 DEF Fetch, PlanCalls, IdleAt, Holding, Steps
<1>3. ASSUME NEW v \in Execs, Work(v) \/ Failure(v), v # w
      PROVE  exec'[w] = exec[w]
  <2>1. Work(v) => exec'[w] = exec[w]
    BY <1>3
    DEF Work, ClaimTerminal, ClaimLeased, Claim, FencedOut, BeginRetrieval, RecordRetrieval,
        RecordUnavailable, CiteHit, SkipHit, JudgeSkipped, JudgeStarted, JudgeAnswered,
        Finish, AbortFinish, AbortFenced, SettleTask, PlanAnswered, Goto, Return
  <2>2. Failure(v) => exec'[w] = exec[w]
    BY <1>3
    DEF Failure, ClaimFails, ContextEnded, StepFails, StepPanics, AbortFails, Return, Abort
  <2> QED
    BY <1>3, <2>1, <2>2
<1>4. ASSUME Work(w) \/ Failure(w)
      PROVE  Kept \/ Claim(w)
  <2>1. CASE \/ ClaimTerminal(w) \/ ClaimLeased(w) \/ FencedOut(w) \/ Finish(w)
             \/ AbortFinish(w) \/ AbortFenced(w) \/ ClaimFails(w) \/ AbortFails(w)
    <3>1. PICK how : Return(w, how)
      BY <2>1 DEF ClaimTerminal, ClaimLeased, FencedOut, Finish, AbortFinish, AbortFenced,
                  ClaimFails, AbortFails
    <3>2. exec'[w].pc = "ret"
      BY <3>1 DEF Return, IdleAt
    <3> QED
      BY <3>2 DEF Holding, Steps
  <2>2. CASE SettleTask(w) \/ PlanAnswered(w)
    <3>1. SettleTask(w) => exec'[w].pc = "idle"
      BY DEF SettleTask, Idle, IdleAt
    <3>2. PlanAnswered(w) => exec'[w].pc = "done"
      BY <1>0 DEF PlanAnswered, Goto, Local
    <3> QED
      BY <2>2, <3>1, <3>2 DEF Holding, Steps
  <2>3. CASE BeginRetrieval(w) \/ JudgeSkipped(w) \/ JudgeStarted(w) \/ ContextEnded(w)
    BY <1>0, <2>3
    DEF BeginRetrieval, JudgeSkipped, JudgeStarted, ContextEnded, Goto, Local, Holding, Steps
  <2>4. CASE \E s \in {"none", "good", "low"} : JudgeAnswered(w, s)
    BY <1>0, <2>4 DEF JudgeAnswered, Local, Holding, Steps
  <2>5. CASE StepFails(w) \/ StepPanics(w)
    <3>1. PICK how : Abort(w, how)
      BY <2>5 DEF StepFails, StepPanics
    <3>2. /\ exec'[w].run = exec[w].run /\ exec'[w].attempt = exec[w].attempt
          /\ exec'[w].pc = "abort"
      BY <3>1 DEF Abort, IdleAt
    <3> QED
      BY <2>5, <3>2 DEF StepFails, StepPanics, Holding, Steps
  <2>6. CASE \/ \E n \in 0..NHits : RecordRetrieval(w, n)
             \/ RecordUnavailable(w) \/ CiteHit(w) \/ SkipHit(w)
    <3>1. exec[w].pc \in Holding /\ exec[w].pc \in Steps
      BY <2>6 DEF RecordRetrieval, RecordUnavailable, CiteHit, SkipHit, Holding, Steps
    <3>2. \A l \in Local : /\ NextIncident(l).run = l.run /\ NextIncident(l).attempt = l.attempt
                           /\ AfterHit(l).run = l.run /\ AfterHit(l).attempt = l.attempt
                           /\ NextIncident(l).cited = l.cited /\ AfterHit(l).cited = l.cited
      BY DEF Local, NextIncident, AfterHit
    <3>3. /\ [exec[w] EXCEPT !.lost = TRUE] \in Local
          /\ [exec[w] EXCEPT !.cited = TRUE] \in Local
      BY <1>0 DEF Local
    <3>4. /\ exec'[w].run = exec[w].run /\ exec'[w].attempt = exec[w].attempt
          /\ CiteHit(w) \/ exec'[w].cited = exec[w].cited
      <4>1. CASE \E n \in 0..NHits : RecordRetrieval(w, n)
        <5>1. PICK n \in 0..NHits :
                exec'[w] = IF n = 0 THEN NextIncident(exec[w])
                                    ELSE [exec[w] EXCEPT !.pc = "cite", !.left = n]
          BY <4>1 DEF RecordRetrieval
        <5> QED
          BY <1>0, <3>2, <5>1 DEF Local
      <4>2. CASE RecordUnavailable(w)
        <5>1. exec'[w] = NextIncident([exec[w] EXCEPT !.lost = TRUE])
          BY <4>2 DEF RecordUnavailable
        <5> QED
          BY <1>0, <3>2, <3>3, <5>1 DEF Local
      <4>3. CASE CiteHit(w)
        <5>1. exec'[w] = AfterHit([exec[w] EXCEPT !.cited = TRUE])
          BY <4>3 DEF CiteHit
        <5> QED
          BY <1>0, <3>2, <3>3, <4>3, <5>1 DEF Local
      <4>4. CASE SkipHit(w)
        BY <1>0, <3>2, <4>4 DEF SkipHit
      <4> QED
        BY <2>6, <4>1, <4>2, <4>3, <4>4
    <3> QED
      BY <3>1, <3>4
  <2> QED
    BY <1>4, <2>1, <2>2, <2>3, <2>4, <2>5, <2>6 DEF Work, Failure
<1>5. ASSUME NEW g \in BOOLEAN, Exit(g)
      PROVE  Kept
  BY <1>5 DEF Exit, Idle, IdleAt, Holding, Steps
<1>6. CASE UNCHANGED exec
  BY <1>1, <1>6
<1>7. \/ UNCHANGED exec
      \/ \E v \in Execs, q \in Runs : Fetch(v, q) \/ PlanCalls(v, q)
      \/ \E v \in Execs : Work(v) \/ Failure(v)
      \/ \E g \in BOOLEAN : Exit(g)
  BY DEF Next, vars, Admit, Dispatch, MarkSent, LeaseExpires, Backoff, Reclaim, Boot
<1> QED
  BY <1>1, <1>2, <1>3, <1>4, <1>5, <1>6, <1>7

\* The attempt of a row never goes down.
LEMMA AttemptGrows ==
  ASSUME TypeOK, [Next]_vars, NEW r \in Runs
  PROVE  run[r].attempt \in Nat /\ run'[r].attempt \in Nat /\ run[r].attempt <= run'[r].attempt
<1>1. run[r] \in Row
  BY DEF TypeOK, DiagTypeOK
<1>2. RowStep(r)
  BY NextRow
<1>3. RowKept(r) \/ RowAdmitted(r) \/ RowCited(r) \/ RowFinished(r)
        => run'[r].attempt = run[r].attempt
  BY <1>1 DEF RowKept, RowAdmitted, RowCited, RowFinished, Row
<1>4. RowClaimed(r) \/ RowRecovered(r) => run'[r].attempt = run[r].attempt + 1
  BY <1>1 DEF RowClaimed, RowRecovered, ClaimedRow, RecoveredRow, Row
<1>5. run[r].attempt \in Nat
  BY <1>1 DEF Row
<1> QED
  BY <1>2, <1>3, <1>4, <1>5 DEF RowStep

\* The fence of service.go is sound for any number of executors: no two of them ever
\* hold the same run as the same attempt, so at most one of them is `owned'.
THEOREM AttemptsProved == Spec => []AttemptsAreExclusive
<1>1. Init => AttemptsAreExclusive
  BY DEF Init, Idle, IdleAt, Holding, Steps, AttemptsAreExclusive
<1>2. TypeOK /\ AttemptsAreExclusive /\ [Next]_vars => AttemptsAreExclusive'
  <2> SUFFICES ASSUME TypeOK, AttemptsAreExclusive, [Next]_vars,
                      NEW w \in Execs, exec'[w].pc \in Holding
               PROVE  /\ exec'[w].attempt <= run'[exec'[w].run].attempt
                      /\ \A v \in Execs \ {w} :
                           exec'[v].pc \in Holding /\ exec'[v].run = exec'[w].run
                             => exec'[v].attempt # exec'[w].attempt
    BY DEF AttemptsAreExclusive
  <2>0. \A v \in Execs : exec[v].run \in Runs /\ exec[v].attempt \in Nat
    BY DEF TypeOK, DiagTypeOK, Local
  <2>1. ASSUME NEW v \in Execs, Claim(v)
        PROVE  /\ exec'[v].run = exec[v].run
               /\ exec'[v].attempt = run[exec[v].run].attempt + 1
               /\ run'[exec[v].run].attempt = run[exec[v].run].attempt + 1
               /\ \A u \in Execs \ {v} : exec'[u] = exec[u]
    <3>1. exec[v] \in Local /\ run[exec[v].run] \in Row
      BY <2>0 DEF TypeOK, DiagTypeOK
    <3>2. ClaimedRow(run[exec[v].run]).attempt = run[exec[v].run].attempt + 1
      BY <3>1 DEF ClaimedRow, Row
    <3> QED
      BY <2>0, <2>1, <3>1, <3>2 DEF Claim, TypeOK, DiagTypeOK, Local
  <2>2. CASE \E v \in Execs : Claim(v)
    <3>1. PICK v \in Execs : Claim(v)
      BY <2>2
    <3>2. \A u \in Execs \ {v} : exec'[u] = exec[u]
      BY <2>1, <3>1
    <3>3. \A r \in Runs : run[r].attempt \in Nat /\ run[r].attempt <= run'[r].attempt
      BY AttemptGrows
    <3>4. \A u \in Execs \ {v} : exec'[u].pc \in Holding =>
            /\ exec'[u].attempt <= run[exec'[u].run].attempt
            /\ exec'[u].attempt \in Nat /\ exec'[u].run \in Runs
      BY <2>0, <3>2 DEF AttemptsAreExclusive
    <3>5. CASE w = v
      BY <2>0, <2>1, <3>1, <3>3, <3>4, <3>5
    <3>6. CASE w # v
      <4>1. exec'[w].attempt <= run'[exec'[w].run].attempt
        BY <2>0, <3>2, <3>3, <3>4, <3>6, AttemptGrows
      <4>2. ASSUME NEW u \in Execs \ {w}, exec'[u].pc \in Holding, exec'[u].run = exec'[w].run
            PROVE  exec'[u].attempt # exec'[w].attempt
        <5>1. CASE u = v
          BY <2>0, <2>1, <3>1, <3>3, <3>4, <3>6, <4>2, <5>1
        <5>2. CASE u # v
          BY <3>2, <3>6, <4>2, <5>2 DEF AttemptsAreExclusive
        <5> QED
          BY <5>1, <5>2
      <4> QED
        BY <4>1, <4>2
    <3> QED
      BY <3>5, <3>6
  <2>3. CASE ~ \E v \in Execs : Claim(v)
    <3>1. \A v \in Execs : exec'[v].pc \in Holding =>
            /\ exec[v].pc \in Holding
            /\ exec'[v].run = exec[v].run
            /\ exec'[v].attempt = exec[v].attempt
      BY <2>3, HoldersPersist
    <3>2. exec'[w].attempt <= run'[exec'[w].run].attempt
      BY <2>0, <3>1, AttemptGrows DEF AttemptsAreExclusive
    <3> QED
      BY <3>1, <3>2 DEF AttemptsAreExclusive
  <2> QED
    BY <2>2, <2>3
<1> QED
  BY <1>1, <1>2, TypeCorrect, PTL DEF Spec

-----------------------------------------------------------------------------
(* Runs that nobody has asked for yet                                      *)

\* Before insertRun a run has no row, no event, no outbox row, and Dispatch knows
\* nothing of it; and no event is of an attempt that the row has not reached.
Unasked ==
  \A r \in Runs :
    /\ run[r].status = "absent" =>
         /\ run[r].attempt = 0 /\ run[r].revision = 0
         /\ outbox[r] = "absent" /\ r \notin batch
         /\ \A k \in {"delivered", "failed"} : offer # [kind |-> k, item |-> r]
    /\ log[r].last <= run[r].attempt

\* A run stays unknown to Dispatch until insertRun.
LEMMA UnaskedQueue ==
  ASSUME TypeOK, Unasked, [Next]_vars, NEW r \in Runs,
         run[r].status = "absent", run'[r].status = "absent"
  PROVE  /\ outbox'[r] = "absent" /\ r \notin batch'
         /\ \A k \in {"delivered", "failed"} : offer' # [kind |-> k, item |-> r]
<1> USE DEF TypeOK, DiagTypeOK, QueueTypeOK, Unasked, Runs
<1>0. outbox[r] = "absent" /\ r \notin batch
      /\ \A k \in {"delivered", "failed"} : offer # [kind |-> k, item |-> r]
  OBVIOUS
<1>1. CASE UNCHANGED <<outbox, batch, offer>>
  BY <1>0, <1>1
<1>2. ASSUME NEW q \in Runs, Admit(q)
      PROVE  UNCHANGED <<batch, offer>> /\ outbox'[r] = outbox[r]
  <2>1. q # r
    BY <1>2 DEF Admit, Row
  <2> QED
    BY <1>2, <2>1 DEF Admit
<1>3. CASE Dispatch
  <2>1. CASE DispatchSnapshot
    BY <1>0, <2>1 DEF DispatchSnapshot, Due
  <2>2. ASSUME NEW i \in Items, \/ Enqueue(i) \/ EnqueueFails(i)
        PROVE  /\ UNCHANGED <<outbox, batch>> /\ i # r
               /\ \E k \in {"delivered", "failed"} : offer' = [kind |-> k, item |-> i]
    BY <1>0, <2>2 DEF Enqueue, EnqueueFails
  <2>3. ASSUME NEW i \in Items, SettleSent(i) \/ SettleBackoff(i)
        PROVE  /\ outbox'[r] = outbox[r] /\ r \notin batch' /\ offer' = NoOffer
    BY <1>0, <2>3 DEF SettleSent, SettleBackoff
  <2>4. CASE DispatchAborts
    BY <1>0, <2>4 DEF DispatchAborts, NoOffer
  <2>5. \A k : NoOffer # [kind |-> k, item |-> r]
    BY DEF NoOffer
  <2>6. \A i, k, j : [kind |-> k, item |-> i] = [kind |-> j, item |-> r] => i = r
    OBVIOUS
  <2>7. \/ DispatchSnapshot \/ DispatchAborts
        \/ \E i \in Items : Enqueue(i) \/ EnqueueFails(i)
        \/ \E i \in Items : SettleSent(i) \/ SettleBackoff(i)
    BY <1>3 DEF Dispatch, MarkSent
  <2> QED
    BY <1>0, <2>1, <2>2, <2>3, <2>4, <2>5, <2>6, <2>7
<1>4. ASSUME NEW q \in Runs, BackoffElapses(q)
      PROVE  UNCHANGED <<batch, offer>> /\ outbox'[r] = outbox[r]
  BY <1>0, <1>4 DEF BackoffElapses
<1>5. ASSUME NEW g \in BOOLEAN, Exit(g)
      PROVE  outbox' = outbox /\ batch' = {} /\ offer' = NoOffer
  BY <1>5 DEF Exit, ProcessExits
<1>6. CASE Boot
  BY <1>0, <1>6 DEF Boot, Interrupted
<1>7. \/ UNCHANGED <<outbox, batch, offer>>
      \/ \E q \in Runs : Admit(q) \/ BackoffElapses(q)
      \/ Dispatch \/ Boot
      \/ \E g \in BOOLEAN : Exit(g)
  <2>1. ASSUME NEW w \in Execs, Work(w) \/ Failure(w)
        PROVE  UNCHANGED <<outbox, batch, offer>>
    <3>1. Work(w) => UNCHANGED <<outbox, batch, offer>>
      BY DEF Work, ClaimTerminal, ClaimLeased, Claim, FencedOut, BeginRetrieval, RecordRetrieval,
             RecordUnavailable, CiteHit, SkipHit, JudgeSkipped, JudgeStarted, JudgeAnswered,
             Finish, AbortFinish, AbortFenced, SettleTask, PlanAnswered, queueVars
    <3>2. Failure(w) => UNCHANGED <<outbox, batch, offer>>
      BY DEF Failure, ClaimFails, ContextEnded, StepFails, StepPanics, AbortFails
    <3> QED
      BY <2>1, <3>1, <3>2
  <2> QED
    BY <2>1 DEF Next, vars, Fetch, PlanCalls, TaskTaken, LeaseExpires, Backoff, Reclaim,
                TaskReclaimed, queueVars
<1>8. NoOffer # [kind |-> "delivered", item |-> r] /\ NoOffer # [kind |-> "failed", item |-> r]
  BY DEF NoOffer
<1> QED
  BY <1>0, <1>1, <1>2, <1>3, <1>4, <1>5, <1>6, <1>7, <1>8

\* Unasked is kept.
LEMMA UnaskedStep ==
  ASSUME TypeOK, Unasked, [Next]_vars
  PROVE  Unasked'
<1> SUFFICES ASSUME NEW r \in Runs
             PROVE  /\ run'[r].status = "absent" =>
                         run[r].status = "absent" /\ run'[r].attempt = 0 /\ run'[r].revision = 0
                    /\ log'[r].last <= run'[r].attempt
  BY UnaskedQueue DEF Unasked
<1>1. run[r] \in Row /\ log[r] \in Log
  BY DEF TypeOK, DiagTypeOK
<1>2. /\ run[r].attempt \in Nat /\ run[r].revision \in Nat /\ log[r].last \in Nat
      /\ log[r].last <= run[r].attempt
      /\ run[r].status = "absent" =>
           /\ run[r].attempt = 0 /\ run[r].revision = 0
           /\ offer # [kind |-> "delivered", item |-> r]
  BY <1>1 DEF Row, Log, Unasked
<1>3. RowStep(r)
  BY NextRow
<1>4. CASE RowKept(r)
  <2>1. run[r].status = "absent" => run'[r] = run[r]
    BY <1>2, <1>4 DEF RowKept, RowMarked
  <2>2. log'[r].last \in {log[r].last, run[r].attempt}
    BY <1>4 DEF RowKept
  <2> QED
    BY <1>2, <1>4, <2>1, <2>2, RowFields
<1>5. CASE RowAdmitted(r)
  BY <1>2, <1>5, RowFields
<1>6. CASE RowClaimed(r)
  BY <1>2, <1>6, RowFields DEF RowClaimed
<1>7. CASE RowCited(r)
  BY <1>2, <1>7, RowFields DEF RowCited
<1>8. CASE RowFinished(r)
  BY <1>2, <1>8 DEF RowFinished, Terminal
<1>9. CASE RowRecovered(r)
  BY <1>2, <1>9, RowFields DEF RowRecovered
<1> QED
  BY <1>3, <1>4, <1>5, <1>6, <1>7, <1>8, <1>9 DEF RowStep

\* Nothing is known of a run before insertRun, and its timeline never runs ahead.
THEOREM UnaskedProved == Spec => []Unasked
<1>1. Init => Unasked
  <2>1. \A k, r : NoOffer # [kind |-> k, item |-> r]
    BY DEF NoOffer
  <2> QED
    BY <2>1 DEF Init, QueueInit, NoRow, Unasked, Runs
<1>2. TypeOK /\ Unasked /\ [Next]_vars => Unasked'
  BY UnaskedStep
<1> QED
  BY <1>1, <1>2, TypeCorrect, PTL DEF Spec

-----------------------------------------------------------------------------
(* What readers poll on                                                    *)

\* Every writer of a run row raises its revision.
THEOREM RevisionProved == Spec => RevisionRises
<1>1. TypeOK /\ Unasked /\ [Next]_vars =>
        [\A r \in Runs : run'[r] # run[r] => run'[r].revision > run[r].revision]_vars
  <2> SUFFICES ASSUME TypeOK, Unasked, [Next]_vars, NEW r \in Runs, run'[r] # run[r]
               PROVE  run'[r].revision > run[r].revision
    OBVIOUS
  <2>1. run[r] \in Row /\ run[r].revision \in Nat
    BY DEF TypeOK, DiagTypeOK, Row
  <2>2. run[r].status = "absent" => run[r].revision = 0
    BY DEF Unasked
  <2>3. RowStep(r)
    BY NextRow
  <2>4. CASE RowKept(r) \/ RowFinished(r)
    BY <2>1, <2>4 DEF RowKept, RowMarked, RowFinished
  <2>5. CASE RowAdmitted(r)
    BY <2>1, <2>2, <2>5, RowFields
  <2>6. CASE RowCited(r) \/ RowClaimed(r) \/ RowRecovered(r)
    BY <2>1, <2>6, RowFields
  <2> QED
    BY <2>3, <2>4, <2>5, <2>6 DEF RowStep
<1> QED
  BY <1>1, TypeCorrect, UnaskedProved, PTL DEF Spec, RevisionRises

\* By sequence, the attempts of a run's events never go back.
THEOREM TimelineProved == Spec => TimelineInAttemptOrder
<1>1. TypeOK /\ Unasked /\ [Next]_vars =>
        [\A r \in Runs : log'[r].last >= log[r].last]_vars
  <2> SUFFICES ASSUME TypeOK, Unasked, [Next]_vars, NEW r \in Runs
               PROVE  log'[r].last >= log[r].last
    OBVIOUS
  <2>1. /\ run[r] \in Row /\ run[r].attempt \in Nat /\ log[r].last \in Nat
        /\ log[r].last <= run[r].attempt
        /\ run[r].status = "absent" => run[r].attempt = 0
    BY DEF TypeOK, DiagTypeOK, Row, Log, Unasked
  <2>2. RowStep(r)
    BY NextRow
  <2>3. CASE RowKept(r) \/ RowCited(r)
    <3>1. log'[r].last \in {log[r].last, run[r].attempt}
      BY <2>3 DEF RowKept, RowCited
    <3> QED
      BY <2>1, <3>1
  <2>4. CASE RowFinished(r) \/ RowAdmitted(r) \/ RowRecovered(r)
    <3>1. \/ log'[r].last = run[r].attempt
          \/ log'[r].last = 0 /\ run[r].status = "absent"
      BY <2>4 DEF RowFinished, RowAdmitted, RowRecovered
    <3> QED
      BY <2>1, <3>1
  <2>5. CASE RowClaimed(r)
    BY <2>1, <2>5, RowFields DEF RowClaimed
  <2> QED
    BY <2>2, <2>3, <2>4, <2>5 DEF RowStep
<1> QED
  BY <1>1, TypeCorrect, UnaskedProved, PTL DEF Spec, TimelineInAttemptOrder

-----------------------------------------------------------------------------
(* What an executor remembers and what the row holds                       *)

\* An executor at claim remembers no citation, and one that owns its run remembers
\* citations exactly when the row has some.
CitedAgrees ==
  \A w \in Execs :
    /\ exec[w].pc = "claim" => ~exec[w].cited
    /\ exec[w].pc \in Steps /\ Owned(w) => (exec[w].cited <=> run[exec[w].run].cites # {})

\* Whoever reaches claim has just been called.
LEMMA CallersAreFresh ==
  ASSUME TypeOK, [Next]_vars, NEW w \in Execs, exec'[w].pc = "claim"
  PROVE  exec'[w] = exec[w] \/ exec'[w].cited = FALSE
<1> USE DEF TypeOK, DiagTypeOK
<1>0. exec[w] \in Local
  OBVIOUS
<1>1. ASSUME NEW v \in Execs, NEW q \in Runs, Fetch(v, q) \/ PlanCalls(v, q)
      PROVE  exec'[w] = exec[w] \/ exec'[w].cited = FALSE
  BY <1>0, <1>1 DEF Fetch, PlanCalls, IdleAt
<1>2. ASSUME NEW v \in Execs, Work(v) \/ Failure(v), v # w
      PROVE  exec'[w] = exec[w]
  <2>1. Work(v) => exec'[w] = exec[w]
    BY <1>2
    DEF Work, ClaimTerminal, ClaimLeased, Claim, FencedOut, BeginRetrieval, RecordRetrieval,
        RecordUnavailable, CiteHit, SkipHit, JudgeSkipped, JudgeStarted, JudgeAnswered,
        Finish, AbortFinish, AbortFenced, SettleTask, PlanAnswered, Goto, Return
  <2>2. Failure(v) => exec'[w] = exec[w]
    BY <1>2
    DEF Failure, ClaimFails, ContextEnded, StepFails, StepPanics, AbortFails, Return, Abort
  <2> QED
    BY <1>2, <2>1, <2>2
<1>3. ASSUME Work(w) \/ Failure(w)
      PROVE  FALSE
  <2>1. CASE \/ ClaimTerminal(w) \/ ClaimLeased(w) \/ FencedOut(w) \/ Finish(w)
             \/ AbortFinish(w) \/ AbortFenced(w) \/ ClaimFails(w) \/ AbortFails(w)
    <3>1. PICK how : Return(w, how)
      BY <2>1 DEF ClaimTerminal, ClaimLeased, FencedOut, Finish, AbortFinish, AbortFenced,
                  ClaimFails, AbortFails
    <3> QED
      BY <3>1 DEF Return, IdleAt
  <2>2. CASE SettleTask(w) \/ PlanAnswered(w)
    <3>1. SettleTask(w) => exec'[w].pc = "idle"
      BY DEF SettleTask, Idle, IdleAt
    <3>2. PlanAnswered(w) => exec'[w].pc = "done"
      BY <1>0 DEF PlanAnswered, Goto, Local
    <3> QED
      BY <2>2, <3>1, <3>2
  <2>3. CASE \/ BeginRetrieval(w) \/ JudgeSkipped(w) \/ JudgeStarted(w) \/ ContextEnded(w)
             \/ \E s \in {"none", "good", "low"} : JudgeAnswered(w, s)
    BY <1>0, <2>3
    DEF BeginRetrieval, JudgeSkipped, JudgeStarted, ContextEnded, JudgeAnswered, Goto, Local
  <2>4. CASE StepFails(w) \/ StepPanics(w)
    <3>1. PICK how : Abort(w, how)
      BY <2>4 DEF StepFails, StepPanics
    <3> QED
      BY <3>1 DEF Abort, IdleAt
  <2>5. CASE \/ \E n \in 0..NHits : RecordRetrieval(w, n)
             \/ RecordUnavailable(w) \/ CiteHit(w) \/ SkipHit(w)
    <3>1. \A l \in Local : /\ NextIncident(l).pc \in {"retrieve", "judge"}
                           /\ l.pc # "claim" => AfterHit(l).pc # "claim"
      BY DEF Local, NextIncident, AfterHit
    <3>2. /\ [exec[w] EXCEPT !.lost = TRUE] \in Local
          /\ [exec[w] EXCEPT !.cited = TRUE] \in Local
          /\ [exec[w] EXCEPT !.cited = TRUE].pc = exec[w].pc
      BY <1>0 DEF Local
    <3>3. CASE \E n \in 0..NHits : RecordRetrieval(w, n)
      <4>1. PICK n \in 0..NHits :
              exec'[w] = IF n = 0 THEN NextIncident(exec[w])
                                  ELSE [exec[w] EXCEPT !.pc = "cite", !.left = n]
        BY <3>3 DEF RecordRetrieval
      <4> QED
        BY <1>0, <3>1, <4>1 DEF Local
    <3>4. CASE RecordUnavailable(w)
      <4>1. exec'[w] = NextIncident([exec[w] EXCEPT !.lost = TRUE])
        BY <3>4 DEF RecordUnavailable
      <4> QED
        BY <3>1, <3>2, <4>1
    <3>5. CASE CiteHit(w)
      <4>1. exec'[w] = AfterHit([exec[w] EXCEPT !.cited = TRUE]) /\ exec[w].pc = "cite"
        BY <3>5 DEF CiteHit
      <4> QED
        BY <3>1, <3>2, <4>1
    <3>6. CASE SkipHit(w)
      <4>1. exec'[w] = AfterHit(exec[w]) /\ exec[w].pc = "cite"
        BY <3>6 DEF SkipHit
      <4> QED
        BY <1>0, <3>1, <4>1
    <3> QED
      BY <2>5, <3>3, <3>4, <3>5, <3>6
  <2>6. CASE Claim(w)
    BY <1>0, <2>6 DEF Claim, Local
  <2> QED
    BY <1>3, <2>1, <2>2, <2>3, <2>4, <2>5, <2>6 DEF Work, Failure
<1>4. ASSUME NEW g \in BOOLEAN, Exit(g)
      PROVE  FALSE
  BY <1>4 DEF Exit, Idle, IdleAt
<1>5. \/ UNCHANGED exec
      \/ \E v \in Execs, q \in Runs : Fetch(v, q) \/ PlanCalls(v, q)
      \/ \E v \in Execs : Work(v) \/ Failure(v)
      \/ \E g \in BOOLEAN : Exit(g)
  BY DEF Next, vars, Admit, Dispatch, MarkSent, LeaseExpires, Backoff, Reclaim, Boot
<1> QED
  BY <1>1, <1>2, <1>3, <1>4, <1>5

\* A hit that is cited is remembered and on the row.
LEMMA CitedHit ==
  ASSUME TypeOK, NEW w \in Execs, CiteHit(w)
  PROVE  exec'[w].cited = TRUE /\ run'[exec[w].run].cites # {}
<1> USE DEF TypeOK, DiagTypeOK
<1> DEFINE l == exec[w]
<1>1. l \in Local /\ l.run \in Runs
  BY DEF Local
<1>2. run[l.run] \in Row
  BY <1>1
<1>3. [l EXCEPT !.cited = TRUE] \in Local /\ [l EXCEPT !.cited = TRUE].cited = TRUE
  BY <1>1 DEF Local
<1>4. \A m \in Local : AfterHit(m).cited = m.cited
  BY DEF Local, NextIncident, AfterHit
<1>5. exec'[w] = AfterHit([l EXCEPT !.cited = TRUE])
  BY DEF CiteHit
<1>6. run'[l.run].cites = run[l.run].cites \cup {<<l.attempt, <<l.inc, l.left>>>>}
  BY <1>1, <1>2 DEF CiteHit, Row
<1> QED
  BY <1>3, <1>4, <1>5, <1>6

\* CitedAgrees is kept: only the owner of a run adds to its citations.
LEMMA CitedAgreesStep ==
  ASSUME TypeOK, AttemptsAreExclusive, CitedAgrees, [Next]_vars
  PROVE  CitedAgrees'
<1> SUFFICES ASSUME NEW w \in Execs
             PROVE  /\ exec'[w].pc = "claim" => ~exec'[w].cited
                    /\ exec'[w].pc \in Steps /\ Owned(w)' =>
                         (exec'[w].cited <=> run'[exec'[w].run].cites # {})
  BY DEF CitedAgrees
<1>1. exec'[w].pc = "claim" => ~exec'[w].cited
  BY CallersAreFresh DEF CitedAgrees
<1>2. ASSUME exec'[w].pc \in Steps, Owned(w)'
      PROVE  exec'[w].cited <=> run'[exec'[w].run].cites # {}
  <2> DEFINE r == exec[w].run
  <2>0. /\ exec[w] \in Local /\ r \in Runs /\ exec[w].attempt \in Nat
        /\ run[r] \in Row /\ run[r].attempt \in Nat
    BY DEF TypeOK, DiagTypeOK, Local, Row
  <2>1. CASE Claim(w)
    <3>1. exec'[w].run = r /\ exec'[w].cited = exec[w].cited /\ exec[w].pc = "claim"
      BY <2>0, <2>1 DEF Claim, Local, TypeOK, DiagTypeOK
    <3>2. run'[r].cites = {}
      BY <2>0, <2>1 DEF Claim, ClaimedRow, Row, TypeOK, DiagTypeOK
    <3> QED
      BY <3>1, <3>2 DEF CitedAgrees
  <2>2. CASE ~Claim(w)
    <3>1. /\ exec[w].pc \in Steps /\ exec[w].pc \in Holding
          /\ exec'[w].run = r /\ exec'[w].attempt = exec[w].attempt
          /\ CiteHit(w) \/ exec'[w].cited = exec[w].cited
      BY <1>2, <2>2, HoldersPersist DEF Holding
    <3>2. run'[r].attempt = exec[w].attempt /\ run'[r].status = "running"
      BY <1>2, <3>1 DEF Owned
    <3>3. exec[w].attempt <= run[r].attempt
      BY <3>1 DEF AttemptsAreExclusive
    <3>4. RowStep(r)
      BY <2>0, NextRow
    <3>5. ~RowClaimed(r) /\ ~RowAdmitted(r) /\ ~RowRecovered(r)
      BY <2>0, <3>2, <3>3, RowFields
    <3>6. ~RowFinished(r)
      BY <3>2 DEF RowFinished, Terminal
    <3>7. CASE CiteHit(w)
      BY <3>1, <3>7, CitedHit
    <3>8. CASE ~CiteHit(w) /\ RowKept(r)
      <4>1. Owned(w) /\ run'[r].cites = run[r].cites
        BY <2>0, <3>2, <3>8, RowFields DEF Owned
      <4> QED
        BY <3>1, <3>8, <4>1 DEF CitedAgrees
    <3>9. CASE ~CiteHit(w) /\ RowCited(r)
      <4>1. PICK v \in Execs : exec[v].run = r /\ CiteHit(v)
        BY <3>9 DEF RowCited
      <4>2. exec[v].pc \in Holding /\ exec[v].attempt = run[r].attempt
        BY <4>1 DEF CiteHit, Owned, Holding, Steps
      <4>3. run[r].attempt = exec[w].attempt
        BY <2>0, <3>2, <3>9, RowFields
      <4>4. v = w
        BY <3>1, <4>1, <4>2, <4>3 DEF AttemptsAreExclusive
      <4> QED
        BY <3>9, <4>1, <4>4
    <3> QED
      BY <3>4, <3>5, <3>6, <3>7, <3>8, <3>9 DEF RowStep
  <2> QED
    BY <2>1, <2>2
<1> QED
  BY <1>1, <1>2

\* What the owner of a run remembers of its citations is what the row holds.
THEOREM CitedAgreesProved == Spec => []CitedAgrees
<1>1. Init => CitedAgrees
  BY DEF Init, Idle, IdleAt, Steps, CitedAgrees
<1>2. TypeOK /\ AttemptsAreExclusive /\ CitedAgrees /\ [Next]_vars => CitedAgrees'
  BY CitedAgreesStep
<1> QED
  BY <1>1, <1>2, TypeCorrect, AttemptsProved, PTL DEF Spec

\* A succeeded run says has_citations exactly when it has citations (diagnose, finish).
THEOREM EvidenceProved == Spec => []EvidenceMatchesCitations
<1>1. Init => EvidenceMatchesCitations
  BY DEF Init, NoRow, EvidenceMatchesCitations
<1>2. TypeOK /\ CitedAgrees /\ EvidenceMatchesCitations /\ [Next]_vars
        => EvidenceMatchesCitations'
  <2> SUFFICES ASSUME TypeOK, CitedAgrees, EvidenceMatchesCitations, [Next]_vars,
                      NEW r \in Runs, run'[r].status = "succeeded"
               PROVE  run'[r].evidence = "has_citations" <=> run'[r].cites # {}
    BY DEF EvidenceMatchesCitations
  <2>1. RowStep(r)
    BY NextRow
  <2>2. CASE RowKept(r)
    BY <2>2, RowFields DEF EvidenceMatchesCitations
  <2>3. CASE RowFinished(r)
    BY <2>3 DEF RowFinished, FinishedBySteps, CitedAgrees
  <2>4. ~RowAdmitted(r) /\ ~RowClaimed(r) /\ ~RowCited(r) /\ ~RowRecovered(r)
    BY RowFields
  <2> QED
    BY <2>1, <2>2, <2>3, <2>4 DEF RowStep
<1> QED
  BY <1>1, <1>2, TypeCorrect, CitedAgreesProved, PTL DEF Spec

-----------------------------------------------------------------------------
(* Refinement of RunLifecycle                                              *)

\* What RunLifecycle sees of the rows, as the mapping of DiagnosisRun!Lifecycle has it.
lives == [r \in Runs |-> [state |-> run[r].status, attempt |-> run[r].attempt,
                          cited |-> run[r].cites, report |-> run[r].report]]

\* Every transaction but the one of Recover writes at most one row.
LEMMA OneRow ==
  ASSUME TypeOK, [Next]_vars
  PROVE  Boot \/ \E r \in Runs : \A q \in Runs \ {r} : run'[q] = run[q]
<1> USE DEF TypeOK, DiagTypeOK
<1>1. CASE run' = run
  BY <1>1, ItemsAssumption DEF Runs
<1>2. ASSUME NEW r \in Runs, Admit(r) \/ MarkSent(r)
      PROVE  \A q \in Runs \ {r} : run'[q] = run[q]
  BY <1>2 DEF Admit, MarkSent
<1>3. ASSUME NEW w \in Execs, Work(w) \/ Failure(w)
      PROVE  \A q \in Runs \ {exec[w].run} : run'[q] = run[q]
  <2>1. exec[w].run \in Runs
    BY DEF Local
  <2>2. CASE Claim(w) \/ CiteHit(w) \/ Finish(w) \/ AbortFinish(w)
    BY <2>1, <2>2 DEF Claim, CiteHit, Finish, AbortFinish, FinishTx
  <2>3. CASE ~(Claim(w) \/ CiteHit(w) \/ Finish(w) \/ AbortFinish(w))
    BY <1>3, <2>3
    DEF Work, ClaimTerminal, ClaimLeased, FencedOut, BeginRetrieval, RecordRetrieval,
        RecordUnavailable, SkipHit, JudgeSkipped, JudgeStarted, JudgeAnswered,
        AbortFenced, SettleTask, PlanAnswered,
        Failure, ClaimFails, ContextEnded, StepFails, StepPanics, AbortFails
  <2> QED
    BY <2>2, <2>3
<1>4. \A w \in Execs : exec[w].run \in Runs
  BY DEF Local
<1>5. \/ run' = run \/ Boot
      \/ \E r \in Runs : Admit(r) \/ MarkSent(r)
      \/ \E w \in Execs : Work(w) \/ Failure(w)
  BY DEF Next, vars, Dispatch, Fetch, PlanCalls, LeaseExpires, Backoff, Reclaim, Exit
<1> QED
  BY <1>1, <1>2, <1>3, <1>4, <1>5

\* A step of the program is a step of RunLifecycle, or leaves what it shows alone.
LEMMA LifecycleStep ==
  ASSUME TypeOK, [Next]_vars
  PROVE  Lifecycle!LifecycleNext \/ lives' = lives
<1> USE DEF lives
<1>0. \A r \in Runs : run[r].attempt \in Nat
  BY DEF TypeOK, DiagTypeOK, Row
<1>1. CASE Boot
  <2>1. \A r \in Runs : r \in Interrupted =>
          /\ run[r].status = "running"
          /\ run'[r].status = "queued" /\ run'[r].attempt = run[r].attempt + 1
          /\ run'[r].cites = run[r].cites /\ run'[r].report = run[r].report
    BY <1>1 DEF Boot, Interrupted, RecoveredRow, TypeOK, DiagTypeOK, Row
  <2>2. \A r \in Runs : r \notin Interrupted => run'[r] = run[r]
    BY <1>1 DEF Boot
  <2>3. CASE Interrupted = {}
    BY <2>2, <2>3
  <2>4. CASE Interrupted # {}
    <3>1. PICK rs \in SUBSET Runs : rs = Interrupted
      BY DEF Interrupted
    <3>2. Lifecycle!Interrupt(rs)
      BY <2>1, <2>2, <2>4, <3>1 DEF Lifecycle!Interrupt
    <3> QED
      BY <3>2 DEF Lifecycle!LifecycleNext
  <2> QED
    BY <2>3, <2>4
<1>2. ASSUME NEW r \in Runs, \A q \in Runs \ {r} : run'[q] = run[q]
      PROVE  Lifecycle!LifecycleNext \/ lives' = lives
  <2>1. RowStep(r)
    BY NextRow
  <2>2. CASE RowKept(r)
    BY <1>2, <2>2, RowFields
  <2>3. CASE RowAdmitted(r)
    <3>0. /\ run[r].status = "absent" /\ run'[r].status = "queued"
          /\ run'[r].attempt = run[r].attempt /\ run'[r].cites = run[r].cites
          /\ run'[r].report = run[r].report
      BY <2>3, RowFields
    <3>1. Lifecycle!Accept(r)
      BY <1>2, <3>0 DEF Lifecycle!Accept
    <3> QED
      BY <3>1 DEF Lifecycle!LifecycleNext
  <2>4. CASE RowClaimed(r)
    <3>0. run[r].status \in {"queued", "running"}
      BY <2>4 DEF RowClaimed
    <3>2. /\ run'[r].status = "running" /\ run'[r].attempt = run[r].attempt + 1
          /\ run'[r].cites = {} /\ run'[r].report = 0
      BY <2>4, RowFields
    <3>1. Lifecycle!Begin(r)
      BY <1>2, <3>0, <3>2 DEF Lifecycle!Begin
    <3> QED
      BY <3>1 DEF Lifecycle!LifecycleNext
  <2>5. CASE RowCited(r)
    <3>0. run[r].status = "running"
      BY <2>5 DEF RowCited
    <3>1. PICK e \in Evidence : run'[r].cites = run[r].cites \cup {<<run[r].attempt, e>>}
      BY <2>5, RowFields
    <3>2. /\ run'[r].status = run[r].status /\ run'[r].attempt = run[r].attempt
          /\ run'[r].report = run[r].report
      BY <2>5, <3>0, RowFields
    <3>3. Lifecycle!Cite(r, e)
      BY <1>2, <3>0, <3>1, <3>2 DEF Lifecycle!Cite
    <3> QED
      BY <3>3 DEF Lifecycle!LifecycleNext
  <2>6. CASE RowFinished(r)
    <3>1. PICK s \in Terminal : run'[r].status = s
      BY <2>6 DEF RowFinished
    <3>2. /\ run[r].status = "running" /\ run'[r].attempt = run[r].attempt
          /\ run'[r].report = run[r].attempt /\ run'[r].cites = run[r].cites
      BY <2>6 DEF RowFinished
    <3>3. Lifecycle!Publish(r, s)
      BY <1>2, <3>1, <3>2 DEF Lifecycle!Publish
    <3> QED
      BY <3>1, <3>3 DEF Lifecycle!LifecycleNext, Lifecycle!Final, Terminal
  <2>7. CASE RowRecovered(r)
    <3>0. run[r].status = "running"
      BY <2>7 DEF RowRecovered
    <3>2. /\ run'[r].status = "queued" /\ run'[r].attempt = run[r].attempt + 1
          /\ run'[r].cites = run[r].cites /\ run'[r].report = run[r].report
      BY <2>7, RowFields
    <3>1. Lifecycle!Interrupt({r})
      BY <1>2, <3>0, <3>2 DEF Lifecycle!Interrupt
    <3> QED
      BY <3>1 DEF Lifecycle!LifecycleNext
  <2> QED
    BY <2>1, <2>2, <2>3, <2>4, <2>5, <2>6, <2>7 DEF RowStep
<1> QED
  BY <1>1, <1>2, OneRow

\* Runs with queues, leases, stale executors, failures and restarts show their readers
\* nothing but the life that RunLifecycle promises.
THEOREM LifecycleProved == Spec => ImplementsLifecycle
<1>1. Init => Lifecycle!LifecycleInit
  BY DEF Init, NoRow, Lifecycle!LifecycleInit, Lifecycle!Unborn
<1>2. TypeOK /\ [Next]_vars => [Lifecycle!LifecycleNext]_lives
  BY LifecycleStep
<1> QED
  BY <1>1, <1>2, TypeCorrect, PTL DEF Spec, ImplementsLifecycle, Lifecycle!LifecycleSpec, lives

=============================================================================
