---------------------------- MODULE LegacyReports ----------------------------
(***************************************************************************)
(* The report pipeline of the releases before the workspace, whose         *)
(* snapshot file workspacectl imports: the bounded ring of reports and its *)
(* file, the webhook handler that queues a diagnosis, the asynq worker     *)
(* that fills the report in, and the notice about a failed or low-scored   *)
(* one (internal/handler/alert.go, the client and the server without a     *)
(* namespace in internal/queue/queue.go).                                  *)
(*                                                                         *)
(* A report is its number, its status and what its text is about.  The     *)
(* ring's mutex makes every ring operation, file included, one step.       *)
(*                                                                         *)
(* A task has ten minutes (taskTimeout).  asynq then takes it back for a   *)
(* retry, and its handler, of which neither the ring nor ingestIncident    *)
(* looks at the context, goes on: two executions of a report may overlap.  *)
(***************************************************************************)
EXTENDS Naturals, Sequences, FiniteSets, SequencesExt

CONSTANTS
  Payloads,   \* alert arrays a webhook may carry
  Workers,    \* goroutines that run the handler
  Concurrency,\* tasks the diagnosis server executes at once
  MaxReports, \* bound: webhooks in one behaviour
  MaxInFlight,\* bound: webhooks handled at once
  RingCap,    \* reportRingCap
  Outcomes,   \* "report", "low": what the judge, if there is one, makes of a diagnosis
  MaxRetry,   \* asynq.MaxRetry
  MaxFaults,  \* bound: failures in one behaviour
  FaultKinds, \* "disk", "enqueue", "reply", "panic", "power", "timeout": what may fail
  MaxExits    \* bound: process exits in one behaviour

ASSUME LegacyAssumption ==
  /\ Payloads # {}
  /\ MaxReports \in Nat
  /\ RingCap \in Nat \ {0}
  /\ Outcomes \subseteq {"report", "low"}
  /\ MaxRetry \in Nat
  /\ MaxFaults \in Nat
  /\ MaxExits \in Nat

Ids == 1..MaxReports

VARIABLES
  ring,     \* reportRing.items, oldest first
  file,     \* the snapshot file: absent, readable, or torn by a power failure
  hook,     \* the webhook requests, by the number of their report
  task,     \* diagnosis tasks in Redis, by TaskID, which is the payload's hash
  worker,   \* local states of the worker goroutines
  notice,   \* reports with a notification task in Redis
  told,     \* reports with a notice that they failed (history)
  cut,      \* reports whose worker was cut off by an exit (history)
  overdue,  \* reports whose worker went on after the timeout of its task (history)
  up,       \* the process runs
  issued,   \* reports so far
  faults,   \* failures so far
  exits     \* exits so far

legacyVars == <<ring, file, hook, task, worker, notice, told, cut, overdue, up, issued, faults, exits>>

Statuses == {"queued", "running", "done", "failed"}
Texts == {"none", "refused", "report", "low", "panic"}
Kept == "kept"  \* an update that leaves the text alone
Report == [id : Ids, status : Statuses, text : Texts]
File == [state : {"absent", "readable", "torn"}, items : Seq(Report)]
NoFile == [state |-> "absent", items |-> <<>>]
TornFile == [state |-> "torn", items |-> <<>>]

Task == [state : {"none", "pending", "active", "archived"}, id : 0..MaxReports,
         retried : 0..MaxRetry]
NoTask == [state |-> "none", id |-> 0, retried |-> 0]

AnyPayload == CHOOSE p \in Payloads : TRUE
Hook == [pc : {"none", "enqueue", "refuse"}, payload : Payloads]
Worker == [pc : {"idle", "start", "chain", "markFailed", "add", "notify", "return"},
           payload : Payloads, id : 0..MaxReports, status : Statuses, text : Texts,
           time : {"left", "over"}]  \* what is left of taskTimeout
Idle == [pc |-> "idle", payload |-> AnyPayload, id |-> 0, status |-> "queued", text |-> "none",
         time |-> "left"]
NoHook == [pc |-> "none", payload |-> AnyPayload]

\* Types of the variables of the pipeline.
LegacyTypeOK ==
  /\ ring \in Seq(Report)
  /\ file \in File
  /\ hook \in [Ids -> Hook]
  /\ task \in [Payloads -> Task]
  /\ worker \in [Workers -> Worker]
  /\ notice \subseteq Ids
  /\ told \subseteq Ids
  /\ cut \subseteq Ids
  /\ overdue \subseteq Ids
  /\ up \in BOOLEAN
  /\ issued \in 0..MaxReports
  /\ faults \in 0..MaxFaults
  /\ exits \in 0..MaxExits

\* The numbers of the reports in a sequence.
IdsOf(s) == {s[n].id : n \in DOMAIN s}

Fault(kind) == kind \in FaultKinds /\ faults < MaxFaults /\ faults' = faults + 1

LegacyInit ==
  /\ ring = <<>>
  /\ file = NoFile
  /\ hook = [i \in Ids |-> NoHook]
  /\ task = [p \in Payloads |-> NoTask]
  /\ worker = [w \in Workers |-> Idle]
  /\ notice = {}
  /\ told = {}
  /\ cut = {}
  /\ overdue = {}
  /\ up = TRUE
  /\ issued = 0
  /\ faults = 0
  /\ exits = 0

-----------------------------------------------------------------------------
(* The ring                                                                *)

\* persistLocked: a temporary file and a rename; a failure is only logged.
Persist(items) ==
  \/ file' = [state |-> "readable", items |-> items] /\ UNCHANGED faults
  \/ Fault("disk") /\ UNCHANGED file

\* The ring with rep, without the reports that no longer fit.
RingWith(rep) ==
  LET all == Append(ring, rep)
  IN IF Len(all) > RingCap THEN SubSeq(all, Len(all) - RingCap + 1, Len(all)) ELSE all

Add(rep) == ring' = RingWith(rep) /\ Persist(ring')

\* The ring after update has set status and text, if there is one to set, of the first
\* report with this number.
Updated(id, status, text) ==
  [n \in DOMAIN ring |->
     IF ring[n].id = id /\ id \notin IdsOf(SubSeq(ring, 1, n - 1))
       THEN [id |-> id, status |-> status,
             text |-> IF text = Kept THEN ring[n].text ELSE text]
       ELSE ring[n]]

\* update finds the report; if not, it changes nothing.
Update(id, status, text) ==
  /\ id \in IdsOf(ring)
  /\ ring' = Updated(id, status, text)
  /\ Persist(ring')
UpdateMisses(id) == id \notin IdsOf(ring) /\ UNCHANGED <<ring, file, faults>>

\* What GET /reports shows: newest first.
Shown == Reverse(ring)

-----------------------------------------------------------------------------
(* POST /alert                                                             *)

\* A payload with a usable alert: the report is queued in the ring.
Receive(p) ==
  LET i == issued + 1
  IN /\ up
     /\ i \in Ids
     /\ Cardinality({j \in Ids : hook[j] # NoHook}) < MaxInFlight
     /\ Add([id |-> i, status |-> "queued", text |-> "none"])
     /\ issued' = i
     /\ hook' = [hook EXCEPT ![i] = [pc |-> "enqueue", payload |-> p]]
     /\ UNCHANGED <<task, worker, notice, told, cut, overdue, up, exits>>

Stored(p, i) == task' = [task EXCEPT ![p] = [state |-> "pending", id |-> i, retried |-> 0]]

\* EnqueueAlertDiagnosis.  The TaskID of a task that exists in any state conflicts.
Enqueue(i) ==
  LET p == hook[i].payload
  IN /\ hook[i].pc = "enqueue"
     /\ \/ /\ task[p] = NoTask
           /\ Stored(p, i)
           /\ hook' = [hook EXCEPT ![i] = NoHook]
           /\ UNCHANGED faults
        \/ /\ task[p] # NoTask
           /\ hook' = [hook EXCEPT ![i].pc = "refuse"]
           /\ UNCHANGED <<task, faults>>
     /\ UNCHANGED <<ring, file, worker, notice, told, cut, overdue, up, issued, exits>>

\* Redis does not answer; with a lost reply the task is there.
EnqueueFails(i) ==
  LET p == hook[i].payload
  IN /\ hook[i].pc = "enqueue"
     /\ \/ Fault("enqueue") /\ UNCHANGED task
        \/ /\ Fault("reply")
           /\ task[p] = NoTask
           /\ Stored(p, i)
     /\ hook' = [hook EXCEPT ![i].pc = "refuse"]
     /\ UNCHANGED <<ring, file, worker, notice, told, cut, overdue, up, issued, exits>>

\* The report is marked failed before the 503.
Refuse(i) ==
  /\ hook[i].pc = "refuse"
  /\ Update(i, "failed", "refused") \/ UpdateMisses(i)
  /\ hook' = [hook EXCEPT ![i] = NoHook]
  /\ UNCHANGED <<task, worker, notice, told, cut, overdue, up, issued, exits>>

-----------------------------------------------------------------------------
(* The worker: ProcessAlertDiagnosis                                       *)

\* The worker executes its task; one that outlived the timeout executes none.
Executes(w) == worker[w].pc # "idle" /\ worker[w].time = "left"

Fetch(w, p) ==
  /\ up
  /\ Cardinality({v \in Workers : Executes(v)}) < Concurrency
  /\ worker[w].pc = "idle"
  /\ task[p].state = "pending"
  /\ task' = [task EXCEPT ![p].state = "active"]
  /\ worker' = [worker EXCEPT ![w] = [Idle EXCEPT !.pc = "start", !.payload = p, !.id = task[p].id]]
  /\ UNCHANGED <<ring, file, hook, notice, told, cut, overdue, up, issued, faults, exits>>

\* The status is running; the text of a refusal stays until the report is written.
Start(w) ==
  /\ worker[w].pc = "start"
  /\ Update(worker[w].id, "running", Kept) \/ UpdateMisses(worker[w].id)
  /\ worker' = [worker EXCEPT ![w].pc = "chain"]
  /\ UNCHANGED <<hook, task, notice, told, cut, overdue, up, issued, exits>>

Holding(w, pc, status, text) ==
  worker' = [worker EXCEPT ![w].pc = pc, ![w].status = status, ![w].text = text]

\* Mutant: RunAlertDiagnosis adds the report whether update hit or not.
WriteAlwaysAdds(w, status, text) ==
  LET i == worker[w].id
  IN /\ Update(i, status, text) \/ UpdateMisses(i)
     /\ Holding(w, "add", status, text)

\* update, and on a miss an add in a second locked section.
Write(w, status, text) ==
  LET i == worker[w].id
  IN \/ Update(i, status, text) /\ Holding(w, "notify", status, text)
     \/ UpdateMisses(i) /\ Holding(w, "add", status, text)

\* RunAlertDiagnosis: planner, incident documents, judge and deploy events have answered
\* or were left out; the report is done.
ChainDone(w, text) ==
  /\ worker[w].pc = "chain"
  /\ Write(w, "done", text)
  /\ UNCHANGED <<hook, task, notice, told, cut, overdue, up, issued, exits>>

\* The chain panics: the recovery marks the report failed.
ChainPanics(w) ==
  /\ worker[w].pc = "chain"
  /\ Fault("panic")
  /\ Holding(w, "markFailed", "failed", "panic")
  /\ UNCHANGED <<ring, file, hook, task, notice, told, cut, overdue, up, issued, exits>>

MarkFailed(w) ==
  /\ worker[w].pc = "markFailed"
  /\ Write(w, "failed", "panic")
  /\ UNCHANGED <<hook, task, notice, told, cut, overdue, up, issued, exits>>

AddWritten(w) ==
  LET k == worker[w]
  IN /\ k.pc = "add"
     /\ Add([id |-> k.id, status |-> k.status, text |-> k.text])
     /\ worker' = [worker EXCEPT ![w].pc = "notify"]
     /\ UNCHANGED <<hook, task, notice, told, cut, overdue, up, issued, exits>>

\* maybeNotify: a low score or a failure is worth a notice; a failing enqueue is only
\* logged, and a notification task of the report that exists takes its place.
MaybeNotify(w) ==
  LET k == worker[w]
      worth == k.text = "low" \/ k.status = "failed"
  IN /\ k.pc = "notify"
     /\ \/ /\ worth /\ k.id \notin notice
           /\ notice' = notice \cup {k.id}
           /\ told' = IF k.status = "failed" THEN told \cup {k.id} ELSE told
           /\ UNCHANGED faults
        \/ ~(worth /\ k.id \notin notice) /\ UNCHANGED <<notice, told, faults>>
        \/ worth /\ Fault("enqueue") /\ UNCHANGED <<notice, told>>
     /\ worker' = [worker EXCEPT ![w].pc = "return"]
     /\ UNCHANGED <<ring, file, hook, task, cut, overdue, up, issued, exits>>

Retried(p) ==
  IF task[p].retried < MaxRetry
    THEN [task[p] EXCEPT !.state = "pending", !.retried = @ + 1]
    ELSE [task[p] EXCEPT !.state = "archived"]

\* Mutant: the error of a panic does not wrap SkipRetry.
AfterReturnRetries(k) == IF k.status = "failed" THEN Retried(k.payload) ELSE NoTask

\* handleAlertDiagnosis has returned: asynq deletes the task, or archives it (SkipRetry).
AfterReturn(k) ==
  IF k.status = "failed" THEN [task[k.payload] EXCEPT !.state = "archived"] ELSE NoTask

\* What a handler returns after its timeout is ignored, SkipRetry too.
Return(w) ==
  /\ worker[w].pc = "return"
  /\ task' = IF worker[w].time = "over" THEN task
             ELSE [task EXCEPT ![worker[w].payload] = AfterReturn(worker[w])]
  /\ worker' = [worker EXCEPT ![w] = Idle]
  /\ UNCHANGED <<ring, file, hook, notice, told, cut, overdue, up, issued, faults, exits>>

\* taskTimeout passes: asynq takes the failed task back and the handler goes on.
Timeout(w) ==
  /\ Executes(w)
  /\ Fault("timeout")
  /\ task' = [task EXCEPT ![worker[w].payload] = Retried(worker[w].payload)]
  /\ worker' = [worker EXCEPT ![w].time = "over"]
  /\ overdue' = overdue \cup {worker[w].id}
  /\ UNCHANGED <<ring, file, hook, notice, told, cut, up, issued, exits>>

\* ProcessNotification has posted the notice.  One that is refused to the last try is
\* archived, and its TaskID stays taken.
NoticeDelivered(i) ==
  /\ up
  /\ i \in notice
  /\ notice' = notice \ {i}
  /\ UNCHANGED <<ring, file, hook, task, worker, told, cut, overdue, up, issued, faults, exits>>

-----------------------------------------------------------------------------
(* Exits and restarts                                                      *)

Executing(p) == \E w \in Workers : Executes(w) /\ worker[w].payload = p

\* The process ends.  The file is not synced: a power failure may leave it torn.
Exit ==
  /\ up
  /\ exits < MaxExits
  /\ exits' = exits + 1
  /\ \/ UNCHANGED <<file, faults>>
     \/ Fault("power") /\ file' = TornFile
  /\ up' = FALSE
  /\ ring' = <<>>
  /\ hook' = [i \in Ids |-> NoHook]
  /\ worker' = [w \in Workers |-> Idle]
  /\ cut' = cut \cup {worker[w].id : w \in {v \in Workers : worker[v].pc # "idle"}}
  /\ UNCHANGED <<task, notice, told, overdue, issued>>

\* LoadPersist: a missing or broken file is an empty ring.
Boot ==
  /\ ~up
  /\ up' = TRUE
  /\ ring' = file.items
  /\ UNCHANGED <<file, hook, task, worker, notice, told, cut, overdue, issued, faults, exits>>

\* asynq takes back the task of a worker that is gone with its process.
Reclaim(p) ==
  /\ up
  /\ task[p].state = "active"
  /\ ~Executing(p)
  /\ task' = [task EXCEPT ![p] = Retried(p)]
  /\ UNCHANGED <<ring, file, hook, worker, notice, told, cut, overdue, up, issued, faults, exits>>

Work(w) ==
  \/ Start(w)
  \/ \E text \in Outcomes : ChainDone(w, text)
  \/ MarkFailed(w) \/ AddWritten(w) \/ MaybeNotify(w) \/ Return(w)

LegacyNext ==
  \/ \E p \in Payloads : Receive(p) \/ Reclaim(p) \/ \E w \in Workers : Fetch(w, p)
  \/ \E i \in Ids : Enqueue(i) \/ EnqueueFails(i) \/ Refuse(i) \/ NoticeDelivered(i)
  \/ \E w \in Workers : Work(w) \/ ChainPanics(w) \/ Timeout(w)
  \/ Exit \/ Boot

-----------------------------------------------------------------------------
(* Properties                                                              *)

\* However a report is queued, evicted, written late and restored from an older file,
\* GET /reports shows it once, and never more reports than the ring may hold; the same is
\* true of the file that a restart or the import reads.  Only if its task ran into the
\* timeout may it be there again: the execution that went on and its retry may both miss
\* it in update and both add it.
OneEntryPerReport ==
  \A s \in {Shown, file.items} :
    /\ Len(s) <= RingCap
    /\ \A m, n \in DOMAIN s : s[m].id = s[n].id => m = n \/ s[m].id \in overdue

\* The notice and the final status agree: nobody is told that a diagnosis failed and
\* then finds it done (ProcessAlertDiagnosis returns SkipRetry after a panic), unless an
\* exit or the timeout took the task away from a worker of this report: then SkipRetry is
\* lost or ignored, and a retry may write done after the notice.
NoticeAgrees ==
  \A n \in DOMAIN ring :
    ring[n].status = "done" /\ ring[n].id \in told => ring[n].id \in cut \cup overdue

=============================================================================
