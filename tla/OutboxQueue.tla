----------------------------- MODULE OutboxQueue -----------------------------
(***************************************************************************)
(* Delivery of outbox rows to the asynq queue: Service.Dispatch            *)
(* (internal/workspace/service.go), the enqueue calls of                   *)
(* internal/queue/queue.go, and what the program relies on of asynq, which *)
(* is external.  An item is one outbox row (one run, for one outbox kind)  *)
(* and the asynq task whose TaskID is derived from it.                     *)
(*                                                                         *)
(* SQLite has one connection and every transaction is immediate, so a      *)
(* transaction is one step here.  What the code does between transactions  *)
(* (calling Redis, returning to asynq) is a step of its own.               *)
(***************************************************************************)
EXTENDS Naturals, FiniteSets

CONSTANTS
  Items,      \* outbox rows of one kind
  MaxRetry,   \* asynq.MaxRetry of the task (3 in queue.go)
  MaxCrashes, \* bound: process exits in one behaviour
  MaxFaults,  \* bound: injected failures in one behaviour
  FaultKinds  \* which failures may be injected

ASSUME ItemsAssumption == Items # {}
ASSUME MaxRetryAssumption == MaxRetry \in Nat
ASSUME BoundsAssumption == MaxCrashes \in Nat /\ MaxFaults \in Nat

VARIABLES
  outbox,   \* state of the row; "backoff" is 'pending' with next_at in the future
  task,     \* the asynq task with this item's TaskID
  retried,  \* asynq's retry count of that task
  batch,    \* rows of the running Dispatch not handled yet
  offer,    \* result of the enqueue call whose transaction is still to come
  up,       \* the process runs
  crashes, faults

queueVars == <<outbox, task, retried, batch, offer, up, crashes, faults>>
dispatchVars == <<batch, offer>>

OutboxStates == {"absent", "pending", "backoff", "sent", "dead"}
TaskStates == {"none", "pending", "active", "archived"}
NoOffer == [kind |-> "none"]
Offers == {NoOffer} \cup [kind : {"delivered", "failed"}, item : Items]

QueueTypeOK ==
  /\ outbox \in [Items -> OutboxStates]
  /\ task \in [Items -> TaskStates]
  /\ retried \in [Items -> 0..MaxRetry]
  /\ batch \in SUBSET Items
  /\ offer \in Offers
  /\ up \in BOOLEAN
  /\ crashes \in 0..MaxCrashes
  /\ faults \in 0..MaxFaults

QueueInit ==
  /\ outbox = [i \in Items |-> "absent"]
  /\ task = [i \in Items |-> "none"]
  /\ retried = [i \in Items |-> 0]
  /\ batch = {}
  /\ offer = NoOffer
  /\ up = TRUE
  /\ crashes = 0
  /\ faults = 0

\* One injected failure of kind k, within the bound.
Fault(k) ==
  /\ k \in FaultKinds
  /\ faults < MaxFaults
  /\ faults' = faults + 1

-----------------------------------------------------------------------------
(* Dispatch.  dispatchMu admits one batch at a time.                       *)

Due == {i \in Items : outbox[i] = "pending"}

\* Dispatch reads the due rows once; what changes later is not re-read.
DispatchSnapshot ==
  /\ up
  /\ batch = {}
  /\ offer = NoOffer
  /\ Due # {}
  /\ batch' = Due
  /\ UNCHANGED <<outbox, task, retried, offer, up, crashes, faults>>

\* A TaskID is free only while asynq holds no task with it, in any state.
TaskIDFree(i) == task[i] = "none"

\* The enqueue call reached Redis.  ErrTaskIDConflict counts as delivered.
Enqueue(i) ==
  /\ up
  /\ i \in batch
  /\ offer = NoOffer
  /\ task' = IF TaskIDFree(i) THEN [task EXCEPT ![i] = "pending"] ELSE task
  /\ retried' = IF TaskIDFree(i) THEN [retried EXCEPT ![i] = 0] ELSE retried
  /\ offer' = [kind |-> "delivered", item |-> i]
  /\ UNCHANGED <<outbox, batch, up, crashes, faults>>

\* Mutant: a failed enqueue is taken for a delivery.
EnqueueFailsTakenForDelivery(i) ==
  /\ up
  /\ i \in batch
  /\ offer = NoOffer
  /\ Fault("enqueue")
  /\ offer' = [kind |-> "delivered", item |-> i]
  /\ UNCHANGED <<outbox, task, retried, batch, up, crashes>>

\* The enqueue call fails.  Redis may have stored the task before the reply was lost.
EnqueueFails(i) ==
  /\ up
  /\ i \in batch
  /\ offer = NoOffer
  /\ Fault("enqueue")
  /\ \/ UNCHANGED <<task, retried>>
     \/ /\ TaskIDFree(i)
        /\ task' = [task EXCEPT ![i] = "pending"]
        /\ retried' = [retried EXCEPT ![i] = 0]
  /\ offer' = [kind |-> "failed", item |-> i]
  /\ UNCHANGED <<outbox, batch, up, crashes>>

\* Effect on the row of the transaction after a delivery: UPDATE by id, whatever
\* the state is by then.
SettleSent(i) ==
  /\ up
  /\ offer = [kind |-> "delivered", item |-> i]
  /\ outbox' = [outbox EXCEPT ![i] = "sent"]
  /\ batch' = batch \ {i}
  /\ offer' = NoOffer
  /\ UNCHANGED <<task, retried, up, crashes, faults>>

\* The row of a failed enqueue keeps its state and gets a later next_at.
SettleBackoff(i) ==
  /\ up
  /\ offer = [kind |-> "failed", item |-> i]
  /\ outbox' = [outbox EXCEPT ![i] = IF @ = "pending" THEN "backoff" ELSE @]
  /\ batch' = batch \ {i}
  /\ offer' = NoOffer
  /\ UNCHANGED <<task, retried, up, crashes, faults>>

\* A transaction of Dispatch fails or its context ends: the rest of the batch is dropped.
DispatchAborts ==
  /\ up
  /\ batch # {}
  /\ Fault("db")
  /\ batch' = {}
  /\ offer' = NoOffer
  /\ UNCHANGED <<outbox, task, retried, up, crashes>>

\* next_at passes.
BackoffElapses(i) ==
  /\ outbox[i] = "backoff"
  /\ outbox' = [outbox EXCEPT ![i] = "pending"]
  /\ UNCHANGED <<task, retried, batch, offer, up, crashes, faults>>

-----------------------------------------------------------------------------
(* asynq (external), as queue.go uses it.                                  *)

\* The handler returned nil: the task and its TaskID are gone (no retention).
TaskDone(i) ==
  /\ task' = [task EXCEPT ![i] = "none"]
  /\ UNCHANGED retried

\* The handler returned an error: retried until MaxRetry, then archived.
TaskFailed(i) ==
  IF retried[i] < MaxRetry
    THEN /\ task' = [task EXCEPT ![i] = "pending"]
         /\ retried' = [retried EXCEPT ![i] = @ + 1]
    ELSE /\ task' = [task EXCEPT ![i] = "archived"]
         /\ UNCHANGED retried

\* The handler returned SkipRetry.
TaskSkipped(i) ==
  /\ task' = [task EXCEPT ![i] = "archived"]
  /\ UNCHANGED retried

\* A worker takes the task; it stays in Redis as active.
TaskTaken(i) ==
  /\ up
  /\ task[i] = "pending"
  /\ task' = [task EXCEPT ![i] = "active"]
  /\ UNCHANGED <<retried, outbox, batch, offer, up, crashes, faults>>

\* asynq's recoverer finds an active task whose worker is gone.
TaskReclaimed(i) ==
  /\ up
  /\ task[i] = "active"
  /\ TaskFailed(i)
  /\ UNCHANGED <<outbox, batch, offer, up, crashes, faults>>

\* The process exits.  A graceful shutdown hands active tasks back to Redis.
ProcessExits(graceful) ==
  /\ up
  /\ crashes < MaxCrashes
  /\ crashes' = crashes + 1
  /\ up' = FALSE
  /\ batch' = {}
  /\ offer' = NoOffer
  /\ task' = [i \in Items |->
                IF graceful /\ task[i] = "active" THEN "pending" ELSE task[i]]
  /\ UNCHANGED <<outbox, retried, faults>>

=============================================================================
