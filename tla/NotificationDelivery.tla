------------------------ MODULE NotificationDelivery ------------------------
(***************************************************************************)
(* Delivery of the webhook notification of a finished run: the outbox row  *)
(* that finish inserts, Dispatch, the asynq task and ProcessNotification   *)
(* (internal/workspace/service.go), the POST of internal/notify/notify.go, *)
(* process exits.  An item is a run whose report is worth a notification.  *)
(* The notification server of queue.go has one goroutine.                  *)
(***************************************************************************)
EXTENDS OutboxQueue

CONSTANT HookConfigs  \* values of (WebhookURL # "") a restart may bring

ASSUME HookConfigsAssumption == HookConfigs \subseteq BOOLEAN /\ HookConfigs # {}

VARIABLES
  note,     \* notification_status; "none" before finish
  posts,    \* how often the receiver has accepted the report
  unsure,   \* how often the sender did not get to record that (history)
  notifier, \* local state of the notification goroutine
  hook,     \* WebhookURL is set in this process
  txfailed  \* a transaction of ProcessNotification has failed (history)

noteVars == <<note, posts, unsure, notifier, hook, txfailed>>
vars == <<note, posts, unsure, notifier, hook, txfailed, outbox, task, retried, batch, offer, up, crashes, faults>>

NoteStates == {"none", "pending", "sent", "failed"}
Resting == [pc |-> "idle", run |-> CHOOSE i \in Items : TRUE, ret |-> "ok"]
Notifier == [pc : {"idle", "read", "post", "record", "ret"}, run : Items,
             ret : {"ok", "err", "skip"}]

\* Types of all variables of the model.
TypeOK ==
  /\ QueueTypeOK
  /\ note \in [Items -> NoteStates]
  /\ posts \in [Items -> Nat]
  /\ unsure \in [Items -> Nat]
  /\ notifier \in Notifier
  /\ hook \in BOOLEAN
  /\ txfailed \in BOOLEAN

Init ==
  /\ QueueInit
  /\ note = [i \in Items |-> "none"]
  /\ posts = [i \in Items |-> 0]
  /\ unsure = [i \in Items |-> 0]
  /\ notifier = Resting
  /\ hook = TRUE
  /\ txfailed = FALSE

-----------------------------------------------------------------------------

\* finish inserts the outbox row with the final status of the run.
Publish(i) ==
  /\ up
  /\ hook
  /\ note[i] = "none"
  /\ note' = [note EXCEPT ![i] = "pending"]
  /\ outbox' = [outbox EXCEPT ![i] = "pending"]
  /\ UNCHANGED <<posts, unsure, notifier, hook, txfailed, task, retried, batch, offer, up, crashes, faults>>

Dispatch ==
  \/ DispatchSnapshot
  \/ \E i \in Items :
       \/ Enqueue(i) \/ EnqueueFails(i)
       \/ SettleSent(i) \/ SettleBackoff(i)
  \/ DispatchAborts

\* The goroutine takes the task and calls ProcessNotification.
Fetch(i) ==
  /\ notifier.pc = "idle"
  /\ TaskTaken(i)
  /\ notifier' = [pc |-> "read", run |-> i, ret |-> "ok"]
  /\ UNCHANGED <<note, posts, unsure, hook, txfailed>>

\* Mutant: the status is not looked at, the report is posted again.
ReadRunAlwaysPosts ==
  /\ notifier.pc = "read"
  /\ notifier' = [notifier EXCEPT !.pc = "post"]
  /\ UNCHANGED <<note, posts, unsure, hook, txfailed, queueVars>>

\* The status read outside a transaction decides; "started" is recorded before the POST.
ReadRun ==
  /\ notifier.pc = "read"
  /\ notifier' = [notifier EXCEPT
        !.pc = IF note[notifier.run] # "sent" /\ hook THEN "post" ELSE "ret",
        !.ret = IF note[notifier.run] # "sent" /\ ~hook THEN "skip" ELSE "ok"]
  /\ UNCHANGED <<note, posts, unsure, hook, txfailed, queueVars>>

\* The receiver answers 2xx.
PostAccepted ==
  /\ notifier.pc = "post"
  /\ posts' = [posts EXCEPT ![notifier.run] = @ + 1]
  /\ notifier' = [notifier EXCEPT !.pc = "record", !.ret = "ok"]
  /\ UNCHANGED <<note, unsure, hook, txfailed, queueVars>>

\* The receiver refuses, or it accepts and the answer is lost.
PostFails ==
  /\ notifier.pc = "post"
  /\ \/ Fault("refused") /\ UNCHANGED <<posts, unsure>>
     \/ /\ Fault("reply")
        /\ posts' = [posts EXCEPT ![notifier.run] = @ + 1]
        /\ unsure' = [unsure EXCEPT ![notifier.run] = @ + 1]
  /\ notifier' = [notifier EXCEPT !.pc = "record", !.ret = "err"]
  /\ UNCHANGED <<note, hook, txfailed, outbox, task, retried, batch, offer, up, crashes>>

\* This was the last try asynq allows.
LastTry(i) == retried[i] >= MaxRetry

\* Mutant: a failed POST is recorded as sent.
OutcomeOptimistic(i) == IF notifier.ret = "err" /\ LastTry(i) THEN "failed" ELSE "sent"

\* Mutant: an unsuccessful try never ends in a final status.
OutcomeNeverFinal(i) == IF notifier.ret = "ok" THEN "sent" ELSE "pending"

\* The status after a try.
Outcome(i) ==
  CASE notifier.ret = "ok" -> "sent"
    [] notifier.ret = "err" /\ LastTry(i) -> "failed"
    [] OTHER -> "pending"

\* The transaction after the POST: status, and the outbox row is dead after the last try.
Record ==
  LET i == notifier.run
  IN /\ notifier.pc = "record"
     /\ note' = [note EXCEPT ![i] = Outcome(i)]
     /\ outbox' = [outbox EXCEPT ![i] = IF Outcome(i) = "failed" THEN "dead" ELSE @]
     /\ notifier' = [notifier EXCEPT !.pc = "ret"]
     /\ UNCHANGED <<posts, unsure, hook, txfailed, task, retried, batch, offer, up, crashes, faults>>

\* The goroutine is cut off with an accepted POST it has not recorded.
Forget == unsure' = [unsure EXCEPT ![notifier.run] =
                       IF notifier.pc = "record" /\ notifier.ret = "ok" THEN @ + 1 ELSE @]

\* A transaction fails, before the POST or after it.
TxFails ==
  /\ notifier.pc \in {"read", "record"}
  /\ Fault("db")
  /\ Forget
  /\ notifier' = [notifier EXCEPT !.pc = "ret", !.ret = "err"]
  /\ txfailed' = TRUE
  /\ UNCHANGED <<note, posts, hook, outbox, task, retried, batch, offer, up, crashes>>

\* The handler has returned to asynq.
SettleTask ==
  LET i == notifier.run
  IN /\ notifier.pc = "ret"
     /\ CASE notifier.ret = "ok" -> TaskDone(i)
          [] notifier.ret = "err" -> TaskFailed(i)
          [] notifier.ret = "skip" -> TaskSkipped(i)
     /\ notifier' = Resting
     /\ UNCHANGED <<note, posts, unsure, hook, txfailed, outbox, batch, offer, up, crashes, faults>>

Reclaim(i) ==
  /\ ~(notifier.pc # "idle" /\ notifier.run = i)
  /\ TaskReclaimed(i)
  /\ UNCHANGED noteVars

Exit(graceful) ==
  /\ ProcessExits(graceful)
  /\ Forget
  /\ notifier' = Resting
  /\ UNCHANGED <<note, posts, hook, txfailed>>

\* Recover concerns running diagnoses only; the configuration is read again.
Boot ==
  /\ ~up
  /\ up' = TRUE
  /\ hook' \in HookConfigs
  /\ UNCHANGED <<note, posts, unsure, notifier, txfailed, outbox, task, retried, batch, offer, crashes, faults>>

Deliver ==
  \/ ReadRun \/ PostAccepted \/ Record \/ SettleTask

Next ==
  \/ \E i \in Items : Publish(i)
  \/ Dispatch /\ UNCHANGED noteVars
  \/ \E i \in Items : Fetch(i)
  \/ Deliver
  \/ PostFails \/ TxFails
  \/ \E i \in Items : BackoffElapses(i) /\ UNCHANGED noteVars
  \/ \E i \in Items : Reclaim(i)
  \/ \E g \in BOOLEAN : Exit(g)
  \/ Boot

Spec == Init /\ [][Next]_vars

\* The ticker dispatches, the goroutine goes on, asynq hands out and reclaims tasks,
\* time passes.  Nobody owes a failure, an exit or a request.
Fairness ==
  /\ WF_vars(DispatchSnapshot /\ UNCHANGED noteVars)
  /\ \A i \in Items :
       /\ WF_vars(Enqueue(i) /\ UNCHANGED noteVars)
       /\ WF_vars(SettleSent(i) /\ UNCHANGED noteVars)
       /\ WF_vars(SettleBackoff(i) /\ UNCHANGED noteVars)
       /\ WF_vars(BackoffElapses(i) /\ UNCHANGED noteVars)
       /\ WF_vars(Reclaim(i))
       /\ SF_vars(Fetch(i))
  /\ WF_vars(Deliver)
  /\ WF_vars(Boot)

FairSpec == Spec /\ Fairness

-----------------------------------------------------------------------------
(* Properties                                                              *)

\* notification_status=sent is never a lie: the receiver has the report.
SentWasDelivered == \A i \in Items : note[i] = "sent" => posts[i] > 0

\* Delivery is at-least-once, and the receiver sees a report again only after an
\* accepted POST whose result the sender could not record: a redelivered task or an
\* outbox row dispatched twice costs no duplicate.
DuplicatesNeedDoubt == \A i \in Items : posts[i] <= 1 + unsure[i]

\* Once sent, always sent, and never posted again, whatever is redelivered.
SentIsFinal ==
  [][\A i \in Items : note[i] = "sent" => note'[i] = "sent" /\ posts'[i] = posts[i]]_vars

\* Every notification is settled one way or the other, however often the receiver
\* refuses and enqueueing fails, unless an exit or a failed transaction takes a try away
\* (the last try alone records the final status, service.go:381).
NotificationSettles ==
  \A i \in Items :
    note[i] = "pending" ~> note[i] \in {"sent", "failed"} \/ crashes > 0 \/ txfailed

=============================================================================
