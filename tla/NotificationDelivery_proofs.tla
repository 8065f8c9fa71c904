--------------------- MODULE NotificationDelivery_proofs ---------------------
(***************************************************************************)
(* Proofs about NotificationDelivery, for any number of runs, retries,     *)
(* exits, failures and restarts with another configuration.  All of them   *)
(* rest on one bookkeeping invariant, Accounted: the receiver has accepted *)
(* a report once for every accepted POST that was recorded or still can    *)
(* be, and once for every one whose result got lost.                       *)
(***************************************************************************)
EXTENDS NotificationDelivery, TLAPS

\* The goroutine holds an accepted POST of this run that is not recorded yet.
Unrecorded(i) == notifier.pc = "record" /\ notifier.ret = "ok" /\ notifier.run = i

\* A report that is being posted is not recorded as sent, and every POST the receiver
\* accepted is recorded, about to be, or forgotten.
Accounted ==
  /\ notifier.pc \in {"post", "record"} => note[notifier.run] # "sent"
  /\ \A i \in Items :
       posts[i] = unsure[i] + IF note[i] = "sent" \/ Unrecorded(i) THEN 1 ELSE 0

-----------------------------------------------------------------------------
(* Types                                                                   *)

\* The goroutine at rest names some run.
LEMMA RestingType == Resting \in Notifier
  BY ItemsAssumption DEF Resting, Notifier

\* A goroutine that is cut off counts at most one more POST as unsure.
LEMMA ForgetType ==
  ASSUME TypeOK, Forget
  PROVE  /\ unsure' \in [Items -> Nat]
         /\ \A i \in Items : unsure'[i] = unsure[i] + IF Unrecorded(i) THEN 1 ELSE 0
<1>1. notifier.run \in Items
  BY DEF TypeOK, Notifier
<1>2. unsure \in [Items -> Nat]
  BY DEF TypeOK
<1>3. CASE notifier.pc = "record" /\ notifier.ret = "ok"
  BY <1>1, <1>2, <1>3 DEF Forget, Unrecorded
<1>4. CASE ~(notifier.pc = "record" /\ notifier.ret = "ok")
  BY <1>1, <1>2, <1>4 DEF Forget, Unrecorded
<1> QED
  BY <1>3, <1>4

\* The steps of Dispatch keep the types of the queue.
LEMMA DispatchType ==
  ASSUME QueueTypeOK, Dispatch
  PROVE  QueueTypeOK'
<1>1. CASE DispatchSnapshot
  BY <1>1 DEF DispatchSnapshot, Due, QueueTypeOK
<1>2. ASSUME NEW i \in Items, Enqueue(i) \/ EnqueueFails(i)
      PROVE  QueueTypeOK'
  <2>1. task' \in [Items -> TaskStates] /\ retried' \in [Items -> 0..MaxRetry]
    BY <1>2, MaxRetryAssumption DEF Enqueue, EnqueueFails, QueueTypeOK, TaskStates
  <2>2. offer' \in Offers
    BY <1>2 DEF Enqueue, EnqueueFails, Offers
  <2>3. faults' \in 0..MaxFaults
    BY <1>2, BoundsAssumption DEF Enqueue, EnqueueFails, Fault, QueueTypeOK
  <2> QED
    BY <1>2, <2>1, <2>2, <2>3 DEF Enqueue, EnqueueFails, QueueTypeOK
<1>3. ASSUME NEW i \in Items, SettleSent(i) \/ SettleBackoff(i)
      PROVE  QueueTypeOK'
  BY <1>3 DEF SettleSent, SettleBackoff, QueueTypeOK, OutboxStates, Offers
<1>4. CASE DispatchAborts
  BY <1>4, BoundsAssumption DEF DispatchAborts, Fault, QueueTypeOK, Offers
<1> QED
  BY <1>1, <1>2, <1>3, <1>4 DEF Dispatch

\* A task that failed once more is pending again or archived.
LEMMA TaskFailedType ==
  ASSUME QueueTypeOK, NEW i \in Items, TaskFailed(i)
  PROVE  task' \in [Items -> TaskStates] /\ retried' \in [Items -> 0..MaxRetry]
<1>1. CASE retried[i] < MaxRetry
  BY <1>1, MaxRetryAssumption DEF TaskFailed, QueueTypeOK, TaskStates
<1>2. CASE ~(retried[i] < MaxRetry)
  BY <1>2 DEF TaskFailed, QueueTypeOK, TaskStates
<1> QED
  BY <1>1, <1>2

\* Every step keeps the types.
LEMMA NextType ==
  ASSUME TypeOK, [Next]_vars
  PROVE  TypeOK'
<1> USE DEF TypeOK
<1>0. notifier \in Notifier /\ notifier.run \in Items /\ notifier.ret \in {"ok", "err", "skip"}
  BY DEF Notifier
<1>1. CASE UNCHANGED vars
  BY <1>1 DEF vars, QueueTypeOK
<1>2. ASSUME NEW i \in Items, Publish(i)
      PROVE  TypeOK'
  BY <1>2 DEF Publish, QueueTypeOK, OutboxStates, NoteStates
<1>3. CASE Dispatch /\ UNCHANGED noteVars
  <2>1. QueueTypeOK'
    BY <1>3, DispatchType
  <2> QED
    BY <1>3, <2>1 DEF noteVars
<1>4. ASSUME NEW i \in Items, Fetch(i)
      PROVE  TypeOK'
  <2>1. QueueTypeOK'
    BY <1>4 DEF Fetch, TaskTaken, QueueTypeOK, TaskStates
  <2> QED
    BY <1>4, <2>1 DEF Fetch, Notifier
<1>5. CASE ReadRun
  <2>1. notifier' \in Notifier
    BY <1>0, <1>5 DEF ReadRun, Notifier
  <2>2. QueueTypeOK'
    BY <1>5 DEF ReadRun, queueVars, QueueTypeOK
  <2> QED
    BY <1>5, <2>1, <2>2 DEF ReadRun
<1>6. CASE PostAccepted
  <2>1. notifier' \in Notifier
    BY <1>0, <1>6 DEF PostAccepted, Notifier
  <2>2. QueueTypeOK'
    BY <1>6 DEF PostAccepted, queueVars, QueueTypeOK
  <2> QED
    BY <1>0, <1>6, <2>1, <2>2 DEF PostAccepted
<1>7. CASE Record
  <2>1. Outcome(notifier.run) \in NoteStates
    BY DEF Outcome, NoteStates
  <2>2. outbox' \in [Items -> OutboxStates]
    BY <1>0, <1>7 DEF Record, QueueTypeOK, OutboxStates
  <2>3. notifier' \in Notifier
    BY <1>0, <1>7 DEF Record, Notifier
  <2>4. note' \in [Items -> NoteStates]
    BY <1>0, <1>7, <2>1 DEF Record
  <2> QED
    BY <1>7, <2>2, <2>3, <2>4 DEF Record, QueueTypeOK
<1>8. CASE SettleTask
  <2>1. task' \in [Items -> TaskStates] /\ retried' \in [Items -> 0..MaxRetry]
    BY <1>0, <1>8, TaskFailedType
    DEF SettleTask, TaskDone, TaskSkipped, QueueTypeOK, TaskStates
  <2>2. QueueTypeOK'
    BY <1>8, <2>1 DEF SettleTask, QueueTypeOK
  <2> QED
    BY <1>8, <2>2, RestingType DEF SettleTask
<1>9. CASE PostFails
  <2>1. PICK k : Fault(k)
    BY <1>9 DEF PostFails
  <2>2. QueueTypeOK'
    BY <1>9, <2>1, BoundsAssumption DEF PostFails, Fault, QueueTypeOK
  <2>3. notifier' \in Notifier
    BY <1>0, <1>9 DEF PostFails, Notifier
  <2>4. posts' \in [Items -> Nat] /\ unsure' \in [Items -> Nat]
    BY <1>0, <1>9 DEF PostFails
  <2> QED
    BY <1>9, <2>2, <2>3, <2>4 DEF PostFails
<1>10. CASE TxFails
  <2>1. QueueTypeOK'
    BY <1>10, BoundsAssumption DEF TxFails, Fault, QueueTypeOK
  <2>2. notifier' \in Notifier
    BY <1>0, <1>10 DEF TxFails, Notifier
  <2> QED
    BY <1>10, <2>1, <2>2, ForgetType DEF TxFails
<1>11. ASSUME NEW i \in Items, BackoffElapses(i) /\ UNCHANGED noteVars
       PROVE  TypeOK'
  BY <1>11 DEF BackoffElapses, QueueTypeOK, OutboxStates, noteVars
<1>12. ASSUME NEW i \in Items, Reclaim(i)
       PROVE  TypeOK'
  BY <1>12, TaskFailedType DEF Reclaim, TaskReclaimed, QueueTypeOK, noteVars
<1>13. ASSUME NEW g \in BOOLEAN, Exit(g)
       PROVE  TypeOK'
  <2>1. task' \in [Items -> TaskStates]
    BY <1>13 DEF Exit, ProcessExits, QueueTypeOK, TaskStates
  <2>2. crashes' \in 0..MaxCrashes
    BY <1>13, BoundsAssumption DEF Exit, ProcessExits, QueueTypeOK
  <2>3. QueueTypeOK'
    BY <1>13, <2>1, <2>2 DEF Exit, ProcessExits, QueueTypeOK, Offers
  <2> QED
    BY <1>13, <2>3, ForgetType, RestingType DEF Exit
<1>14. CASE Boot
  BY <1>14, HookConfigsAssumption DEF Boot, QueueTypeOK
<1> QED
  BY <1>1, <1>2, <1>3, <1>4, <1>5, <1>6, <1>7, <1>8, <1>9, <1>10, <1>11, <1>12, <1>13, <1>14
  DEF Next, Deliver

\* Every variable keeps its type, with any number of retries, exits and failures.
THEOREM TypeCorrect == Spec => []TypeOK
<1>1. Init => TypeOK
  <2> SUFFICES ASSUME Init PROVE TypeOK
    OBVIOUS
  <2>1. QueueTypeOK
    BY MaxRetryAssumption, BoundsAssumption
    DEF Init, QueueInit, QueueTypeOK, OutboxStates, TaskStates, Offers
  <2> QED
    BY <2>1, RestingType DEF Init, TypeOK, NoteStates
<1>2. TypeOK /\ [Next]_vars => TypeOK'
  BY NextType
<1> QED
  BY <1>1, <1>2, PTL DEF Spec

-----------------------------------------------------------------------------
(* Every accepted POST is accounted for                                    *)

\* Steps that leave status, counters and an unrecorded POST alone.
LEMMA AccountedKept ==
  ASSUME TypeOK, Accounted, UNCHANGED <<note, posts, unsure>>,
         \/ UNCHANGED notifier
         \/ /\ notifier.pc # "record"
            /\ notifier'.pc # "record"
            /\ notifier'.pc = "post" => note[notifier'.run] # "sent"
  PROVE  Accounted'
  BY DEF Accounted, Unrecorded

\* Accounted is kept by every step.
LEMMA AccountedStep ==
  ASSUME TypeOK, Accounted, [Next]_vars
  PROVE  Accounted'
<1> USE DEF TypeOK
<1>0. notifier \in Notifier /\ notifier.run \in Items
  BY DEF Notifier
<1>1. CASE UNCHANGED noteVars
  BY <1>1, AccountedKept DEF noteVars
<1>2. ASSUME NEW i \in Items, Publish(i)
      PROVE  Accounted'
  BY <1>0, <1>2 DEF Publish, Accounted, Unrecorded
<1>3. ASSUME NEW i \in Items, Fetch(i)
      PROVE  Accounted'
  BY <1>3, AccountedKept DEF Fetch
<1>4. CASE ReadRun
  <2>1. /\ notifier'.run = notifier.run
        /\ notifier'.pc \in {"post", "ret"}
        /\ notifier'.pc = "post" => note[notifier.run] # "sent"
    BY <1>0, <1>4 DEF ReadRun, Notifier
  <2> QED
    BY <1>4, <2>1, AccountedKept DEF ReadRun
<1>5. CASE PostAccepted
  <2>1. notifier'.run = notifier.run /\ notifier'.pc = "record" /\ notifier'.ret = "ok"
    BY <1>0, <1>5 DEF PostAccepted, Notifier
  <2>2. note[notifier.run] # "sent" /\ \A i \in Items : ~Unrecorded(i)
    BY <1>5 DEF PostAccepted, Accounted, Unrecorded
  <2> QED
    BY <1>0, <1>5, <2>1, <2>2 DEF PostAccepted, Accounted, Unrecorded
<1>6. CASE PostFails
  <2>1. notifier'.run = notifier.run /\ notifier'.pc = "record" /\ notifier'.ret = "err"
    BY <1>0, <1>6 DEF PostFails, Notifier
  <2>2. note[notifier.run] # "sent" /\ \A i \in Items : ~Unrecorded(i)
    BY <1>6 DEF PostFails, Accounted, Unrecorded
  <2>3. UNCHANGED note
    BY <1>6 DEF PostFails
  <2>4. CASE UNCHANGED <<posts, unsure>>
    BY <1>0, <2>1, <2>2, <2>3, <2>4 DEF Accounted, Unrecorded
  <2>5. CASE /\ posts' = [posts EXCEPT ![notifier.run] = @ + 1]
             /\ unsure' = [unsure EXCEPT ![notifier.run] = @ + 1]
    BY <1>0, <2>1, <2>2, <2>3, <2>5 DEF Accounted, Unrecorded
  <2> QED
    BY <1>6, <2>4, <2>5 DEF PostFails
<1>7. CASE Record
  <2>1. notifier'.run = notifier.run /\ notifier'.pc = "ret"
    BY <1>0, <1>7 DEF Record, Notifier
  <2>2. note[notifier.run] # "sent" /\ (Unrecorded(notifier.run) <=> notifier.ret = "ok")
    BY <1>7 DEF Record, Accounted, Unrecorded
  <2>3. note'[notifier.run] = "sent" <=> notifier.ret = "ok"
    BY <1>0, <1>7 DEF Record, Outcome
  <2>4. \A i \in Items \ {notifier.run} : note'[i] = note[i] /\ ~Unrecorded(i)
    BY <1>0, <1>7 DEF Record, Unrecorded
  <2>5. UNCHANGED <<posts, unsure>>
    BY <1>7 DEF Record
  <2> QED
    BY <1>0, <2>1, <2>2, <2>3, <2>4, <2>5 DEF Accounted, Unrecorded
<1>8. ASSUME Forget, UNCHANGED <<note, posts>>, notifier'.pc \in {"idle", "ret"}
      PROVE  Accounted'
  <2>1. \A i \in Items : Unrecorded(i) => note[i] # "sent"
    BY DEF Accounted, Unrecorded
  <2> QED
    BY <1>8, <2>1, ForgetType DEF Accounted, Unrecorded
<1>9. CASE TxFails
  <2>1. notifier'.pc = "ret"
    BY <1>0, <1>9 DEF TxFails, Notifier
  <2> QED
    BY <1>8, <1>9, <2>1 DEF TxFails
<1>10. CASE SettleTask
  BY <1>10, AccountedKept DEF SettleTask, Resting
<1>11. ASSUME NEW g \in BOOLEAN, Exit(g)
       PROVE  Accounted'
  BY <1>8, <1>11 DEF Exit, Resting
<1>12. CASE Boot
  BY <1>12, AccountedKept DEF Boot
<1> QED
  BY <1>1, <1>2, <1>3, <1>4, <1>5, <1>6, <1>7, <1>9, <1>10, <1>11, <1>12
  DEF Next, Deliver, Reclaim, vars, noteVars

\* Of every POST the receiver accepted the program knows, is about to know, or has
\* counted the doubt.
THEOREM AccountedProved == Spec => []Accounted
<1>1. Init => Accounted
  BY DEF Init, Resting, Accounted, Unrecorded
<1>2. TypeOK /\ Accounted /\ [Next]_vars => Accounted'
  BY AccountedStep
<1> QED
  BY <1>1, <1>2, TypeCorrect, PTL DEF Spec

\* notification_status=sent is never a lie (ProcessNotification).
THEOREM SentProved == Spec => []SentWasDelivered
<1>1. TypeOK /\ Accounted => SentWasDelivered
  BY DEF TypeOK, Accounted, SentWasDelivered
<1> QED
  BY <1>1, TypeCorrect, AccountedProved, PTL

\* A receiver that sees a report again got it from a sender that could not record an
\* accepted POST: no redelivered task or outbox row costs a duplicate.
THEOREM DuplicatesProved == Spec => []DuplicatesNeedDoubt
<1>1. TypeOK /\ Accounted => DuplicatesNeedDoubt
  BY DEF TypeOK, Accounted, DuplicatesNeedDoubt
<1> QED
  BY <1>1, TypeCorrect, AccountedProved, PTL

\* Once sent, a report stays sent and is not posted again.
THEOREM SentIsFinalProved == Spec => SentIsFinal
<1>1. TypeOK /\ Accounted /\ [Next]_vars =>
        [\A i \in Items : note[i] = "sent" => note'[i] = "sent" /\ posts'[i] = posts[i]]_vars
  <2> SUFFICES ASSUME TypeOK, Accounted, [Next]_vars, NEW i \in Items, note[i] = "sent"
               PROVE  note'[i] = "sent" /\ posts'[i] = posts[i]
    OBVIOUS
  <2>1. notifier.run \in Items /\ note \in [Items -> NoteStates] /\ posts \in [Items -> Nat]
    BY DEF TypeOK, Notifier
  <2>2. notifier.pc \in {"post", "record"} => notifier.run # i
    BY DEF Accounted
  <2>3. CASE PostAccepted \/ PostFails \/ Record
    BY <2>1, <2>2, <2>3 DEF PostAccepted, PostFails, Record
  <2>4. ASSUME NEW j \in Items, Publish(j)
        PROVE  note'[i] = "sent" /\ posts'[i] = posts[i]
    BY <2>1, <2>4 DEF Publish
  <2>5. CASE UNCHANGED <<note, posts>>
    BY <2>5
  <2>6. \/ UNCHANGED <<note, posts>> \/ PostAccepted \/ PostFails \/ Record
        \/ \E j \in Items : Publish(j)
    BY DEF Next, Deliver, Fetch, ReadRun, SettleTask, TxFails, Reclaim, Exit, Boot, vars, noteVars
  <2> QED
    BY <2>3, <2>4, <2>5, <2>6
<1> QED
  BY <1>1, TypeCorrect, AccountedProved, PTL DEF Spec, SentIsFinal

=============================================================================
