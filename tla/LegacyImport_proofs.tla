------------------------ MODULE LegacyImport_proofs ------------------------
(***************************************************************************)
(* Proofs about LegacyReports and LegacyImport, for any number of reports, *)
(* payloads, workers, exits, failures and commands, and any ring capacity. *)
(* The inductive invariant says who may still write a report: its webhook, *)
(* the worker that executes its one task, a worker that outlived the       *)
(* timeout of that task, or nobody.                                        *)
(***************************************************************************)
EXTENDS LegacyImport, TLAPS

-----------------------------------------------------------------------------
(* The inductive invariant                                                 *)

\* The list fits and shows every report once, but for those in O.
Single(s, O) ==
  /\ Len(s) <= RingCap
  /\ \A m, n \in DOMAIN s : s[m].id = s[n].id => m = n \/ s[m].id \in O

\* Everything the ring or the file says of a report.
Entries == {ring[n] : n \in DOMAIN ring} \cup {file.items[n] : n \in DOMAIN file.items}
Done(i) == \E e \in Entries : e.id = i /\ e.status = "done"

Taken(p) == task[p].state # "none"
On(w, i) == worker[w].pc # "idle" /\ worker[w].id = i

\* A report that was not issued is nowhere.
IssuedSound ==
  /\ \A e \in Entries : e.id <= issued
  /\ \A i \in told \cup overdue : i <= issued
  /\ \A p \in Payloads : Taken(p) => task[p].id \in 1..issued
  /\ \A i \in Ids : hook[i].pc # "none" => i <= issued
  /\ \A w \in Workers : worker[w].pc # "idle" => worker[w].id \in 1..issued

\* A report has one task, and none before its webhook has queued it.
TaskSound ==
  /\ \A p \in Payloads : ~Taken(p) => task[p] = NoTask
  /\ \A p, q \in Payloads : Taken(p) /\ Taken(q) /\ task[p].id = task[q].id => p = q
  /\ \A i \in Ids : hook[i].pc = "enqueue" =>
       /\ i \notin told \cup overdue
       /\ ~Done(i)
       /\ \A p \in Payloads : Taken(p) => task[p].id # i

\* A worker has its task to itself until the timeout; what it is about to add is not in
\* the ring, unless another execution of its report was or is under way.
WorkerSound ==
  /\ \A w \in Workers : worker[w].pc # "idle" => up
  /\ \A w \in Workers : worker[w].time = "over" => worker[w].id \in overdue
  /\ \A w \in Workers : Executes(w) =>
       /\ task[worker[w].payload].state = "active"
       /\ task[worker[w].payload].id = worker[w].id
  /\ \A v, w \in Workers :
       Executes(v) /\ Executes(w) /\ worker[v].payload = worker[w].payload => v = w
  /\ \A w \in Workers : worker[w].pc = "add" =>
       worker[w].id \notin IdsOf(ring) \/ worker[w].id \in overdue

\* An active task without a worker was cut off by an exit.
CutSound ==
  \A p \in Payloads : task[p].state = "active" => task[p].id \in cut \/ Executing(p)

\* A report that neither an exit nor the timeout cut off has one verdict: once it was told
\* or is done, nobody works on it except to return.
VerdictSound ==
  \A i \in Ids \ (cut \cup overdue) :
    /\ i \in told =>
         /\ ~Done(i)
         /\ \A w \in Workers : On(w, i) => worker[w].pc = "return" /\ worker[w].status = "failed"
         /\ \A p \in Payloads : task[p].state = "pending" => task[p].id # i
    /\ Done(i) =>
         /\ \A w \in Workers : On(w, i) =>
              worker[w].pc \in {"notify", "return"} /\ worker[w].status = "done"
         /\ \A p \in Payloads : task[p].state = "pending" => task[p].id # i

RingInv ==
  /\ Single(ring, overdue) /\ Single(file.items, overdue)
  /\ IssuedSound
  /\ TaskSound
  /\ WorkerSound
  /\ CutSound
  /\ VerdictSound

-----------------------------------------------------------------------------
(* The ring                                                                *)

\* What a write to the ring about report i leaves: single lists, the entries there were
\* and perhaps one of i with this status.
Written(i, status) ==
  /\ ring' \in Seq(Report) /\ file' \in File /\ faults' \in 0..MaxFaults
  /\ Single(ring', overdue) /\ Single(file'.items, overdue)
  /\ \A e \in Entries' : e \in Entries \/ (e.id = i /\ e.status = status)
  /\ IdsOf(ring') \subseteq IdsOf(ring) \cup {i}

\* Adding a report that is not in the ring, or may be there again, drops the oldest ones
\* at most.
LEMMA RingWithSingle ==
  ASSUME ring \in Seq(Report), Single(ring, overdue), NEW rep \in Report,
         rep.id \notin IdsOf(ring) \/ rep.id \in overdue
  PROVE  /\ RingWith(rep) \in Seq(Report)
         /\ Single(RingWith(rep), overdue)
         /\ \A n \in DOMAIN RingWith(rep) :
              RingWith(rep)[n] = rep \/ \E m \in DOMAIN ring : RingWith(rep)[n] = ring[m]
<1> DEFINE all == Append(ring, rep)
           L == Len(ring) + 1
<1>1. /\ all \in Seq(Report) /\ Len(all) = L /\ DOMAIN all = 1..L
      /\ Len(ring) \in Nat /\ DOMAIN ring = 1..Len(ring)
      /\ all[L] = rep /\ \A n \in 1..Len(ring) : all[n] = ring[n]
  OBVIOUS
<1>2. RingCap \in Nat /\ RingCap # 0 /\ Len(ring) <= RingCap
  BY LegacyAssumption DEF Single
<1> HIDE DEF all
<1>3. \A m, n \in 1..L : all[m].id = all[n].id => m = n \/ all[m].id \in overdue
  <2>1. \A n \in 1..Len(ring) : ring[n].id = rep.id => rep.id \in overdue
    BY <1>1 DEF IdsOf
  <2>2. \A m, n \in 1..Len(ring) : ring[m].id = ring[n].id => m = n \/ ring[m].id \in overdue
    BY <1>1 DEF Single
  <2> QED
    BY <1>1, <2>1, <2>2
<1>4. CASE L > RingCap
  <2>1. RingWith(rep) = SubSeq(all, L - RingCap + 1, L)
    BY <1>1, <1>4 DEF RingWith, all
  <2>2. L = RingCap + 1
    BY <1>1, <1>2, <1>4
  <2>3. /\ SubSeq(all, 2, L) \in Seq(Report) /\ Len(SubSeq(all, 2, L)) = Len(ring)
        /\ DOMAIN SubSeq(all, 2, L) = 1..Len(ring)
        /\ \A n \in 1..Len(ring) : SubSeq(all, 2, L)[n] = all[n + 1]
    BY <1>1, <1>2, <2>2
  <2>4. RingWith(rep) = SubSeq(all, 2, L)
    <3>1. L - RingCap + 1 = 2
      BY <1>1, <1>2, <2>2
    <3> HIDE DEF L
    <3> QED
      BY <2>1, <3>1
  <2>5. \A m, n \in 1..Len(ring) : RingWith(rep)[m].id = RingWith(rep)[n].id =>
          m = n \/ RingWith(rep)[m].id \in overdue
    <3>1. \A m \in 1..Len(ring) : m + 1 \in 1..L
      BY <1>1
    <3> QED
      BY <1>1, <1>3, <2>3, <2>4, <3>1
  <2>6. \A n \in 1..Len(ring) : RingWith(rep)[n] = rep \/ \E m \in DOMAIN ring : RingWith(rep)[n] = ring[m]
    <3> SUFFICES ASSUME NEW n \in 1..Len(ring)
                 PROVE  all[n + 1] = rep \/ \E m \in DOMAIN ring : all[n + 1] = ring[m]
      BY <2>3, <2>4
    <3>1. CASE n = Len(ring)
      BY <1>1, <3>1
    <3>2. CASE n # Len(ring)
      <4>1. n + 1 \in 1..Len(ring)
        <5>1. n \in Nat /\ Len(ring) \in Nat /\ 1 <= n /\ n <= Len(ring)
          BY <1>1
        <5> QED
          BY <3>2, <5>1
      <4>2. all[n + 1] = ring[n + 1] /\ n + 1 \in DOMAIN ring
        BY <1>1, <4>1
      <4> QED
        BY <4>2
    <3> QED
      BY <3>1, <3>2
  <2> QED
    BY <1>1, <1>2, <2>3, <2>4, <2>5, <2>6 DEF Single
<1>5. CASE ~(L > RingCap)
  <2>1. RingWith(rep) = all
    BY <1>1, <1>5 DEF RingWith, all
  <2>2. \A n \in 1..L : all[n] = rep \/ \E m \in DOMAIN ring : all[n] = ring[m]
    BY <1>1
  <2> QED
    BY <1>1, <1>2, <1>3, <1>5, <2>1, <2>2 DEF Single
<1> QED
  BY <1>4, <1>5

\* Updating changes status and text of a report in its place.
LEMMA UpdatedSingle ==
  ASSUME ring \in Seq(Report), Single(ring, overdue), NEW i \in Ids, NEW status \in Statuses,
         NEW text \in Texts \cup {Kept}
  PROVE  /\ Updated(i, status, text) \in Seq(Report)
         /\ Single(Updated(i, status, text), overdue)
         /\ DOMAIN Updated(i, status, text) = DOMAIN ring
         /\ \A n \in DOMAIN ring :
              /\ Updated(i, status, text)[n].id = ring[n].id
              /\ \/ Updated(i, status, text)[n] = ring[n]
                 \/ Updated(i, status, text)[n].id = i /\ Updated(i, status, text)[n].status = status
<1> DEFINE new(n) == [id |-> i, status |-> status,
                      text |-> IF text = Kept THEN ring[n].text ELSE text]
           upd == Updated(i, status, text)
<1>1. Len(ring) \in Nat /\ DOMAIN ring = 1..Len(ring) /\ \A n \in 1..Len(ring) : ring[n] \in Report
  OBVIOUS
<1>2. \A n \in DOMAIN ring : new(n) \in Report /\ new(n).id = i /\ new(n).status = status
  BY <1>1 DEF Report
<1>3. /\ DOMAIN upd = DOMAIN ring
      /\ \A n \in DOMAIN ring : \/ upd[n] = ring[n]
                                \/ upd[n] = new(n) /\ ring[n].id = i
      /\ upd = [n \in DOMAIN ring |-> upd[n]]
  BY DEF Updated
<1> HIDE DEF upd, new
<1>4. \A n \in 1..Len(ring) : upd[n] \in Report /\ upd[n].id = ring[n].id
  BY <1>1, <1>2, <1>3
<1>5. upd \in Seq(Report) /\ Len(upd) = Len(ring)
  BY <1>1, <1>3, <1>4
<1>6. Single(upd, overdue)
  BY <1>1, <1>3, <1>4, <1>5 DEF Single
<1>7. \A n \in DOMAIN ring : upd[n] = ring[n] \/ (upd[n].id = i /\ upd[n].status = status)
  BY <1>2, <1>3
<1> QED
  BY <1>1, <1>3, <1>4, <1>5, <1>6, <1>7 DEF upd

\* persistLocked writes the ring or, with a fault, nothing.
LEMMA PersistTypes ==
  ASSUME LegacyTypeOK, Single(file.items, overdue), NEW s \in Seq(Report), Single(s, overdue), Persist(s)
  PROVE  /\ file' \in File /\ faults' \in 0..MaxFaults /\ Single(file'.items, overdue)
         /\ file'.items = s \/ file' = file
<1>1. CASE file' = [state |-> "readable", items |-> s] /\ UNCHANGED faults
  <2>1. file' \in File /\ file'.items = s
    BY <1>1 DEF File
  <2> QED
    BY <1>1, <2>1 DEF LegacyTypeOK
<1>2. CASE Fault("disk") /\ UNCHANGED file
  <2>1. faults' \in 0..MaxFaults
    BY <1>2, LegacyAssumption DEF Fault, LegacyTypeOK
  <2> QED
    BY <1>2, <2>1 DEF LegacyTypeOK
<1> QED
  BY <1>1, <1>2 DEF Persist

\* Add, update and a missed update are writes.
LEMMA AddWrites ==
  ASSUME LegacyTypeOK, Single(ring, overdue), Single(file.items, overdue), NEW rep \in Report,
         rep.id \notin IdsOf(ring) \/ rep.id \in overdue, Add(rep)
  PROVE  Written(rep.id, rep.status)
<1>1. PICK s \in Seq(Report) : s = RingWith(rep)
  BY RingWithSingle DEF LegacyTypeOK
<1>2. /\ Single(s, overdue)
      /\ \A n \in DOMAIN s : s[n] = rep \/ \E m \in DOMAIN ring : s[n] = ring[m]
  BY <1>1, RingWithSingle DEF LegacyTypeOK
<1>3. ring' = s /\ Persist(s)
  BY <1>1 DEF Add
<1>4. /\ file' \in File /\ faults' \in 0..MaxFaults /\ Single(file'.items, overdue)
      /\ file'.items = s \/ file' = file
  BY <1>2, <1>3, PersistTypes
<1>5. \A e \in Entries' : e \in Entries \/ e = rep
  BY <1>2, <1>3, <1>4 DEF Entries
<1>6. IdsOf(ring') \subseteq IdsOf(ring) \cup {rep.id}
  BY <1>2, <1>3 DEF IdsOf
<1> QED
  BY <1>2, <1>3, <1>4, <1>5, <1>6 DEF Written

\* An update of report i; its report stays where it is.
LEMMA UpdateWrites ==
  ASSUME LegacyTypeOK, Single(ring, overdue), Single(file.items, overdue), NEW i \in Ids,
         NEW status \in Statuses, NEW text \in Texts \cup {Kept},
         Update(i, status, text) \/ UpdateMisses(i)
  PROVE  Written(i, status) /\ IdsOf(ring') \subseteq IdsOf(ring)
<1>1. CASE Update(i, status, text)
  <2>1. PICK s \in Seq(Report) : s = Updated(i, status, text)
    BY UpdatedSingle DEF LegacyTypeOK
  <2>2. /\ Single(s, overdue) /\ DOMAIN s = DOMAIN ring
        /\ \A n \in DOMAIN ring :
             s[n].id = ring[n].id /\ (s[n] = ring[n] \/ (s[n].id = i /\ s[n].status = status))
    BY <2>1, UpdatedSingle DEF LegacyTypeOK
  <2>3. ring' = s /\ Persist(s)
    BY <1>1, <2>1 DEF Update
  <2>4. /\ file' \in File /\ faults' \in 0..MaxFaults /\ Single(file'.items, overdue)
        /\ file'.items = s \/ file' = file
    BY <2>2, <2>3, PersistTypes
  <2>6. \A e \in Entries' : e \in Entries \/ (e.id = i /\ e.status = status)
    BY <2>2, <2>3, <2>4 DEF Entries
  <2>7. IdsOf(ring') \subseteq IdsOf(ring)
    BY <2>2, <2>3 DEF IdsOf
  <2> QED
    BY <2>2, <2>3, <2>4, <2>6, <2>7 DEF Written
<1>2. CASE UpdateMisses(i)
  BY <1>2 DEF UpdateMisses, Written, LegacyTypeOK, Entries, IdsOf
<1> QED
  BY <1>1, <1>2

-----------------------------------------------------------------------------
(* Types                                                                   *)

PCs == {"idle", "start", "chain", "markFailed", "add", "notify", "return"}

\* Worker w goes on to pc.
WorkerMoved(w, pc, status, text) ==
  /\ worker' \in [Workers -> Worker]
  /\ worker'[w].pc = pc /\ worker'[w].status = status /\ worker'[w].text = text
  /\ worker'[w].id = worker[w].id /\ worker'[w].payload = worker[w].payload
  /\ worker'[w].time = worker[w].time
  /\ \A v \in Workers : v # w => worker'[v] = worker[v]

\* The two forms in which a worker goes on.
LEMMA Moves ==
  ASSUME worker \in [Workers -> Worker], NEW w \in Workers, NEW pc \in PCs
  PROVE  /\ \A status \in Statuses, text \in Texts :
              Holding(w, pc, status, text) => WorkerMoved(w, pc, status, text)
         /\ worker' = [worker EXCEPT ![w].pc = pc] =>
              WorkerMoved(w, pc, worker[w].status, worker[w].text)
<1>1. worker[w] \in Worker
  OBVIOUS
<1>2. ASSUME NEW status \in Statuses, NEW text \in Texts, Holding(w, pc, status, text)
      PROVE  WorkerMoved(w, pc, status, text)
  <2> DEFINE new == [worker[w] EXCEPT !.pc = pc, !.status = status, !.text = text]
  <2>1. worker' = [worker EXCEPT ![w] = new]
    BY <1>1, <1>2 DEF Holding
  <2>2. /\ new \in Worker /\ new.pc = pc /\ new.status = status /\ new.text = text
        /\ new.id = worker[w].id /\ new.payload = worker[w].payload /\ new.time = worker[w].time
    BY <1>1 DEF Worker, PCs
  <2> HIDE DEF new
  <2>3. /\ worker' \in [Workers -> Worker] /\ worker'[w] = new
        /\ \A v \in Workers : v # w => worker'[v] = worker[v]
    BY <2>1, <2>2
  <2> QED
    BY <2>2, <2>3 DEF WorkerMoved
<1>3. ASSUME worker' = [worker EXCEPT ![w].pc = pc]
      PROVE  WorkerMoved(w, pc, worker[w].status, worker[w].text)
  <2> DEFINE new == [worker[w] EXCEPT !.pc = pc]
  <2>1. worker' = [worker EXCEPT ![w] = new]
    BY <1>1, <1>3
  <2>2. /\ new \in Worker /\ new.pc = pc /\ new.status = worker[w].status
        /\ new.text = worker[w].text
        /\ new.id = worker[w].id /\ new.payload = worker[w].payload /\ new.time = worker[w].time
    BY <1>1 DEF Worker, PCs
  <2> HIDE DEF new
  <2>3. /\ worker' \in [Workers -> Worker] /\ worker'[w] = new
        /\ \A v \in Workers : v # w => worker'[v] = worker[v]
    BY <2>1, <2>2
  <2> QED
    BY <2>2, <2>3 DEF WorkerMoved
<1> QED
  BY <1>2, <1>3

\* Nothing at rest is ill-typed.
LEMMA RestTypes ==
  /\ NoHook \in Hook /\ NoTask \in Task /\ Idle \in Worker
  /\ NoFile \in File /\ TornFile \in File /\ NoFile.items = <<>> /\ TornFile.items = <<>>
<1>1. AnyPayload \in Payloads
  BY LegacyAssumption DEF AnyPayload
<1>2. 0 \in 0..MaxReports /\ 0 \in 0..MaxRetry
  BY LegacyAssumption
<1>3. NoHook \in Hook /\ NoTask \in Task /\ Idle \in Worker
  BY <1>1, <1>2 DEF NoHook, Hook, NoTask, Task, Idle, Worker, Statuses, Texts
<1>4. <<>> \in Seq(Report)
  OBVIOUS
<1>5. NoFile \in File /\ NoFile.items = <<>>
  BY <1>4 DEF NoFile, File
<1>6. TornFile \in File /\ TornFile.items = <<>>
  BY <1>4 DEF TornFile, File
<1> QED
  BY <1>3, <1>5, <1>6

\* A worker that is not idle works on an issued report, and if its task has not timed out,
\* executes it.
LEMMA WorkersReport ==
  ASSUME LegacyTypeOK, RingInv, NEW w \in Workers, worker[w].pc # "idle"
  PROVE  /\ worker[w].id \in Ids /\ worker[w].id \in 1..issued
         /\ worker[w].payload \in Payloads
         /\ Executes(w) => /\ task[worker[w].payload].state = "active"
                           /\ task[worker[w].payload].id = worker[w].id
         /\ ~Executes(w) => worker[w].id \in overdue
<1>1. worker[w].payload \in Payloads /\ worker[w].time \in {"left", "over"}
  BY DEF LegacyTypeOK, Worker
<1>2. /\ Executes(w) => /\ task[worker[w].payload].state = "active"
                        /\ task[worker[w].payload].id = worker[w].id
      /\ ~Executes(w) => worker[w].id \in overdue
  BY <1>1 DEF RingInv, WorkerSound, Executes
<1>3. worker[w].id \in 1..issued
  BY DEF RingInv, IssuedSound
<1>4. worker[w].id \in Ids
  <2>1. issued \in 0..MaxReports
    BY DEF LegacyTypeOK
  <2> QED
    BY <1>3, <2>1, LegacyAssumption DEF Ids
<1> QED
  BY <1>1, <1>2, <1>3, <1>4

\* A fault is counted.
LEMMA FaultCounts ==
  ASSUME LegacyTypeOK, NEW kind, Fault(kind)
  PROVE  faults' \in 0..MaxFaults
  BY LegacyAssumption DEF LegacyTypeOK, Fault

\* No two workers work on the same report, unless its task ran into the timeout.
LEMMA WorkersApart ==
  ASSUME LegacyTypeOK, RingInv, NEW v \in Workers, NEW w \in Workers,
         worker[v].pc # "idle", worker[w].pc # "idle", worker[v].id = worker[w].id,
         worker[v].id \notin overdue
  PROVE  v = w
<1>1. /\ worker[v].payload \in Payloads /\ worker[w].payload \in Payloads
      /\ Executes(v) /\ Executes(w)
      /\ Taken(worker[v].payload) /\ Taken(worker[w].payload)
      /\ task[worker[v].payload].id = task[worker[w].payload].id
  BY WorkersReport DEF Taken
<1>2. worker[v].payload = worker[w].payload
  BY <1>1 DEF RingInv, TaskSound
<1> QED
  BY <1>1, <1>2 DEF RingInv, WorkerSound

-----------------------------------------------------------------------------
(* Workers                                                                 *)

\* A worker goes on with its report i, of which it may write an entry or tell.
WorkStep(w, i, pc, status) ==
  /\ worker[w].pc # "idle" /\ worker[w].id = i /\ pc # "idle"
  /\ \E text : WorkerMoved(w, pc, status, text)
  /\ Single(ring', overdue) /\ Single(file'.items, overdue)
  /\ \A e \in Entries' : e \in Entries \/ e.id = i
  /\ IdsOf(ring') \subseteq IdsOf(ring) \cup {i}
  /\ \A j \in told' : j \in told \/ j = i
  /\ pc = "add" => i \notin IdsOf(ring') \/ i \in overdue
  /\ i \notin cut \cup overdue =>
       /\ i \in told' => ~Done(i)' /\ pc = "return" /\ status = "failed"
       /\ Done(i)' => pc \in {"notify", "return"} /\ status = "done"
  /\ UNCHANGED <<hook, task, cut, overdue, up, issued>>

\* Such a step keeps the invariant.
LEMMA WorkStepInv ==
  ASSUME LegacyTypeOK, RingInv, NEW w \in Workers, NEW i, NEW pc, NEW status,
         WorkStep(w, i, pc, status)
  PROVE  RingInv'
<1>1. /\ worker[w].pc # "idle" /\ worker[w].id = i
      /\ UNCHANGED <<hook, task, cut, overdue, up, issued>>
  BY DEF WorkStep
<1>2. /\ i \in Ids /\ i \in 1..issued /\ worker[w].payload \in Payloads
      /\ \/ i \in overdue
         \/ task[worker[w].payload].state = "active" /\ task[worker[w].payload].id = i
  BY <1>1, WorkersReport
<1>3. /\ worker'[w].pc = pc /\ worker'[w].status = status /\ pc # "idle"
      /\ worker'[w].id = i /\ worker'[w].payload = worker[w].payload
      /\ worker'[w].time = worker[w].time
      /\ \A v \in Workers : v # w => worker'[v] = worker[v]
  BY DEF WorkStep, WorkerMoved
<1>4. /\ \A e \in Entries' : e \in Entries \/ e.id = i
      /\ \A j \in told' : j \in told \/ j = i
  BY DEF WorkStep
<1>5. \A j : j # i => (Done(j)' => Done(j)) /\ (j \in told' => j \in told)
  BY <1>4 DEF Done
<1>6. \A v \in Workers : /\ (worker'[v].pc # "idle" <=> worker[v].pc # "idle")
                          /\ worker'[v].payload = worker[v].payload
                          /\ worker'[v].id = worker[v].id /\ worker'[v].time = worker[v].time
                          /\ (Executes(v)' <=> Executes(v))
  <2>1. \A v \in Workers : /\ (worker'[v].pc # "idle" <=> worker[v].pc # "idle")
                           /\ worker'[v].payload = worker[v].payload
                           /\ worker'[v].id = worker[v].id /\ worker'[v].time = worker[v].time
    <3> SUFFICES ASSUME NEW v \in Workers
                 PROVE  /\ (worker'[v].pc # "idle" <=> worker[v].pc # "idle")
                        /\ worker'[v].payload = worker[v].payload
                        /\ worker'[v].id = worker[v].id /\ worker'[v].time = worker[v].time
      OBVIOUS
    <3>1. CASE v = w
      BY <1>1, <1>3, <3>1
    <3>2. CASE v # w
      BY <1>3, <3>2
    <3> QED
      BY <3>1, <3>2
  <2> QED
    BY <2>1 DEF Executes
<1>11. IssuedSound'
  <2>0. i <= issued
    BY <1>2
  <2>1. \A e \in Entries' : e.id <= issued
    BY <1>4, <2>0 DEF RingInv, IssuedSound
  <2>2. \A j \in told' \cup overdue : j <= issued
    BY <1>4, <2>0 DEF RingInv, IssuedSound
  <2>3. \A v \in Workers : worker'[v].pc # "idle" => worker'[v].id \in 1..issued
    BY <1>6 DEF RingInv, IssuedSound
  <2> QED
    BY <1>1, <2>1, <2>2, <2>3 DEF RingInv, IssuedSound, Taken
<1>7. TaskSound'
  <2>1. \A j \in Ids : hook[j].pc = "enqueue" => j # i /\ j \notin told \cup overdue /\ ~Done(j)
    BY <1>2 DEF RingInv, TaskSound, Taken
  <2> QED
    BY <1>1, <1>5, <2>1 DEF RingInv, TaskSound, Taken
<1>8. WorkerSound'
  <2>2. ASSUME NEW v \in Workers, worker'[v].pc = "add"
        PROVE  worker'[v].id \notin IdsOf(ring') \/ worker'[v].id \in overdue
    <3>1. CASE v = w
      BY <1>3, <2>2, <3>1 DEF WorkStep
    <3>2. CASE v # w /\ worker[v].id \notin overdue
      <4>1. worker[v].pc = "add" /\ worker'[v].id = worker[v].id
        BY <1>3, <2>2, <3>2
      <4>2. worker[v].id # i
        BY <1>1, <3>2, <4>1, WorkersApart
      <4>3. worker[v].id \notin IdsOf(ring)
        BY <3>2, <4>1 DEF RingInv, WorkerSound
      <4> QED
        BY <4>1, <4>2, <4>3 DEF WorkStep
    <3> QED
      BY <1>6, <3>1, <3>2
  <2>3. \A v \in Workers :
          /\ worker'[v].pc # "idle" => up
          /\ worker'[v].time = "over" => worker'[v].id \in overdue
    BY <1>6 DEF RingInv, WorkerSound
  <2>4. \A v \in Workers : Executes(v)' =>
          /\ task[worker'[v].payload].state = "active"
          /\ task[worker'[v].payload].id = worker'[v].id
    BY <1>6 DEF RingInv, WorkerSound
  <2>5. \A v, u \in Workers :
          Executes(v)' /\ Executes(u)' /\ worker'[v].payload = worker'[u].payload => v = u
    BY <1>6 DEF RingInv, WorkerSound
  <2> QED
    BY <1>1, <2>2, <2>3, <2>4, <2>5 DEF WorkerSound
<1>9. CutSound'
  <2>1. \A p : Executing(p) => Executing(p)'
    BY <1>6 DEF Executing
  <2> QED
    BY <1>1, <2>1 DEF RingInv, CutSound
<1>10. VerdictSound'
  <2> SUFFICES ASSUME NEW j \in Ids, j \notin cut \cup overdue
               PROVE  /\ j \in told' =>
                           /\ ~Done(j)'
                           /\ \A v \in Workers : On(v, j)' =>
                                worker'[v].pc = "return" /\ worker'[v].status = "failed"
                           /\ \A p \in Payloads : task[p].state = "pending" => task[p].id # j
                      /\ Done(j)' =>
                           /\ \A v \in Workers : On(v, j)' =>
                                worker'[v].pc \in {"notify", "return"} /\ worker'[v].status = "done"
                           /\ \A p \in Payloads : task[p].state = "pending" => task[p].id # j
    BY <1>1 DEF VerdictSound
  <2>1. CASE j # i
    <3>1. \A v \in Workers : On(v, j)' => On(v, j) /\ worker'[v] = worker[v]
      BY <1>3, <2>1 DEF On
    <3> QED
      BY <1>5, <2>1, <3>1 DEF RingInv, VerdictSound
  <2>2. CASE j = i
    <3>1. \A v \in Workers : On(v, i)' => v = w
      <4>1. \A v \in Workers : On(v, i)' => worker[v].pc # "idle" /\ worker[v].id = i
        BY <1>6 DEF On
      <4> QED
        BY <1>1, <2>2, <4>1, WorkersApart
    <3>2. \A p \in Payloads : task[p].state = "pending" => task[p].id # i
      BY <1>2, <2>2 DEF RingInv, TaskSound, Taken
    <3>3. /\ i \in told' => ~Done(i)' /\ pc = "return" /\ status = "failed"
          /\ Done(i)' => pc \in {"notify", "return"} /\ status = "done"
      BY <2>2 DEF WorkStep
    <3> QED
      BY <1>3, <2>2, <3>1, <3>2, <3>3
  <2> QED
    BY <2>1, <2>2
<1> QED
  BY <1>1, <1>7, <1>8, <1>9, <1>10, <1>11 DEF RingInv, WorkStep

\* Nobody was told of a report that is being worked on, and it is not done, unless
\* an exit or the timeout cut it off.
LEMMA Undecided ==
  ASSUME LegacyTypeOK, RingInv, NEW w \in Workers, worker[w].pc \notin {"idle", "return"},
         worker[w].id \notin cut \cup overdue
  PROVE  /\ worker[w].id \notin told
         /\ Done(worker[w].id) => worker[w].pc = "notify" /\ worker[w].status = "done"
<1>1. worker[w].id \in Ids /\ On(w, worker[w].id)
  BY WorkersReport DEF On
<1> QED
  BY <1>1 DEF RingInv, VerdictSound

\* A write of the worker's own report.
LEMMA WorkWrites ==
  ASSUME LegacyTypeOK, RingInv, NEW w \in Workers, NEW i, NEW pc, NEW status, NEW text,
         NEW entry, i = worker[w].id,
         worker[w].pc \notin {"idle", "return", "notify"}, WorkerMoved(w, pc, status, text),
         Written(i, entry), pc # "idle",
         pc = "add" => i \notin IdsOf(ring') \/ i \in overdue,
         entry = "done" => pc = "notify" /\ status = "done",
         UNCHANGED <<hook, task, notice, told, cut, overdue, up, issued, exits>>
  PROVE  LegacyTypeOK' /\ RingInv'
<1>1. i \notin cut \cup overdue => i \notin told /\ ~Done(i)
  BY Undecided
<1>2. Done(i)' => Done(i) \/ entry = "done"
  BY DEF Written, Done
<1>3. WorkStep(w, i, pc, status)
  BY <1>1, <1>2 DEF WorkStep, Written
<1>4. RingInv'
  BY <1>3, WorkStepInv
<1>5. LegacyTypeOK'
  BY DEF LegacyTypeOK, Written, WorkerMoved
<1> QED
  BY <1>4, <1>5

\* The steps of a worker up to its notice.
LEMMA WorkInv ==
  ASSUME LegacyTypeOK, RingInv, NEW w \in Workers,
         \/ Start(w) \/ (\E text \in Outcomes : ChainDone(w, text))
         \/ MarkFailed(w) \/ AddWritten(w) \/ ChainPanics(w)
  PROVE  LegacyTypeOK' /\ RingInv'
<1> DEFINE i == worker[w].id
<1>0. worker[w].pc \notin {"idle", "return", "notify"}
  BY DEF Start, ChainDone, MarkFailed, AddWritten, ChainPanics
<1>1. /\ worker \in [Workers -> Worker] /\ worker[w] \in Worker /\ ring \in Seq(Report)
      /\ Single(ring, overdue) /\ Single(file.items, overdue) /\ i \in Ids
  BY <1>0, WorkersReport DEF LegacyTypeOK, RingInv
<1>2. CASE Start(w)
  <2>1. Update(i, "running", Kept) \/ UpdateMisses(i)
    BY <1>2 DEF Start
  <2>2. Written(i, "running")
    BY <1>1, <2>1, UpdateWrites DEF Statuses
  <2>3. WorkerMoved(w, "chain", worker[w].status, worker[w].text)
    BY <1>1, <1>2, Moves DEF Start, PCs
  <2> QED
    BY <1>0, <1>2, <2>2, <2>3, WorkWrites DEF Start
<1>3. ASSUME NEW status \in {"done", "failed"}, NEW text \in Texts, Write(w, status, text),
             UNCHANGED <<hook, task, notice, told, cut, overdue, up, issued, exits>>
      PROVE  LegacyTypeOK' /\ RingInv'
  <2>1. CASE Update(i, status, text) /\ Holding(w, "notify", status, text)
    <3>1. Written(i, status)
      BY <1>1, <1>3, <2>1, UpdateWrites DEF Statuses
    <3>2. WorkerMoved(w, "notify", status, text)
      BY <1>1, <1>3, <2>1, Moves DEF PCs, Statuses
    <3> QED
      BY <1>0, <1>3, <3>1, <3>2, WorkWrites
  <2>2. CASE UpdateMisses(i) /\ Holding(w, "add", status, text)
    <3>1. Written(i, "queued") /\ IdsOf(ring') = IdsOf(ring) /\ i \notin IdsOf(ring)
      BY <1>1, <2>2 DEF UpdateMisses, Written, LegacyTypeOK, Entries, IdsOf
    <3>2. WorkerMoved(w, "add", status, text)
      BY <1>1, <1>3, <2>2, Moves DEF PCs, Statuses
    <3> QED
      BY <1>0, <1>3, <3>1, <3>2, WorkWrites
  <2> QED
    BY <1>3, <2>1, <2>2 DEF Write
<1>4. CASE \E text \in Outcomes : ChainDone(w, text)
  <2>1. PICK text \in Outcomes : ChainDone(w, text)
    BY <1>4
  <2>2. text \in Texts
    BY LegacyAssumption DEF Texts
  <2> QED
    BY <1>3, <2>1, <2>2 DEF ChainDone
<1>5. CASE MarkFailed(w)
  BY <1>3, <1>5 DEF MarkFailed, Texts
<1>6. CASE AddWritten(w)
  <2>1. PICK rep \in Report : rep = [id |-> i, status |-> worker[w].status, text |-> worker[w].text]
    BY <1>1 DEF Report, Worker
  <2>2. rep.id = i /\ rep.status = worker[w].status /\ Add(rep)
    BY <1>6, <2>1 DEF AddWritten
  <2>3. i \notin IdsOf(ring) \/ i \in overdue
    BY <1>6 DEF AddWritten, RingInv, WorkerSound
  <2>4. Written(rep.id, rep.status)
    BY <1>1, <2>2, <2>3, AddWrites
  <2>5. Written(i, worker[w].status)
    BY <2>2, <2>4
  <2>6. WorkerMoved(w, "notify", worker[w].status, worker[w].text)
    BY <1>1, <1>6, Moves DEF AddWritten, PCs
  <2> QED
    BY <1>0, <1>6, <2>5, <2>6, WorkWrites DEF AddWritten
<1>7. CASE ChainPanics(w)
  <2>1. faults' \in 0..MaxFaults
    BY <1>7, FaultCounts DEF ChainPanics
  <2>2. Written(i, "queued")
    BY <1>1, <1>7, <2>1 DEF ChainPanics, Written, LegacyTypeOK, Entries, IdsOf
  <2>3. WorkerMoved(w, "markFailed", "failed", "panic")
    BY <1>1, <1>7, Moves DEF ChainPanics, PCs, Statuses, Texts
  <2> QED
    BY <1>0, <1>7, <2>2, <2>3, WorkWrites DEF ChainPanics
<1> QED
  BY <1>2, <1>4, <1>5, <1>6, <1>7

\* The notice: whoever is told of a failure finds no done report.
LEMMA NotifyInv ==
  ASSUME LegacyTypeOK, RingInv, NEW w \in Workers, MaybeNotify(w)
  PROVE  LegacyTypeOK' /\ RingInv'
<1> DEFINE i == worker[w].id
<1>1. /\ worker \in [Workers -> Worker] /\ worker[w].pc = "notify"
      /\ UNCHANGED <<ring, file, hook, task, cut, overdue, up, issued, exits>>
  BY DEF MaybeNotify, LegacyTypeOK
<1>2. i \in Ids
  BY <1>1, WorkersReport
<1>3. WorkerMoved(w, "return", worker[w].status, worker[w].text)
  BY <1>1, Moves DEF MaybeNotify, PCs
<1>4. /\ \A j \in told' : j \in told \/ (j = i /\ worker[w].status = "failed")
      /\ notice' \subseteq notice \cup {i}
  BY DEF MaybeNotify
<1>5. faults' \in 0..MaxFaults
  BY FaultCounts DEF MaybeNotify, LegacyTypeOK
<1>6. LegacyTypeOK'
  BY <1>1, <1>2, <1>3, <1>4, <1>5 DEF LegacyTypeOK, WorkerMoved
<1>7. i \notin cut \cup overdue => i \notin told /\ (Done(i) => worker[w].status = "done")
  BY <1>1, Undecided
<1>8. Done(i)' <=> Done(i)
  BY <1>1, <1>3 DEF Done, Entries, WorkerMoved
<1>9. PICK k, status : k = i /\ status = worker[w].status
  OBVIOUS
<1>10. WorkStep(w, k, "return", status)
  BY <1>1, <1>3, <1>4, <1>7, <1>8, <1>9 DEF WorkStep, RingInv, Entries, Done, IdsOf
<1>11. RingInv'
  BY <1>10, WorkStepInv
<1> QED
  BY <1>6, <1>11

-----------------------------------------------------------------------------
(* Tasks                                                                   *)

\* Without a write, everything says what it said.
LEMMA NothingWritten ==
  ASSUME UNCHANGED <<ring, file>>
  PROVE  Entries' = Entries /\ \A j : Done(j)' <=> Done(j)
<1>1. Entries' = Entries
  BY DEF Entries
<1> QED
  BY <1>1 DEF Done

\* The worker returns; its task, if it still executes one, is deleted or archived.
LEMMA ReturnInv ==
  ASSUME LegacyTypeOK, RingInv, NEW w \in Workers, Return(w)
  PROVE  LegacyTypeOK' /\ RingInv'
<1>1. PICK p : p = worker[w].payload
  OBVIOUS
<1>2. /\ worker[w].pc = "return" /\ worker' = [worker EXCEPT ![w] = Idle]
      /\ worker[w].time = "over" => task' = task
      /\ worker[w].time # "over" => task' = [task EXCEPT ![p] = AfterReturn(worker[w])]
      /\ UNCHANGED <<ring, file, hook, notice, told, cut, overdue, up, issued, faults, exits>>
  BY <1>1 DEF Return
<1>3. /\ p \in Payloads /\ task[p] \in Task /\ worker[w].time \in {"left", "over"}
      /\ task \in [Payloads -> Task] /\ worker \in [Workers -> Worker]
  BY <1>1, <1>2, WorkersReport DEF LegacyTypeOK, Worker
<1>3a. worker[w].time # "over" => Executes(w) /\ task[p].state = "active"
  <2>1. worker[w].time # "over" => Executes(w)
    BY <1>2, <1>3 DEF Executes
  <2> QED
    BY <1>1, <1>2, <2>1, WorkersReport
<1>4. PICK t \in Task : /\ t = AfterReturn(worker[w]) /\ t.state \in {"none", "archived"}
                        /\ t.state = "none" => t = NoTask
                        /\ t.state # "none" => t.id = task[p].id
  <2>1. NoTask \in Task /\ NoTask.state = "none"
    BY RestTypes DEF NoTask
  <2>2. PICK t : t = [task[p] EXCEPT !.state = "archived"]
    OBVIOUS
  <2>3. t \in Task /\ t.state = "archived" /\ t.id = task[p].id
    BY <1>3, <2>2 DEF Task
  <2> QED
    BY <1>1, <2>1, <2>2, <2>3 DEF AfterReturn
<1>5. /\ task' \in [Payloads -> Task]
      /\ worker[w].time = "over" => task' = task
      /\ worker[w].time # "over" => task'[p] = t
      /\ \A q \in Payloads : q # p => task'[q] = task[q]
  <2>1. CASE worker[w].time = "over"
    BY <1>2, <1>3, <2>1
  <2>2. CASE worker[w].time # "over"
    BY <1>2, <1>3, <1>4, <2>2
  <2> QED
    BY <2>1, <2>2
<1>6. /\ worker' \in [Workers -> Worker] /\ worker'[w].pc = "idle" /\ worker'[w].time = "left"
      /\ \A v \in Workers : v # w => worker'[v] = worker[v]
  <2>1. Idle \in Worker /\ Idle.pc = "idle" /\ Idle.time = "left"
    BY RestTypes DEF Idle
  <2> QED
    BY <1>2, <1>3, <2>1
<1>7. LegacyTypeOK'
  BY <1>2, <1>5, <1>6 DEF LegacyTypeOK
<1>8. Entries' = Entries /\ \A j : Done(j)' <=> Done(j)
  BY <1>2, NothingWritten
<1>5a. \A q \in Payloads : \/ task'[q] = task[q]
                           \/ q = p /\ worker[w].time # "over" /\ task'[q] = t
  BY <1>5
<1>9. \A q \in Payloads : Taken(q)' => Taken(q) /\ task'[q].id = task[q].id
  BY <1>3a, <1>4, <1>5a DEF Taken
<1>6a. \A v \in Workers : worker'[v].pc # "idle" => v # w /\ worker'[v] = worker[v]
  BY <1>6
<1>6b. \A v \in Workers : Executes(v)' =>
         v # w /\ worker'[v] = worker[v] /\ Executes(v)
  BY <1>6, <1>6a DEF Executes
<1>10. IssuedSound'
  <2>1. \A q \in Payloads : Taken(q)' => task'[q].id \in 1..issued
    BY <1>9 DEF RingInv, IssuedSound
  <2>2. \A v \in Workers : worker'[v].pc # "idle" => worker'[v].id \in 1..issued
    BY <1>6a DEF RingInv, IssuedSound
  <2> QED
    BY <1>2, <1>8, <2>1, <2>2 DEF RingInv, IssuedSound
<1>11. TaskSound'
  <2>1. \A q \in Payloads : ~Taken(q)' => task'[q] = NoTask
    BY <1>4, <1>5a DEF RingInv, TaskSound, Taken
  <2>2. \A q, r \in Payloads : Taken(q)' /\ Taken(r)' /\ task'[q].id = task'[r].id => q = r
    BY <1>9 DEF RingInv, TaskSound
  <2>3. \A j \in Ids : hook[j].pc = "enqueue" =>
          /\ j \notin told \cup overdue /\ ~Done(j)
          /\ \A q \in Payloads : Taken(q)' => task'[q].id # j
    BY <1>9 DEF RingInv, TaskSound
  <2> QED
    BY <1>2, <1>8, <2>1, <2>2, <2>3 DEF TaskSound
<1>12. \A v \in Workers : Executes(v)' =>
         worker[v].payload \in Payloads /\ task'[worker[v].payload] = task[worker[v].payload]
  <2> SUFFICES ASSUME NEW v \in Workers, Executes(v)'
               PROVE  worker[v].payload \in Payloads /\ task'[worker[v].payload] = task[worker[v].payload]
    OBVIOUS
  <2>1. v # w /\ Executes(v) /\ worker[v].payload \in Payloads
    BY <1>6b, WorkersReport DEF Executes
  <2>2. worker[w].time # "over" => worker[v].payload # p
    BY <1>1, <1>3a, <2>1 DEF RingInv, WorkerSound
  <2> QED
    BY <1>5a, <2>1, <2>2
<1>13. WorkerSound'
  <2>1. \A v \in Workers :
          /\ worker'[v].pc # "idle" => up
          /\ worker'[v].time = "over" => worker'[v].id \in overdue
    BY <1>6, <1>6a DEF RingInv, WorkerSound
  <2>2. \A v \in Workers : Executes(v)' =>
          /\ task'[worker'[v].payload].state = "active"
          /\ task'[worker'[v].payload].id = worker'[v].id
    BY <1>6b, <1>12 DEF RingInv, WorkerSound
  <2>3. \A u, v \in Workers :
          Executes(u)' /\ Executes(v)' /\ worker'[u].payload = worker'[v].payload => u = v
    BY <1>6b DEF RingInv, WorkerSound
  <2>4. \A v \in Workers : worker'[v].pc = "add" =>
          worker'[v].id \notin IdsOf(ring) \/ worker'[v].id \in overdue
    BY <1>6a DEF RingInv, WorkerSound
  <2> QED
    BY <1>2, <2>1, <2>2, <2>3, <2>4 DEF WorkerSound, IdsOf
<1>14. CutSound'
  <2>1. ASSUME NEW q \in Payloads, task'[q].state = "active"
        PROVE  task'[q].id \in cut \/ Executing(q)'
    <3>1. task'[q] = task[q] /\ (q = p => worker[w].time = "over")
      BY <1>4, <1>5, <1>5a, <2>1
    <3>2. ASSUME Executing(q) PROVE Executing(q)'
      <4>1. PICK v \in Workers : Executes(v) /\ worker[v].payload = q
        BY <3>2 DEF Executing
      <4>2. v # w
        BY <1>1, <3>1, <4>1 DEF Executes
      <4> QED
        BY <1>6, <4>1, <4>2 DEF Executing, Executes
    <3> QED
      BY <2>1, <3>1, <3>2 DEF RingInv, CutSound
  <2> QED
    BY <1>2, <2>1 DEF CutSound
<1>15. VerdictSound'
  <2>1. \A q \in Payloads : task'[q].state = "pending" => task[q].state = "pending" /\ task'[q].id = task[q].id
    BY <1>4, <1>5a
  <2>2. \A v \in Workers, j \in Ids : On(v, j)' => On(v, j) /\ worker'[v] = worker[v]
    BY <1>6a DEF On
  <2> QED
    BY <1>2, <1>8, <2>1, <2>2 DEF RingInv, VerdictSound
<1> QED
  BY <1>2, <1>7, <1>10, <1>11, <1>13, <1>14, <1>15 DEF RingInv

\* A worker takes a pending task.
LEMMA FetchInv ==
  ASSUME LegacyTypeOK, RingInv, NEW w \in Workers, NEW p \in Payloads, Fetch(w, p)
  PROVE  LegacyTypeOK' /\ RingInv'
<1>1. /\ up /\ worker[w].pc = "idle" /\ task[p].state = "pending" /\ task[p] \in Task
      /\ task \in [Payloads -> Task] /\ worker \in [Workers -> Worker]
      /\ UNCHANGED <<ring, file, hook, notice, told, cut, overdue, up, issued, faults, exits>>
  BY DEF Fetch, LegacyTypeOK
<1>2. PICK t \in Task : /\ t = [task[p] EXCEPT !.state = "active"]
                        /\ t.state = "active" /\ t.id = task[p].id
  <2>1. PICK t : t = [task[p] EXCEPT !.state = "active"]
    OBVIOUS
  <2>2. t \in Task /\ t.state = "active" /\ t.id = task[p].id
    BY <1>1, <2>1 DEF Task
  <2> QED
    BY <2>1, <2>2
<1>3. /\ task' \in [Payloads -> Task] /\ task'[p] = t
      /\ \A q \in Payloads : q # p => task'[q] = task[q]
  <2>1. task' = [task EXCEPT ![p] = t]
    BY <1>1, <1>2 DEF Fetch
  <2> QED
    BY <1>1, <2>1
<1>4. PICK k \in Worker : /\ k = [Idle EXCEPT !.pc = "start", !.payload = p, !.id = task[p].id]
                          /\ k.pc = "start" /\ k.payload = p /\ k.id = task[p].id
                          /\ k.time = "left"
  <2>1. task[p].id \in 0..MaxReports
    BY <1>1 DEF Task
  <2>2. PICK k : k = [Idle EXCEPT !.pc = "start", !.payload = p, !.id = task[p].id]
    OBVIOUS
  <2>3. k \in Worker
    BY <2>1, <2>2, RestTypes DEF Worker
  <2>4. k.pc = "start" /\ k.payload = p /\ k.id = task[p].id /\ k.time = "left"
    BY <2>2 DEF Idle
  <2> QED
    BY <2>2, <2>3, <2>4
<1>5. /\ worker' \in [Workers -> Worker] /\ worker'[w] = k
      /\ \A v \in Workers : v # w => worker'[v] = worker[v]
  <2>1. worker' = [worker EXCEPT ![w] = k]
    BY <1>4 DEF Fetch
  <2> QED
    BY <1>1, <2>1
<1>6. LegacyTypeOK'
  BY <1>1, <1>3, <1>5 DEF LegacyTypeOK
<1>5a. /\ worker'[w].pc = "start" /\ worker'[w].payload = p /\ worker'[w].id = task[p].id
       /\ worker'[w].time = "left" /\ Executes(w)'
  BY <1>4, <1>5 DEF Executes
<1>7. Entries' = Entries /\ \A j : Done(j)' <=> Done(j)
  BY <1>1, NothingWritten
<1>8. \A q \in Payloads : (Taken(q)' <=> Taken(q)) /\ task'[q].id = task[q].id
  BY <1>1, <1>2, <1>3 DEF Taken
<1>9. IssuedSound'
  <2>1. \A q \in Payloads : Taken(q)' => task'[q].id \in 1..issued
    BY <1>8 DEF RingInv, IssuedSound
  <2>2. \A v \in Workers : worker'[v].pc # "idle" => worker'[v].id \in 1..issued
    <3>1. task[p].id \in 1..issued
      BY <1>1 DEF RingInv, IssuedSound, Taken
    <3> QED
      BY <1>5, <1>5a, <3>1 DEF RingInv, IssuedSound
  <2> QED
    BY <1>1, <1>7, <2>1, <2>2 DEF RingInv, IssuedSound
<1>10. TaskSound'
  <2>1. \A q \in Payloads : ~Taken(q)' => task'[q] = NoTask
    BY <1>2, <1>3 DEF RingInv, TaskSound, Taken
  <2>2. \A q, r \in Payloads : Taken(q)' /\ Taken(r)' /\ task'[q].id = task'[r].id => q = r
    BY <1>8 DEF RingInv, TaskSound
  <2>3. \A j \in Ids : hook[j].pc = "enqueue" =>
          /\ j \notin told \cup overdue /\ ~Done(j)
          /\ \A q \in Payloads : Taken(q)' => task'[q].id # j
    BY <1>8 DEF RingInv, TaskSound
  <2> QED
    BY <1>1, <1>7, <2>1, <2>2, <2>3 DEF TaskSound
<1>11. \A v \in Workers : v # w /\ Executes(v)' =>
         /\ worker'[v] = worker[v] /\ Executes(v)
         /\ worker[v].payload \in Payloads /\ worker[v].payload # p
  <2> SUFFICES ASSUME NEW v \in Workers, v # w, Executes(v)'
               PROVE  /\ worker'[v] = worker[v] /\ Executes(v)
                      /\ worker[v].payload \in Payloads /\ worker[v].payload # p
    OBVIOUS
  <2>1. worker'[v] = worker[v] /\ Executes(v) /\ worker[v].pc # "idle"
    BY <1>5 DEF Executes
  <2> QED
    BY <1>1, <2>1, WorkersReport
<1>12. WorkerSound'
  <2>1. ASSUME NEW v \in Workers, Executes(v)'
        PROVE  /\ task'[worker'[v].payload].state = "active"
               /\ task'[worker'[v].payload].id = worker'[v].id
    <3>1. CASE v = w
      <4>1. task'[p].state = "active" /\ task'[p].id = task[p].id
        BY <1>2, <1>3
      <4> QED
        BY <1>5a, <3>1, <4>1
    <3>2. CASE v # w
      BY <1>3, <1>11, <2>1, <3>2 DEF RingInv, WorkerSound
    <3> QED
      BY <3>1, <3>2
  <2>2. \A u, v \in Workers :
          Executes(u)' /\ Executes(v)' /\ worker'[u].payload = worker'[v].payload => u = v
    BY <1>5a, <1>11 DEF RingInv, WorkerSound
  <2>3. \A v \in Workers : worker'[v].time = "over" => worker'[v].id \in overdue
    BY <1>5, <1>5a DEF RingInv, WorkerSound
  <2>4. \A v \in Workers : worker'[v].pc = "add" =>
          worker'[v].id \notin IdsOf(ring) \/ worker'[v].id \in overdue
    BY <1>5, <1>5a DEF RingInv, WorkerSound
  <2> QED
    BY <1>1, <2>1, <2>2, <2>3, <2>4 DEF WorkerSound, IdsOf
<1>13. CutSound'
  <2>1. Executing(p)'
    BY <1>5a DEF Executing
  <2>2. \A q \in Payloads : Executing(q) => Executing(q)'
    BY <1>1, <1>5 DEF Executing, Executes
  <2> QED
    BY <1>1, <1>3, <2>1, <2>2 DEF RingInv, CutSound
<1>14. VerdictSound'
  <2>1. \A q \in Payloads : task'[q].state = "pending" => task[q].state = "pending" /\ task'[q].id = task[q].id
    BY <1>2, <1>3
  <2>2. ASSUME NEW j \in Ids \ (cut \cup overdue), j \in told \/ Done(j), NEW v \in Workers, On(v, j)'
        PROVE  On(v, j) /\ worker'[v] = worker[v]
    <3>1. j # task[p].id
      BY <1>1, <2>2 DEF RingInv, VerdictSound
    <3>2. v # w
      BY <1>5a, <2>2, <3>1 DEF On
    <3> QED
      BY <1>5, <2>2, <3>2 DEF On
  <2> QED
    BY <1>1, <1>7, <2>1, <2>2 DEF RingInv, VerdictSound
<1> QED
  BY <1>1, <1>6, <1>9, <1>10, <1>12, <1>13, <1>14 DEF RingInv

\* A task that is retried is pending again or archived, with its report.
LEMMA RetriedTask ==
  ASSUME LegacyTypeOK, NEW p \in Payloads
  PROVE  /\ Retried(p) \in Task /\ Retried(p).state \in {"pending", "archived"}
         /\ Retried(p).id = task[p].id
<1>0. task[p] \in Task
  BY DEF LegacyTypeOK
<1>1. CASE task[p].retried < MaxRetry
  <2>1. PICK t : t = [task[p] EXCEPT !.state = "pending", !.retried = @ + 1]
    OBVIOUS
  <2>2. task[p].retried + 1 \in 0..MaxRetry
    BY <1>0, <1>1, LegacyAssumption DEF Task
  <2>3. t \in Task /\ t.state = "pending" /\ t.id = task[p].id
    BY <1>0, <2>1, <2>2 DEF Task
  <2> QED
    BY <1>1, <2>1, <2>3 DEF Retried
<1>2. CASE ~(task[p].retried < MaxRetry)
  <2>1. PICK t : t = [task[p] EXCEPT !.state = "archived"]
    OBVIOUS
  <2>2. t \in Task /\ t.state = "archived" /\ t.id = task[p].id
    BY <1>0, <2>1 DEF Task
  <2> QED
    BY <1>2, <2>1, <2>2 DEF Retried
<1> QED
  BY <1>1, <1>2

\* The active task of payload p is taken back: its report was cut off by an exit or its
\* worker has outlived the timeout, and in the end nobody executes it.
TakenBack(p) ==
  /\ task[p].state = "active"
  /\ task' = [task EXCEPT ![p] = Retried(p)]
  /\ overdue \subseteq overdue' /\ overdue' \subseteq Ids
  /\ \A i \in overdue' : i \in overdue \/ i = task[p].id
  /\ task[p].id \in cut \cup overdue'
  /\ \A v \in Workers : (Executes(v)' <=> (Executes(v) /\ worker[v].payload # p))
  /\ \A v \in Workers : /\ worker'[v].pc = worker[v].pc /\ worker'[v].id = worker[v].id
                         /\ worker'[v].payload = worker[v].payload
                         /\ worker'[v].status = worker[v].status
                         /\ (worker'[v].time = "over" => worker'[v].id \in overdue')
  /\ worker' \in [Workers -> Worker] /\ faults' \in 0..MaxFaults
  /\ UNCHANGED <<ring, file, hook, notice, told, cut, up, issued, exits>>

\* Such a step keeps the invariant.
LEMMA TakenBackInv ==
  ASSUME LegacyTypeOK, RingInv, NEW p \in Payloads, TakenBack(p)
  PROVE  LegacyTypeOK' /\ RingInv'
<1>1. /\ task[p].state = "active" /\ task \in [Payloads -> Task]
      /\ UNCHANGED <<ring, file, hook, notice, told, cut, up, issued, exits>>
  BY DEF TakenBack, LegacyTypeOK
<1>2. PICK t \in Task : /\ t = Retried(p)
                        /\ t.state \in {"pending", "archived"} /\ t.id = task[p].id
  BY RetriedTask
<1>3. /\ task' \in [Payloads -> Task] /\ task'[p] = t
      /\ \A q \in Payloads : q # p => task'[q] = task[q]
  BY <1>1, <1>2 DEF TakenBack
<1>4. LegacyTypeOK'
  BY <1>1, <1>3 DEF LegacyTypeOK, TakenBack
<1>5. Entries' = Entries /\ \A j : Done(j)' <=> Done(j)
  BY <1>1, NothingWritten
<1>6. \A q \in Payloads : (Taken(q)' <=> Taken(q)) /\ task'[q].id = task[q].id
  BY <1>1, <1>2, <1>3 DEF Taken
<1>7. /\ overdue \subseteq overdue' /\ task[p].id \in cut \cup overdue'
      /\ \A i \in overdue' : i \in overdue \/ i = task[p].id
  BY DEF TakenBack
<1>8. \A v \in Workers : /\ worker'[v].pc = worker[v].pc /\ worker'[v].id = worker[v].id
                         /\ worker'[v].payload = worker[v].payload
                         /\ worker'[v].status = worker[v].status
                         /\ (worker'[v].time = "over" => worker'[v].id \in overdue')
  BY DEF TakenBack
<1>9. \A v \in Workers : (Executes(v)' <=> (Executes(v) /\ worker[v].payload # p))
  BY DEF TakenBack
<1>10. IssuedSound'
  <2>1. \A q \in Payloads : Taken(q)' => task'[q].id \in 1..issued
    BY <1>6 DEF RingInv, IssuedSound
  <2>2. task[p].id <= issued
    BY <1>1 DEF RingInv, IssuedSound, Taken
  <2>3. \A i \in told \cup overdue' : i <= issued
    BY <1>7, <2>2 DEF RingInv, IssuedSound
  <2>4. \A v \in Workers : worker'[v].pc # "idle" => worker'[v].id \in 1..issued
    BY <1>8 DEF RingInv, IssuedSound
  <2> QED
    BY <1>1, <1>5, <2>1, <2>3, <2>4 DEF RingInv, IssuedSound
<1>11. TaskSound'
  <2>1. \A q \in Payloads : ~Taken(q)' => task'[q] = NoTask
    BY <1>2, <1>3 DEF RingInv, TaskSound, Taken
  <2>2. \A q, r \in Payloads : Taken(q)' /\ Taken(r)' /\ task'[q].id = task'[r].id => q = r
    BY <1>6 DEF RingInv, TaskSound
  <2>3. \A j \in Ids : hook[j].pc = "enqueue" =>
          /\ j \notin told \cup overdue /\ j # task[p].id /\ ~Done(j)
          /\ \A q \in Payloads : Taken(q)' => task'[q].id # j
    BY <1>1, <1>6 DEF RingInv, TaskSound, Taken
  <2> QED
    BY <1>1, <1>5, <1>7, <2>1, <2>2, <2>3 DEF TaskSound
<1>12. WorkerSound'
  <2>1. \A v \in Workers : Executes(v)' =>
          worker[v].payload \in Payloads /\ worker[v].payload # p /\ Executes(v)
    BY <1>9, WorkersReport DEF Executes
  <2>2. \A v \in Workers : Executes(v)' =>
          /\ task'[worker'[v].payload].state = "active"
          /\ task'[worker'[v].payload].id = worker'[v].id
    BY <1>3, <1>8, <2>1 DEF RingInv, WorkerSound
  <2>3. \A u, v \in Workers :
          Executes(u)' /\ Executes(v)' /\ worker'[u].payload = worker'[v].payload => u = v
    BY <1>8, <2>1 DEF RingInv, WorkerSound
  <2>4. \A v \in Workers :
          /\ worker'[v].pc # "idle" => up
          /\ worker'[v].pc = "add" =>
               worker'[v].id \notin IdsOf(ring) \/ worker'[v].id \in overdue'
    BY <1>7, <1>8 DEF RingInv, WorkerSound
  <2> QED
    BY <1>1, <1>8, <2>2, <2>3, <2>4 DEF WorkerSound, IdsOf
<1>13. CutSound'
  <2> SUFFICES ASSUME NEW q \in Payloads, task'[q].state = "active"
               PROVE  task'[q].id \in cut \/ Executing(q)'
    BY <1>1 DEF CutSound
  <2>1. q # p /\ task'[q] = task[q]
    BY <1>2, <1>3
  <2>2. Executing(q) => Executing(q)'
    BY <1>8, <1>9, <2>1 DEF Executing
  <2> QED
    BY <2>1, <2>2 DEF RingInv, CutSound
<1>14. VerdictSound'
  <2>1. \A q \in Payloads : task'[q].state = "pending" /\ task'[q].id \notin cut \cup overdue' =>
          task[q].state = "pending" /\ task'[q].id = task[q].id
    BY <1>2, <1>3, <1>7
  <2>2. \A v \in Workers, j \in Ids : On(v, j)' =>
          /\ On(v, j) /\ worker'[v].pc = worker[v].pc /\ worker'[v].status = worker[v].status
    BY <1>8 DEF On
  <2>3. \A j \in Ids \ (cut \cup overdue') : j \in Ids \ (cut \cup overdue)
    BY <1>7
  <2> QED
    BY <1>1, <1>5, <2>1, <2>2, <2>3 DEF RingInv, VerdictSound
<1>15. Single(ring', overdue') /\ Single(file'.items, overdue')
  BY <1>1, <1>7 DEF RingInv, Single
<1> QED
  BY <1>4, <1>10, <1>11, <1>12, <1>13, <1>14, <1>15 DEF RingInv

\* asynq takes back a task whose process is gone: its report was cut off.
LEMMA ReclaimInv ==
  ASSUME LegacyTypeOK, RingInv, NEW p \in Payloads, Reclaim(p)
  PROVE  LegacyTypeOK' /\ RingInv'
<1>1. /\ task[p].state = "active" /\ ~Executing(p) /\ task' = [task EXCEPT ![p] = Retried(p)]
      /\ UNCHANGED <<ring, file, hook, worker, notice, told, cut, overdue, up, issued, faults, exits>>
  BY DEF Reclaim
<1>2. task[p].id \in cut
  BY <1>1 DEF RingInv, CutSound
<1>3. \A v \in Workers : Executes(v)' <=> (Executes(v) /\ worker[v].payload # p)
  BY <1>1 DEF Executing, Executes
<1>4. \A v \in Workers : worker[v].time = "over" => worker[v].id \in overdue
  BY DEF RingInv, WorkerSound
<1>5. TakenBack(p)
  BY <1>1, <1>2, <1>3, <1>4 DEF TakenBack, LegacyTypeOK
<1> QED
  BY <1>5, TakenBackInv

\* The timeout takes a task back whose worker goes on.
LEMMA TimeoutInv ==
  ASSUME LegacyTypeOK, RingInv, NEW w \in Workers, Timeout(w)
  PROVE  LegacyTypeOK' /\ RingInv'
<1>1. PICK p : p = worker[w].payload
  OBVIOUS
<1>2. /\ Executes(w) /\ task' = [task EXCEPT ![p] = Retried(p)]
      /\ overdue' = overdue \cup {worker[w].id}
      /\ UNCHANGED <<ring, file, hook, notice, told, cut, up, issued, exits>>
  BY <1>1 DEF Timeout
<1>3. /\ p \in Payloads /\ task[p].state = "active" /\ task[p].id = worker[w].id
      /\ worker[w].id \in Ids
  BY <1>1, <1>2, WorkersReport DEF Executes
<1>4. faults' \in 0..MaxFaults
  BY FaultCounts DEF Timeout
<1>5. PICK k \in Worker : /\ worker' = [worker EXCEPT ![w] = k]
                          /\ k.pc = worker[w].pc /\ k.id = worker[w].id /\ k.payload = p
                          /\ k.status = worker[w].status /\ k.time = "over"
  <2>1. worker[w] \in Worker /\ worker \in [Workers -> Worker]
    BY DEF LegacyTypeOK
  <2>2. PICK k : k = [worker[w] EXCEPT !.time = "over"]
    OBVIOUS
  <2>3. k \in Worker
    BY <2>1, <2>2 DEF Worker
  <2>4. /\ k.pc = worker[w].pc /\ k.id = worker[w].id /\ k.payload = p
        /\ k.status = worker[w].status /\ k.time = "over"
    BY <1>1, <2>1, <2>2 DEF Worker
  <2>5. worker' = [worker EXCEPT ![w] = k]
    BY <2>1, <2>2 DEF Timeout
  <2> QED
    BY <2>3, <2>4, <2>5
<1>6. /\ worker' \in [Workers -> Worker] /\ worker'[w] = k
      /\ \A v \in Workers : v # w => worker'[v] = worker[v]
  BY <1>5 DEF LegacyTypeOK
<1>7. \A v \in Workers : v # w /\ Executes(v) => worker[v].payload # p
  BY <1>1, <1>2 DEF RingInv, WorkerSound
<1>8. ASSUME NEW v \in Workers
      PROVE  /\ (Executes(v)' <=> (Executes(v) /\ worker[v].payload # p))
             /\ worker'[v].pc = worker[v].pc /\ worker'[v].id = worker[v].id
             /\ worker'[v].payload = worker[v].payload /\ worker'[v].status = worker[v].status
             /\ (worker'[v].time = "over" => worker'[v].id \in overdue')
  <2>1. CASE v = w
    BY <1>1, <1>2, <1>5, <1>6, <2>1 DEF Executes
  <2>2. CASE v # w
    <3>1. worker'[v] = worker[v] /\ (worker[v].time = "over" => worker[v].id \in overdue)
      BY <1>6, <2>2 DEF RingInv, WorkerSound
    <3>2. Executes(v)' <=> Executes(v)
      BY <3>1 DEF Executes
    <3> QED
      BY <1>2, <1>7, <2>2, <3>1, <3>2
  <2> QED
    BY <2>1, <2>2
<1>9. TakenBack(p)
  BY <1>2, <1>3, <1>4, <1>6, <1>8 DEF TakenBack, LegacyTypeOK
<1> QED
  BY <1>3, <1>9, TakenBackInv

-----------------------------------------------------------------------------
(* Webhooks                                                                *)

\* The webhook's attempt to queue: report i gets its task or none, and never again.
LEMMA EnqueueInv ==
  ASSUME LegacyTypeOK, RingInv, NEW i \in Ids, Enqueue(i) \/ EnqueueFails(i)
  PROVE  LegacyTypeOK' /\ RingInv'
<1>1. PICK p : p = hook[i].payload
  OBVIOUS
<1>2. /\ hook[i].pc = "enqueue" /\ p \in Payloads /\ hook \in [Ids -> Hook]
      /\ task \in [Payloads -> Task]
      /\ UNCHANGED <<ring, file, worker, notice, told, cut, overdue, up, issued, exits>>
  <2>1. hook[i] \in Hook
    BY DEF LegacyTypeOK
  <2>2. p \in Payloads
    BY <1>1, <2>1 DEF Hook
  <2> QED
    BY <2>2 DEF Enqueue, EnqueueFails, LegacyTypeOK
<1>3. /\ hook' \in [Ids -> Hook] /\ hook'[i].pc # "enqueue"
      /\ \A j \in Ids : j # i => hook'[j] = hook[j]
  <2>1. PICK h : h = [hook[i] EXCEPT !.pc = "refuse"]
    OBVIOUS
  <2>2. h \in Hook /\ h.pc # "enqueue"
    BY <1>2, <2>1 DEF Hook
  <2>3. NoHook \in Hook /\ NoHook.pc # "enqueue"
    BY RestTypes DEF NoHook
  <2>4. hook' = [hook EXCEPT ![i] = h] \/ hook' = [hook EXCEPT ![i] = NoHook]
    BY <2>1 DEF Enqueue, EnqueueFails
  <2> QED
    BY <1>2, <2>2, <2>3, <2>4
<1>4. faults' \in 0..MaxFaults
  BY FaultCounts DEF Enqueue, EnqueueFails, LegacyTypeOK
<1>5. PICK t : t = [state |-> "pending", id |-> i, retried |-> 0]
  OBVIOUS
<1>6. t \in Task /\ t.state = "pending" /\ t.id = i
  <2>1. i \in 0..MaxReports /\ 0 \in 0..MaxRetry
    BY LegacyAssumption DEF Ids
  <2> QED
    BY <1>5, <2>1 DEF Task
<1>7. UNCHANGED task \/ (task[p] = NoTask /\ task' = [task EXCEPT ![p] = t])
  BY <1>1, <1>5 DEF Enqueue, EnqueueFails, Stored
<1>8. task' \in [Payloads -> Task]
  BY <1>2, <1>6, <1>7
<1>9. LegacyTypeOK'
  BY <1>2, <1>3, <1>4, <1>8 DEF LegacyTypeOK
<1>10. Entries' = Entries /\ \A j : Done(j)' <=> Done(j)
  BY <1>2, NothingWritten
<1>11. i \notin told \cup overdue /\ ~Done(i) /\ \A q \in Payloads : Taken(q) => task[q].id # i
  BY <1>2 DEF RingInv, TaskSound
<1>12. \A j \in Ids : hook'[j].pc = "enqueue" => j # i /\ hook[j].pc = "enqueue"
  BY <1>3
<1>13. \A q \in Payloads : \/ task'[q] = task[q]
                           \/ q = p /\ ~Taken(p) /\ task'[q] = t /\ task[q].state = "none"
  <2>1. task[p] = NoTask => ~Taken(p) /\ task[p].state = "none"
    BY DEF NoTask, Taken
  <2> QED
    BY <1>2, <1>7, <2>1
<1>14. IssuedSound'
  <2>1. i \in 1..issued
    <3>1. i <= issued /\ i \in Nat /\ i >= 1 /\ issued \in Nat
      BY <1>2, LegacyAssumption DEF RingInv, IssuedSound, Ids, LegacyTypeOK
    <3> QED
      BY <3>1
  <2>2. \A q \in Payloads : Taken(q)' => task'[q].id \in 1..issued
    BY <1>6, <1>13, <2>1 DEF RingInv, IssuedSound, Taken
  <2>3. \A j \in Ids : hook'[j].pc # "none" => j <= issued
    <3>1. i <= issued
      BY <2>1
    <3> QED
      BY <1>3, <3>1 DEF RingInv, IssuedSound
  <2> QED
    BY <1>2, <1>10, <2>2, <2>3 DEF RingInv, IssuedSound
<1>15. TaskSound'
  <2>1. \A q \in Payloads : ~Taken(q)' => task'[q] = NoTask
    BY <1>6, <1>13 DEF RingInv, TaskSound, Taken
  <2>2. \A q, r \in Payloads : Taken(q)' /\ Taken(r)' /\ task'[q].id = task'[r].id => q = r
    <3>1. \A q \in Payloads : Taken(q)' => \/ Taken(q) /\ task'[q].id = task[q].id /\ task[q].id # i
                                           \/ q = p /\ task'[q].id = i
      BY <1>6, <1>11, <1>13 DEF Taken
    <3> QED
      BY <3>1 DEF RingInv, TaskSound
  <2>3. \A j \in Ids : hook'[j].pc = "enqueue" =>
          /\ j \notin told \cup overdue /\ ~Done(j)
          /\ \A q \in Payloads : Taken(q)' => task'[q].id # j
    BY <1>6, <1>12, <1>13 DEF RingInv, TaskSound, Taken
  <2> QED
    BY <1>2, <1>10, <2>1, <2>2, <2>3 DEF TaskSound
<1>16. WorkerSound'
  <2>1. \A v \in Workers : Executes(v) =>
          worker[v].payload \in Payloads /\ task'[worker[v].payload] = task[worker[v].payload]
    BY <1>13, WorkersReport DEF Executes
  <2> QED
    BY <1>2, <2>1 DEF RingInv, WorkerSound, Executes, IdsOf
<1>17. CutSound'
  <2>1. \A q \in Payloads : task'[q].state = "active" => task'[q] = task[q]
    BY <1>6, <1>13
  <2> QED
    BY <1>2, <2>1 DEF RingInv, CutSound, Executing, Executes
<1>18. VerdictSound'
  <2>1. \A q \in Payloads : task'[q].state = "pending" =>
          \/ task[q].state = "pending" /\ task'[q].id = task[q].id
          \/ task'[q].id = i
    BY <1>6, <1>13
  <2> QED
    BY <1>2, <1>10, <1>11, <2>1 DEF RingInv, VerdictSound, On
<1> QED
  BY <1>2, <1>9, <1>14, <1>15, <1>16, <1>17, <1>18 DEF RingInv, Single

\* Writing an entry that is not done decides nothing; here nothing else changes but the
\* webhooks, of which only one of report i may be waiting to queue it.
LEMMA WebhookWrites ==
  ASSUME LegacyTypeOK, RingInv, NEW i \in Ids, NEW status, Written(i, status),
         status # "done", issued' \in 0..MaxReports, issued <= issued', i <= issued',
         hook' \in [Ids -> Hook], \A j \in Ids : j # i => hook'[j] = hook[j],
         hook'[i].pc = "enqueue" => i > issued,
         \A w \in Workers : worker[w].pc = "add" =>
           worker[w].id \notin IdsOf(ring') \/ worker[w].id \in overdue,
         UNCHANGED <<task, worker, notice, told, cut, overdue, up, exits>>
  PROVE  LegacyTypeOK' /\ RingInv'
<1>1. LegacyTypeOK'
  BY DEF LegacyTypeOK, Written
<1>2. /\ \A e \in Entries' : e \in Entries \/ (e.id = i /\ e.status = status)
      /\ Single(ring', overdue) /\ Single(file'.items, overdue)
      /\ issued \in Nat /\ issued' \in Nat /\ i \in Nat
  BY LegacyAssumption DEF Written, LegacyTypeOK, Ids
<1>3. \A j : Done(j)' => Done(j)
  BY <1>2 DEF Done
<1>4. \A p \in Payloads : Taken(p)' <=> Taken(p)
  BY DEF Taken
<1>5. \A j \in Nat : j <= issued => j <= issued'
  BY <1>2
<1>6. /\ \A p \in Payloads : Taken(p) => task[p].id \in Nat /\ task[p].id >= 1 /\ task[p].id <= issued
      /\ \A e \in Entries : e.id <= issued
      /\ \A j \in told \cup overdue : j <= issued
      /\ \A w \in Workers : worker[w].pc # "idle" =>
           worker[w].id \in Nat /\ worker[w].id >= 1 /\ worker[w].id <= issued
  BY <1>2 DEF RingInv, IssuedSound
<1>7. Entries \subseteq Report /\ told \cup overdue \subseteq Nat
  BY LegacyAssumption DEF Entries, LegacyTypeOK, File, Ids
<1>8. IssuedSound'
  <2>1. \A e \in Entries' : e.id <= issued'
    <3>1. \A e \in Entries : e.id \in Nat
      BY <1>7, LegacyAssumption DEF Report, Ids
    <3> QED
      BY <1>2, <1>5, <1>6, <3>1
  <2>2. \A j \in told \cup overdue : j <= issued'
    BY <1>5, <1>6, <1>7
  <2>3. /\ \A p \in Payloads : Taken(p) => task[p].id \in 1..issued'
        /\ \A w \in Workers : worker[w].pc # "idle" => worker[w].id \in 1..issued'
    <3>1. \A j \in Nat : j >= 1 /\ j <= issued => j \in 1..issued'
      BY <1>2
    <3> QED
      BY <1>6, <3>1
  <2>4. \A j \in Ids : hook'[j].pc # "none" => j <= issued'
    <3>1. Ids \subseteq Nat
      BY LegacyAssumption DEF Ids
    <3>2. \A j \in Ids : j # i /\ hook[j].pc # "none" => j <= issued'
      BY <1>5, <3>1 DEF RingInv, IssuedSound
    <3> QED
      BY <3>2
  <2> QED
    BY <1>4, <2>1, <2>2, <2>3, <2>4 DEF IssuedSound
<1>9. TaskSound'
  <2>1. ASSUME NEW j \in Ids, hook'[j].pc = "enqueue"
        PROVE  j \notin told \cup overdue /\ ~Done(j)' /\ \A p \in Payloads : Taken(p) => task[p].id # j
    <3>1. CASE j # i
      BY <1>3, <2>1, <3>1 DEF RingInv, TaskSound
    <3>2. CASE j = i
      <4>1. ~(i <= issued)
        BY <1>2, <2>1, <3>2
      <4>2. i \notin told \cup overdue /\ \A p \in Payloads : Taken(p) => task[p].id # i
        BY <1>6, <4>1
      <4>3. ~Done(i)
        BY <1>6, <4>1 DEF Done
      <4> QED
        BY <1>3, <3>2, <4>2, <4>3
    <3> QED
      BY <3>1, <3>2
  <2> QED
    BY <1>4, <2>1 DEF RingInv, TaskSound
<1>10. WorkerSound'
  BY DEF RingInv, WorkerSound, Executes
<1>11. CutSound'
  BY DEF RingInv, CutSound, Executing, Executes
<1>12. VerdictSound'
  BY <1>3 DEF RingInv, VerdictSound, On
<1> QED
  BY <1>1, <1>2, <1>8, <1>9, <1>10, <1>11, <1>12 DEF RingInv

\* A webhook is received: a new number, queued in the ring.
LEMMA ReceiveInv ==
  ASSUME LegacyTypeOK, RingInv, NEW p \in Payloads, Receive(p)
  PROVE  LegacyTypeOK' /\ RingInv'
<1>1. PICK i \in Ids : i = issued + 1
  BY DEF Receive
<1>2. /\ issued' = i /\ issued \in Nat /\ i \in Nat /\ issued < i /\ i \in 0..MaxReports
      /\ UNCHANGED <<task, worker, notice, told, cut, overdue, up, exits>>
  BY <1>1, LegacyAssumption DEF Receive, LegacyTypeOK, Ids
<1>3. PICK rep \in Report : /\ rep = [id |-> i, status |-> "queued", text |-> "none"]
                            /\ rep.id = i /\ rep.status = "queued"
  <2>1. PICK rep : rep = [id |-> i, status |-> "queued", text |-> "none"]
    OBVIOUS
  <2>2. rep \in Report /\ rep.id = i /\ rep.status = "queued"
    BY <2>1 DEF Report, Statuses, Texts
  <2> QED
    BY <2>1, <2>2
<1>4. Add(rep)
  BY <1>1, <1>3 DEF Receive
<1>5. \A e \in Entries : e.id # i
  BY <1>2 DEF RingInv, IssuedSound
<1>6. i \notin IdsOf(ring)
  BY <1>5 DEF IdsOf, Entries
<1>7. Single(ring, overdue) /\ Single(file.items, overdue)
  BY DEF RingInv
<1>8. Written(rep.id, rep.status)
  BY <1>3, <1>4, <1>6, <1>7, AddWrites
<1>9. Written(i, "queued")
  BY <1>3, <1>8
<1>10. /\ hook' \in [Ids -> Hook] /\ \A j \in Ids : j # i => hook'[j] = hook[j]
  <2>1. PICK h \in Hook : h = [pc |-> "enqueue", payload |-> p]
    BY DEF Hook
  <2>2. hook' = [hook EXCEPT ![i] = h]
    BY <1>1, <2>1 DEF Receive
  <2> QED
    BY <2>2 DEF LegacyTypeOK
<1>11. \A w \in Workers : worker[w].pc = "add" =>
         worker[w].id \notin IdsOf(ring') \/ worker[w].id \in overdue
  <2>1. \A w \in Workers : worker[w].pc = "add" => worker[w].id # i
    <3>1. \A w \in Workers : worker[w].pc = "add" => worker[w].id \in 1..issued
      BY WorkersReport
    <3>2. i \notin 1..issued
      BY <1>2
    <3> QED
      BY <3>1, <3>2
  <2>2. \A w \in Workers : worker[w].pc = "add" =>
          worker[w].id \notin IdsOf(ring) \/ worker[w].id \in overdue
    BY DEF RingInv, WorkerSound
  <2> QED
    BY <1>9, <2>1, <2>2 DEF Written
<1>12. issued' \in 0..MaxReports /\ issued <= issued' /\ i <= issued' /\ i > issued
  BY <1>2
<1> QED
  BY <1>2, <1>9, <1>10, <1>11, <1>12, WebhookWrites

\* The webhook marks its report failed.
LEMMA RefuseInv ==
  ASSUME LegacyTypeOK, RingInv, NEW i \in Ids, Refuse(i)
  PROVE  LegacyTypeOK' /\ RingInv'
<1>1. /\ hook[i].pc = "refuse" /\ hook' = [hook EXCEPT ![i] = NoHook]
      /\ UNCHANGED <<task, worker, notice, told, cut, overdue, up, issued, exits>>
  BY DEF Refuse
<1>2. Written(i, "failed") /\ IdsOf(ring') \subseteq IdsOf(ring)
  BY UpdateWrites DEF Refuse, RingInv, Statuses, Texts
<1>3. /\ hook' \in [Ids -> Hook] /\ hook'[i].pc # "enqueue"
      /\ \A j \in Ids : j # i => hook'[j] = hook[j]
  <2>1. NoHook \in Hook /\ NoHook.pc # "enqueue"
    BY RestTypes DEF NoHook
  <2> QED
    BY <1>1, <2>1 DEF LegacyTypeOK
<1>4. \A w \in Workers : worker[w].pc = "add" =>
        worker[w].id \notin IdsOf(ring') \/ worker[w].id \in overdue
  BY <1>2 DEF RingInv, WorkerSound
<1>5. issued' \in 0..MaxReports /\ issued <= issued' /\ i <= issued'
  <2>1. i <= issued
    BY <1>1 DEF RingInv, IssuedSound
  <2>2. issued <= issued
    BY LegacyAssumption DEF LegacyTypeOK
  <2> QED
    BY <1>1, <2>1, <2>2 DEF LegacyTypeOK
<1> QED
  BY <1>1, <1>2, <1>3, <1>4, <1>5, WebhookWrites

-----------------------------------------------------------------------------
(* Exits and restarts                                                      *)

\* Without a report in the ring, and with one of the file's, nothing new is said.
LEMMA ExitInv ==
  ASSUME LegacyTypeOK, RingInv, Exit
  PROVE  LegacyTypeOK' /\ RingInv'
<1>1. /\ ring' = <<>> /\ hook' = [i \in Ids |-> NoHook] /\ worker' = [w \in Workers |-> Idle]
      /\ up' = FALSE /\ exits < MaxExits /\ exits' = exits + 1
      /\ cut' = cut \cup {worker[w].id : w \in {v \in Workers : worker[v].pc # "idle"}}
      /\ UNCHANGED <<task, notice, told, overdue, issued>>
  BY DEF Exit
<1>2. file' \in File /\ (file' = file \/ file'.items = <<>>) /\ faults' \in 0..MaxFaults
  BY RestTypes, FaultCounts DEF Exit, LegacyTypeOK
<1>3. /\ NoHook \in Hook /\ Idle \in Worker
      /\ NoHook.pc = "none" /\ Idle.pc = "idle" /\ Idle.time = "left"
  BY RestTypes DEF NoHook, Idle
<1>4. cut' \subseteq Ids /\ cut \subseteq cut'
  BY <1>1, WorkersReport DEF LegacyTypeOK
<1>5. exits' \in 0..MaxExits
  BY <1>1, LegacyAssumption DEF LegacyTypeOK
<1>6. /\ hook' \in [Ids -> Hook] /\ \A j \in Ids : hook'[j].pc = "none"
      /\ worker' \in [Workers -> Worker]
      /\ \A w \in Workers : worker'[w].pc = "idle" /\ worker'[w].time = "left"
  BY <1>1, <1>3
<1>7. ring' \in Seq(Report) /\ DOMAIN ring' = {}
  BY <1>1
<1>8. LegacyTypeOK'
  BY <1>1, <1>2, <1>4, <1>5, <1>6, <1>7 DEF LegacyTypeOK
<1>9. file'.items = <<>> => DOMAIN file'.items = {}
  OBVIOUS
<1>10. Entries' \subseteq Entries
  BY <1>2, <1>7, <1>9 DEF Entries
<1>11. \A j : Done(j)' => Done(j)
  BY <1>10 DEF Done
<1>12. Single(ring', overdue) /\ Single(file'.items, overdue)
  <2>1. RingCap \in Nat
    BY LegacyAssumption
  <2>2. Single(<<>>, overdue)
    BY <2>1 DEF Single
  <2> QED
    BY <1>1, <1>2, <2>2 DEF RingInv
<1>13. IssuedSound'
  BY <1>1, <1>6, <1>10 DEF RingInv, IssuedSound, Taken
<1>14. TaskSound'
  BY <1>1, <1>6 DEF RingInv, TaskSound, Taken
<1>15. WorkerSound'
  BY <1>6 DEF WorkerSound, Executes
<1>16. CutSound'
  <2>1. ASSUME NEW p \in Payloads, task[p].state = "active"
        PROVE  task[p].id \in cut'
    <3>1. CASE Executing(p)
      <4>1. PICK w \in Workers : /\ Executes(w) /\ worker[w].pc # "idle"
                                 /\ worker[w].payload = p
        BY <3>1 DEF Executing, Executes
      <4>2. worker[w].id = task[p].id
        BY <4>1, WorkersReport
      <4> QED
        BY <1>1, <4>1, <4>2
    <3>2. CASE task[p].id \in cut
      BY <1>4, <3>2
    <3> QED
      BY <2>1, <3>1, <3>2 DEF RingInv, CutSound
  <2> QED
    BY <1>1, <2>1 DEF CutSound
<1>17. VerdictSound'
  <2>1. \A w \in Workers, j \in Ids : ~On(w, j)'
    BY <1>6 DEF On
  <2> QED
    BY <1>1, <1>4, <1>11, <2>1 DEF RingInv, VerdictSound
<1> QED
  BY <1>1, <1>8, <1>12, <1>13, <1>14, <1>15, <1>16, <1>17 DEF RingInv

\* The ring is what the file was.
LEMMA BootInv ==
  ASSUME LegacyTypeOK, RingInv, Boot
  PROVE  LegacyTypeOK' /\ RingInv'
<1>1. /\ ~up /\ up' = TRUE /\ ring' = file.items
      /\ UNCHANGED <<file, hook, task, worker, notice, told, cut, overdue, issued, faults, exits>>
  BY DEF Boot
<1>2. LegacyTypeOK'
  BY <1>1 DEF LegacyTypeOK, File
<1>3. \A w \in Workers : worker[w].pc = "idle"
  BY <1>1 DEF RingInv, WorkerSound
<1>4. Entries' \subseteq Entries
  BY <1>1 DEF Entries
<1>5. \A j : Done(j)' => Done(j)
  BY <1>4 DEF Done
<1>6. IssuedSound'
  BY <1>1, <1>4 DEF RingInv, IssuedSound, Taken
<1>7. TaskSound'
  BY <1>1, <1>5 DEF RingInv, TaskSound, Taken
<1>8. WorkerSound'
  BY <1>1, <1>3 DEF RingInv, WorkerSound, Executes
<1>9. CutSound'
  BY <1>1 DEF RingInv, CutSound, Executing, Executes
<1>10. VerdictSound'
  BY <1>1, <1>5 DEF RingInv, VerdictSound, On
<1> QED
  BY <1>1, <1>2, <1>6, <1>7, <1>8, <1>9, <1>10 DEF RingInv

\* Every step of the pipeline keeps types and invariant.
LEMMA LegacyStepInv ==
  ASSUME LegacyTypeOK, RingInv, LegacyNext
  PROVE  LegacyTypeOK' /\ RingInv'
<1>1. ASSUME NEW p \in Payloads, Receive(p) \/ Reclaim(p) \/ \E w \in Workers : Fetch(w, p)
      PROVE  LegacyTypeOK' /\ RingInv'
  BY <1>1, ReceiveInv, ReclaimInv, FetchInv
<1>2. ASSUME NEW i \in Ids, Enqueue(i) \/ EnqueueFails(i) \/ Refuse(i)
      PROVE  LegacyTypeOK' /\ RingInv'
  BY <1>2, EnqueueInv, RefuseInv
<1>3. ASSUME NEW i \in Ids, NoticeDelivered(i)
      PROVE  LegacyTypeOK' /\ RingInv'
  <2>1. /\ notice' = notice \ {i}
        /\ UNCHANGED <<ring, file, hook, task, worker, told, cut, overdue, up, issued, faults, exits>>
    BY <1>3 DEF NoticeDelivered
  <2>2. LegacyTypeOK'
    BY <2>1 DEF LegacyTypeOK
  <2>3. RingInv'
    BY <2>1 DEF RingInv, Single, IssuedSound, TaskSound, WorkerSound, CutSound, VerdictSound,
                Entries, Done, Taken, On, IdsOf, Executing, Executes
  <2> QED
    BY <2>2, <2>3
<1>4. ASSUME NEW w \in Workers, Work(w) \/ ChainPanics(w) \/ Timeout(w)
      PROVE  LegacyTypeOK' /\ RingInv'
  BY <1>4, WorkInv, NotifyInv, ReturnInv, TimeoutInv DEF Work
<1>5. CASE Exit \/ Boot
  BY <1>5, ExitInv, BootInv
<1> QED
  BY <1>1, <1>2, <1>3, <1>4, <1>5 DEF LegacyNext

-----------------------------------------------------------------------------
(* The commands                                                            *)

\* The types of what the commands keep.
ImportTypeOK ==
  /\ archive \in Archive
  /\ imported \subseteq Report
  /\ cmd \in [Commands -> Command]
  /\ backup \in Commands \cup {NoCommand}

\* What a command may become.
LEMMA CommandTypes ==
  /\ Ready \in Command /\ Ready.pc = "ready"
  /\ Ended \in Command /\ Ended.pc = "ended"
  /\ \A s \in Seq(Report) : LET k == [Ready EXCEPT !.pc = "commit", !.items = s]
                            IN k \in Command /\ k.pc = "commit" /\ k.items = s
  /\ LET k == [Ready EXCEPT !.pc = "link"] IN k \in Command /\ k.pc = "link"
<1>1. <<>> \in Seq(Report)
  OBVIOUS
<1>2. Ready \in Command /\ Ready.pc = "ready"
  BY <1>1 DEF Ready, Command
<1>3. Ended \in Command /\ Ended.pc = "ended"
  BY <1>1 DEF Ended, Ready, Command
<1>4. ASSUME NEW s \in Seq(Report)
      PROVE  LET k == [Ready EXCEPT !.pc = "commit", !.items = s]
             IN k \in Command /\ k.pc = "commit" /\ k.items = s
  BY DEF Ready, Command
<1>5. LET k == [Ready EXCEPT !.pc = "link"] IN k \in Command /\ k.pc = "link"
  BY <1>1 DEF Ready, Command
<1> QED
  BY <1>2, <1>3, <1>4, <1>5

\* Command c goes to its next state, k.
LEMMA CommandMoves ==
  ASSUME ImportTypeOK, NEW c \in Commands, NEW k \in Command, cmd' = [cmd EXCEPT ![c] = k]
  PROVE  cmd' \in [Commands -> Command]
  BY DEF ImportTypeOK

\* A committed import adds the reports of its snapshot to the archive, which has no other
\* wording of any of them, and changes no row that is there.
LEMMA CommitArchives ==
  ASSUME ImportTypeOK, ArchiveIsOriginal, NEW c \in Commands, ImportCommit(c)
  PROVE  archive' \in Archive /\ imported' \subseteq Report /\ ArchiveIsOriginal'
<1>1. PICK items \in Seq(Report) : items = cmd[c].items
  BY DEF ImportTypeOK, Command
<1>2. /\ \A n \in DOMAIN items : items[n] \in Report /\ items[n].id \in Ids
      /\ \A m, n \in DOMAIN items : items[m].id = items[n].id => items[m] = items[n]
  <2>1. \A m, n \in DOMAIN items : items[m].id = items[n].id => items[m] = items[n]
    BY <1>1 DEF ImportCommit
  <2>2. \A n \in DOMAIN items : items[n] \in Report
    OBVIOUS
  <2> QED
    BY <2>1, <2>2 DEF Report
<1> DEFINE new == {items[n] : n \in DOMAIN items}
<1>3. imported' = imported \cup new
  BY <1>1 DEF ImportCommit
<1> DEFINE at(i) == CHOOSE n \in DOMAIN items : items[n].id = i
<1>5. \A i \in IdsOf(items) : at(i) \in DOMAIN items /\ items[at(i)].id = i
  BY DEF IdsOf
<1>4. \A n \in DOMAIN items : items[at(items[n].id)] = items[n]
  <2>1. \A n \in DOMAIN items : items[n].id \in IdsOf(items)
    BY DEF IdsOf
  <2> HIDE DEF at
  <2> QED
    BY <1>2, <1>5, <2>1
<1>6. \A i \in Ids : archive'[i] = IF archive[i] = NoRow /\ i \in IdsOf(items)
                                     THEN Archived(items[at(i)]) ELSE archive[i]
  BY <1>1 DEF ImportCommit
<1>7. DOMAIN archive' = Ids /\ archive' = [i \in Ids |-> archive'[i]]
  BY DEF ImportCommit
<1>8. \A n \in DOMAIN items : archive[items[n].id] # NoRow => archive[items[n].id].raw = items[n]
  BY <1>1 DEF ImportCommit, Conflicts, Known
<1> HIDE DEF at
<1>9. \A rep \in Report : Archived(rep) \in Row /\ Archived(rep).raw = rep
  BY DEF Archived, Row
<1>10. \A rep \in Report : Archived(rep) # NoRow
  <2>1. NoRow.raw.id = 0
    BY DEF NoRow
  <2>2. \A rep \in Report : rep.id # 0
    BY LegacyAssumption DEF Report, Ids
  <2> QED
    BY <1>9, <2>1, <2>2
<1>11. archive' \in Archive
  <2>1. \A i \in Ids : archive'[i] \in Row \cup {NoRow}
    BY <1>2, <1>5, <1>6, <1>9 DEF ImportTypeOK, Archive
  <2> QED
    BY <1>7, <2>1 DEF Archive
<1> DEFINE before == {archive[i].raw : i \in {j \in Ids : archive[j] # NoRow}}
           after == {archive'[i].raw : i \in {j \in Ids : archive'[j] # NoRow}}
<1>12. after \subseteq before \cup new
  <2>1. ASSUME NEW i \in Ids, archive'[i] # NoRow
        PROVE  archive'[i].raw \in before \cup new
    <3>1. CASE archive[i] = NoRow /\ i \in IdsOf(items)
      BY <1>2, <1>5, <1>6, <1>9, <3>1
    <3>2. CASE ~(archive[i] = NoRow /\ i \in IdsOf(items))
      BY <1>6, <2>1, <3>2
    <3> QED
      BY <3>1, <3>2
  <2> QED
    BY <2>1
<1>13. before \subseteq after
  <2>1. \A i \in Ids : archive[i] # NoRow => archive'[i] = archive[i]
    BY <1>6
  <2> QED
    BY <2>1
<1>14. new \subseteq after
  <2>1. ASSUME NEW n \in DOMAIN items
        PROVE  \E i \in Ids : archive'[i] # NoRow /\ archive'[i].raw = items[n]
    <3>1. PICK i \in Ids : /\ i = items[n].id /\ i \in IdsOf(items)
                          /\ items[at(i)] = items[n] /\ items[n] \in Report
      BY <1>2, <1>4 DEF IdsOf
    <3>2. CASE archive[i] = NoRow
      <4>1. archive'[i] = Archived(items[n])
        BY <1>6, <3>1, <3>2
      <4> QED
        BY <1>9, <1>10, <3>1, <4>1
    <3>3. CASE archive[i] # NoRow
      BY <1>6, <1>8, <3>1, <3>3
    <3> QED
      BY <3>2, <3>3
  <2> QED
    BY <2>1
<1>15. after = before \cup new
  BY <1>12, <1>13, <1>14
<1>16. before = imported
  BY DEF ArchiveIsOriginal
<1>17. new \subseteq Report
  BY <1>2
<1> HIDE DEF before, new
<1>18. after = imported'
  BY <1>3, <1>15, <1>16
<1>19. ArchiveIsOriginal'
  BY <1>18 DEF ArchiveIsOriginal
<1>20. imported' \subseteq Report
  BY <1>3, <1>17 DEF ImportTypeOK
<1> QED
  BY <1>11, <1>19, <1>20

\* Every step of a command keeps what the commands rest on.
LEMMA ImportStepInv ==
  ASSUME LegacyTypeOK, ImportTypeOK, ArchiveIsOriginal,
         NEW c \in Commands, ImportNext(c)
  PROVE  ImportTypeOK' /\ ArchiveIsOriginal'
<1>1. ASSUME UNCHANGED <<archive, imported>>
      PROVE  ArchiveIsOriginal' /\ archive' \in Archive /\ imported' \subseteq Report
  BY <1>1 DEF ArchiveIsOriginal, ImportTypeOK
<1>2. CASE ReadSnapshot(c)
  <2>1. PICK s \in Seq(Report) : s = file.items
    BY DEF LegacyTypeOK, File
  <2>2. PICK k : k = [Ready EXCEPT !.pc = "commit", !.items = s]
    OBVIOUS
  <2>3. k \in Command /\ k.items = s
    BY <2>2, CommandTypes
  <2>4. cmd' = [cmd EXCEPT ![c] = k]
    BY <1>2, <2>1, <2>2 DEF ReadSnapshot
  <2>5. cmd' \in [Commands -> Command]
    BY <2>1, <2>3, <2>4, CommandMoves
  <2> QED
    BY <1>1, <1>2, <2>5 DEF ReadSnapshot, ImportTypeOK
<1>3. CASE ImportCommit(c)
  <2>1. cmd' \in [Commands -> Command]
    BY <1>3, CommandTypes, CommandMoves DEF ImportCommit
  <2>2. archive' \in Archive /\ imported' \subseteq Report /\ ArchiveIsOriginal'
    BY <1>3, CommitArchives
  <2> QED
    BY <1>3, <2>1, <2>2 DEF ImportCommit, ImportTypeOK
<1>4. CASE ImportRollsBack(c)
  <2>1. cmd' \in [Commands -> Command]
    BY <1>4, CommandTypes, CommandMoves DEF ImportRollsBack
  <2> QED
    BY <1>1, <1>4, <2>1 DEF ImportRollsBack, ImportTypeOK
<1>5. CASE CopyDatabase(c)
  <2>1. PICK k : k = [Ready EXCEPT !.pc = "link"]
    OBVIOUS
  <2>2. k \in Command /\ k.pc = "link"
    BY <2>1, CommandTypes
  <2>3. cmd' = [cmd EXCEPT ![c] = k]
    BY <1>5, <2>1 DEF CopyDatabase
  <2>4. cmd' \in [Commands -> Command]
    BY <2>2, <2>3, CommandMoves
  <2> QED
    BY <1>1, <1>5, <2>4 DEF CopyDatabase, ImportTypeOK
<1>6. CASE LinkBackup(c)
  <2>1. cmd' \in [Commands -> Command]
    BY <1>6, CommandTypes, CommandMoves DEF LinkBackup
  <2>2. backup' \in Commands \cup {NoCommand}
    BY <1>6 DEF LinkBackup, Link, ImportTypeOK
  <2> QED
    BY <1>1, <1>6, <2>1, <2>2 DEF LinkBackup, ImportTypeOK
<1> QED
  BY <1>2, <1>3, <1>4, <1>5, <1>6 DEF ImportNext

-----------------------------------------------------------------------------
(* Theorems                                                                *)

ImportInv == TypeOK /\ RingInv /\ ArchiveIsOriginal

\* Nothing was received, and nothing imported.
LEMMA InitInv == Init => ImportInv
<1> SUFFICES ASSUME Init PROVE ImportInv
  OBVIOUS
<1> USE DEF Init, LegacyInit
<1>1. /\ NoHook \in Hook /\ NoTask \in Task /\ Idle \in Worker /\ NoFile \in File
      /\ NoHook.pc = "none" /\ NoTask.state = "none" /\ Idle.pc = "idle" /\ Idle.time = "left"
      /\ NoFile.items = <<>>
  BY RestTypes DEF NoHook, NoTask, Idle
<1>2. LegacyTypeOK
  BY <1>1, LegacyAssumption DEF LegacyTypeOK
<1>3. ImportTypeOK
  BY CommandTypes DEF ImportTypeOK, Archive, EmptyArchive
<1>4. Single(<<>>, overdue)
  BY LegacyAssumption DEF Single
<1>5. Entries = {} /\ \A i : ~Done(i)
  BY <1>1 DEF Entries, Done
<1>6. /\ \A p \in Payloads : ~Taken(p) /\ task[p] = NoTask /\ task[p].state = "none"
      /\ \A w \in Workers : worker[w].pc = "idle" /\ worker[w].time = "left"
      /\ \A i \in Ids : hook[i].pc = "none"
  BY <1>1 DEF Taken
<1>7. RingInv
  BY <1>1, <1>4, <1>5, <1>6
     DEF RingInv, IssuedSound, TaskSound, WorkerSound, CutSound, VerdictSound, Executes
<1>8. ArchiveIsOriginal
  BY DEF ArchiveIsOriginal, EmptyArchive
<1> QED
  BY <1>2, <1>3, <1>7, <1>8 DEF ImportInv, TypeOK, ImportTypeOK

\* The invariant of pipeline and commands is inductive.
LEMMA NextInv == ImportInv /\ [Next]_vars => ImportInv'
<1> SUFFICES ASSUME ImportInv, [Next]_vars PROVE ImportInv'
  OBVIOUS
<1>1. LegacyTypeOK /\ ImportTypeOK /\ RingInv /\ ArchiveIsOriginal
  BY DEF ImportInv, TypeOK, ImportTypeOK
<1>2. UNCHANGED importVars => ImportTypeOK' /\ ArchiveIsOriginal'
  BY <1>1 DEF importVars, ImportTypeOK, ArchiveIsOriginal
<1>3. UNCHANGED legacyVars => LegacyTypeOK' /\ RingInv'
  <2> SUFFICES ASSUME UNCHANGED legacyVars PROVE LegacyTypeOK' /\ RingInv'
    OBVIOUS
  <2>1. LegacyTypeOK'
    BY <1>1 DEF legacyVars, LegacyTypeOK
  <2>2. RingInv'
    BY <1>1 DEF legacyVars, RingInv, Single, IssuedSound, TaskSound, WorkerSound, CutSound,
                VerdictSound, Entries, Done, Taken, On, IdsOf, Executing, Executes
  <2> QED
    BY <2>1, <2>2
<1>4. CASE LegacyNext /\ UNCHANGED importVars
  BY <1>1, <1>2, <1>4, LegacyStepInv DEF ImportInv, TypeOK, ImportTypeOK
<1>5. ASSUME NEW c \in Commands, ImportNext(c) /\ UNCHANGED legacyVars
      PROVE  ImportInv'
  BY <1>1, <1>3, <1>5, ImportStepInv DEF ImportInv, TypeOK, ImportTypeOK
<1>6. CASE UNCHANGED vars
  <2>1. UNCHANGED importVars /\ UNCHANGED legacyVars
    BY <1>6 DEF vars, importVars, legacyVars
  <2> QED
    BY <1>2, <1>3, <2>1 DEF ImportInv, TypeOK, ImportTypeOK
<1> QED
  BY <1>4, <1>5, <1>6 DEF Next

\* Every behaviour keeps the types, who may still write a report, and the archive.
THEOREM InvProved == Spec => []ImportInv
  BY InitInv, NextInv, PTL DEF Spec

\* GET /reports never shows more reports than the ring holds, and each of them once unless
\* its task ran into the timeout, and so does the snapshot file, whatever the webhooks, the
\* workers and the restarts do.
THEOREM OneEntryProved == Spec => []OneEntryPerReport
<1>1. ImportInv => OneEntryPerReport
  <2> SUFFICES ASSUME ImportInv PROVE OneEntryPerReport
    OBVIOUS
  <2>1. ring \in Seq(Report) /\ Single(ring, overdue) /\ Single(file.items, overdue)
    BY DEF ImportInv, TypeOK, LegacyTypeOK, RingInv
  <2>2. Single(Shown, overdue)
    <3>1. PICK L \in Nat : L = Len(ring)
      BY <2>1
    <3>2. DOMAIN ring = 1..L /\ L <= RingCap
      BY <2>1, <3>1 DEF Single
    <3>3. /\ DOMAIN Shown = 1..L /\ Len(Shown) = L
          /\ \A n \in 1..L : Shown[n] = ring[(L - n) + 1]
      BY <3>1 DEF Shown, Reverse
    <3>4. \A n \in 1..L : (L - n) + 1 \in 1..L
      OBVIOUS
    <3>5. ASSUME NEW m \in 1..L, NEW n \in 1..L, Shown[m].id = Shown[n].id
          PROVE  m = n \/ Shown[m].id \in overdue
      <4>1. (L - m) + 1 = (L - n) + 1 \/ Shown[m].id \in overdue
        BY <2>1, <3>2, <3>3, <3>4, <3>5 DEF Single
      <4> QED
        BY <4>1
    <3> QED
      BY <3>2, <3>3, <3>5 DEF Single
  <2> QED
    BY <2>1, <2>2 DEF OneEntryPerReport, Single
<1> QED
  BY <1>1, InvProved, PTL

\* Nobody is told that a diagnosis failed and then finds it done, unless an exit or the
\* timeout took the task away from a worker of this report.
THEOREM NoticeProved == Spec => []NoticeAgrees
<1>1. ImportInv => NoticeAgrees
  <2> SUFFICES ASSUME ImportInv, NEW n \in DOMAIN ring, ring[n].status = "done",
                      ring[n].id \in told, ring[n].id \notin cut \cup overdue
               PROVE  FALSE
    BY DEF NoticeAgrees
  <2>1. ring[n].id \in Ids
    BY DEF ImportInv, TypeOK, LegacyTypeOK
  <2>2. Done(ring[n].id)
    BY DEF Done, Entries
  <2> QED
    BY <2>1, <2>2 DEF ImportInv, RingInv, VerdictSound
<1> QED
  BY <1>1, InvProved, PTL

\* The archive holds exactly the reports of the committed imports, in their wording.
THEOREM ArchiveProved == Spec => []ArchiveIsOriginal
<1>1. ImportInv => ArchiveIsOriginal
  BY DEF ImportInv
<1> QED
  BY <1>1, InvProved, PTL

\* A backup that exists is never overwritten: os.Link fails on an existing path.
THEOREM BackupProved == Spec => BackupNeverOverwritten
<1> DEFINE Stays == backup # NoCommand => backup' = backup
<1>1. [Next]_vars => [Stays]_vars
  <2> SUFFICES ASSUME Next, backup # NoCommand
               PROVE  backup' = backup
    OBVIOUS
  <2>1. CASE LegacyNext /\ UNCHANGED importVars
    BY <2>1 DEF importVars
  <2>2. ASSUME NEW c \in Commands, ImportNext(c)
        PROVE  backup' = backup
    BY <2>2 DEF ImportNext, ReadSnapshot, ImportCommit, ImportRollsBack, CopyDatabase,
                LinkBackup, Link
  <2> QED
    BY <2>1, <2>2 DEF Next
<1> QED
  BY <1>1, PTL DEF Spec, BackupNeverOverwritten

=============================================================================
