-------------------------- MODULE Admission_proofs --------------------------
(***************************************************************************)
(* Proofs about Admission, for any label sets, times, batches, keys and    *)
(* bodies.  The inductive invariant follows the open transaction of Admit  *)
(* next to the committed tables: at every point of its loop, what it has   *)
(* written so far could be committed.                                      *)
(***************************************************************************)
EXTENDS Admission, TLAPS

-----------------------------------------------------------------------------
(* The inductive invariant                                                 *)

\* Of the stored observations: firing ones belong to their incident, and an incident
\* that owns an observation has a latest one.
RowsSound(rows) ==
  /\ \A n \in DOMAIN rows : rows[n].data.status = "firing" => rows[n].owned
  /\ \A n \in DOMAIN rows : rows[n].owned => LatestOf(rows, rows[n].key) # {}

\* The recovery an incident was resolved by is among the observations.
Audited(k, end, rows) ==
  \E n \in DOMAIN rows :
    /\ rows[n].key = k
    /\ rows[n].data.status = "resolved"
    /\ rows[n].data.end = end

\* Incidents and observations fit together.
TablesSound(incs, rows) ==
  /\ RowsSound(rows)
  /\ \A k \in Incidents : incs[k].known => LatestOf(rows, k) # {}
  /\ \A k \in Incidents : incs[k].resolved # NoTime => Audited(k, incs[k].resolved, rows)

\* Rows are only added.
Extended(rows, more) ==
  /\ Len(rows) <= Len(more)
  /\ \A n \in DOMAIN rows : more[n] = rows[n]

\* A resolved incident stays resolved, at no earlier second.
NotRolledBack(old, new) ==
  old.resolved # NoTime =>
    /\ new.resolved # NoTime
    /\ new.resolved \div 2 >= old.resolved \div 2

\* What the open transaction has written could be committed: it knows every known
\* incident and, besides, exactly the ones it will start a run for.
TxSound ==
  tx.open =>
    /\ Acceptable(tx.todo)
    /\ TablesSound(tx.incidents, tx.observations)
    /\ Extended(observations, tx.observations)
    /\ \A k \in Incidents :
         /\ tx.incidents[k].latest = incidents[k].latest
         /\ tx.incidents[k].known <=> incidents[k].known \/ k \in tx.ids
         /\ NotRolledBack(incidents[k], tx.incidents[k])

\* A policy run covers the incidents its business key is made of.
PolicySound ==
  \A n \in DOMAIN runs :
    runs[n].business.kind = "policy" => runs[n].business = PolicyKey(runs[n].of)

\* A used Idempotency-Key names its run.
IdemSound ==
  \A s \in Incidents \X Keys : idem[s].used =>
    /\ idem[s].run \in DOMAIN runs
    /\ runs[idem[s].run].business = [kind |-> "manual", of |-> s[1], key |-> s[2]]

\* The evidence of a run holds an observation of each of its incidents.
EvidenceSound ==
  \A n \in DOMAIN runs : \A k \in runs[n].of :
    \E m \in runs[n].evidence : m \in DOMAIN observations /\ observations[m].key = k

Inv ==
  /\ TablesSound(incidents, observations)
  /\ TxSound
  /\ PolicySound
  /\ IdemSound
  /\ EvidenceSound
  /\ LatestRunCovers

-----------------------------------------------------------------------------
(* Storing observations                                                    *)

\* INSERT OR IGNORE keeps the rows there are, adds at most one at the end, and leaves a
\* row with the identity it was asked for.
LEMMA StoreRows ==
  ASSUME NEW rows \in Seq(Stored), NEW k \in Incidents, NEW o \in Observation,
         NEW own \in BOOLEAN
  PROVE  /\ Store(rows, k, o, own) \in Seq(Stored)
         /\ Extended(rows, Store(rows, k, o, own))
         /\ \/ /\ Store(rows, k, o, own) = rows
               /\ \E n \in DOMAIN rows : rows[n].key = k /\ rows[n].data = o
            \/ Store(rows, k, o, own) = Append(rows, [key |-> k, data |-> o, owned |-> own])
<1> DEFINE row == [key |-> k, data |-> o, owned |-> own]
<1>1. row \in Stored
  BY DEF Stored
<1>2. CASE \E n \in DOMAIN rows : rows[n].key = k /\ rows[n].data = o
  BY <1>2 DEF Store, Extended
<1>3. CASE ~ \E n \in DOMAIN rows : rows[n].key = k /\ rows[n].data = o
  <2>1. Store(rows, k, o, own) = Append(rows, row)
    BY <1>3 DEF Store
  <2>2. Append(rows, row) \in Seq(Stored) /\ Extended(rows, Append(rows, row))
    BY <1>1 DEF Extended
  <2> QED
    BY <2>1, <2>2
<1> QED
  BY <1>2, <1>3

\* A row added at the end is the latest of its incident, if it belongs to it, and the
\* other incidents keep the latest they have.
LEMMA LatestAppend ==
  ASSUME NEW rows \in Seq(Stored), NEW row \in Stored, NEW k \in Incidents,
         LatestOf(rows, k) # {} \/ (row.owned /\ row.key = k)
  PROVE  LatestOf(Append(rows, row), k) # {}
<1> DEFINE more == Append(rows, row)
<1>1. /\ DOMAIN more = 1..(Len(rows) + 1) /\ DOMAIN rows = 1..Len(rows)
      /\ Len(rows) \in Nat
      /\ \A n \in 1..Len(rows) : more[n] = rows[n]
      /\ more[Len(rows) + 1] = row
  OBVIOUS
<1> HIDE DEF more
<1>2. CASE row.owned /\ row.key = k
  <2>1. Len(rows) + 1 \in LatestOf(more, k)
    BY <1>1, <1>2 DEF LatestOf
  <2> QED
    BY <2>1 DEF more
<1>3. CASE ~(row.owned /\ row.key = k)
  <2>1. PICK n : n \in LatestOf(rows, k)
    BY <1>3
  <2>2. n \in LatestOf(more, k)
    BY <1>1, <1>3, <2>1 DEF LatestOf
  <2> QED
    BY <2>2 DEF more
<1> QED
  BY <1>2, <1>3

\* Storing an observation keeps the rows sound and every latest one; a firing observation
\* gives its incident one.
LEMMA StoreSound ==
  ASSUME NEW rows \in Seq(Stored), NEW k \in Incidents, NEW o \in Observation,
         NEW own \in BOOLEAN, RowsSound(rows), o.status = "firing" => own
  PROVE  /\ RowsSound(Store(rows, k, o, own))
         /\ \A j \in Incidents : LatestOf(rows, j) # {} => LatestOf(Store(rows, k, o, own), j) # {}
         /\ o.status = "firing" => LatestOf(Store(rows, k, o, own), k) # {}
<1> DEFINE row == [key |-> k, data |-> o, owned |-> own]
           more == Append(rows, row)
<1>1. CASE /\ Store(rows, k, o, own) = rows
           /\ \E n \in DOMAIN rows : rows[n].key = k /\ rows[n].data = o
  BY <1>1 DEF RowsSound
<1>2. CASE Store(rows, k, o, own) = more
  <2>1. row \in Stored
    BY DEF Stored
  <2>2. \A j \in Incidents : LatestOf(rows, j) # {} \/ (own /\ k = j) => LatestOf(more, j) # {}
    BY <2>1, LatestAppend
  <2>3. RowsSound(more)
    <3>1. /\ DOMAIN more = 1..(Len(rows) + 1) /\ DOMAIN rows = 1..Len(rows)
          /\ Len(rows) \in Nat
          /\ \A n \in 1..Len(rows) : more[n] = rows[n] /\ rows[n] \in Stored
          /\ more[Len(rows) + 1] = row
      <4>1. row \in Stored /\ rows \in Seq(Stored)
        BY <2>1
      <4> HIDE DEF row
      <4> QED
        BY <4>1
    <3> HIDE DEF more
    <3>2. \A n \in DOMAIN more : more[n].data.status = "firing" => more[n].owned
      BY <3>1 DEF RowsSound
    <3>3. \A n \in DOMAIN more : more[n].owned => LatestOf(more, more[n].key) # {}
      <4>1. ASSUME NEW n \in 1..Len(rows), rows[n].owned
            PROVE  LatestOf(more, rows[n].key) # {}
        <5>1. rows[n].key \in Incidents
          BY <3>1 DEF Stored
        <5>2. LatestOf(rows, rows[n].key) # {}
          BY <3>1, <4>1 DEF RowsSound
        <5> QED
          BY <2>2, <5>1, <5>2
      <4>2. own => LatestOf(more, k) # {}
        BY <2>2
      <4>3. row.owned = own /\ row.key = k
        OBVIOUS
      <4> HIDE DEF row
      <4>4. ASSUME NEW n \in DOMAIN more, more[n].owned
            PROVE  LatestOf(more, more[n].key) # {}
        <5>1. CASE n \in 1..Len(rows)
          BY <3>1, <4>1, <4>4, <5>1
        <5>2. CASE n = Len(rows) + 1
          BY <3>1, <4>2, <4>3, <4>4, <5>2
        <5> QED
          BY <3>1, <5>1, <5>2
      <4> QED
        BY <4>4
    <3> QED
      BY <3>2, <3>3 DEF RowsSound
  <2> QED
    BY <1>2, <2>2, <2>3
<1> QED
  BY <1>1, <1>2, StoreRows

\* More rows audit what fewer rows audited, and a stored recovery is audited.
LEMMA AuditedExtended ==
  ASSUME NEW rows \in Seq(Stored), NEW more \in Seq(Stored), Extended(rows, more),
         NEW k, NEW end, Audited(k, end, rows)
  PROVE  Audited(k, end, more)
<1>1. \A n \in DOMAIN rows : n \in DOMAIN more /\ more[n] = rows[n]
  BY DEF Extended
<1> QED
  BY <1>1 DEF Audited

\* A recovery that is stored, or was stored before, is audited.
LEMMA StoreAudits ==
  ASSUME NEW rows \in Seq(Stored), NEW k \in Incidents, NEW o \in Observation,
         NEW own \in BOOLEAN, o.status = "resolved"
  PROVE  Audited(k, o.end, Store(rows, k, o, own))
<1> DEFINE row == [key |-> k, data |-> o, owned |-> own]
<1>1. CASE Store(rows, k, o, own) = Append(rows, row)
  <2>1. /\ Len(rows) + 1 \in DOMAIN Append(rows, row)
        /\ Append(rows, row)[Len(rows) + 1] = row
    OBVIOUS
  <2> QED
    BY <1>1, <2>1 DEF Audited
<1>2. CASE /\ Store(rows, k, o, own) = rows
           /\ \E n \in DOMAIN rows : rows[n].key = k /\ rows[n].data = o
  BY <1>2 DEF Audited
<1> QED
  BY <1>1, <1>2, StoreRows

-----------------------------------------------------------------------------
(* The open transaction                                                    *)

OpenTx ==
  [open : {TRUE}, todo : Seq(Observation), ready : BOOLEAN, at : Windows,
   ids : SUBSET Incidents, incidents : [Incidents -> Incident], observations : Seq(Stored)]

\* One observation o of the batch is taken in: incident k becomes inc, the run to start
\* is about ids, and the row is stored with incident_id if own.
Observed(o, k, inc, ids, own) ==
  /\ tx.open
  /\ tx.todo # <<>>
  /\ o = Head(tx.todo)
  /\ k = Canonical(o, tx.at)
  /\ tx' = [tx EXCEPT !.todo = Tail(@), !.ids = ids, !.incidents[k] = inc,
                      !.observations = Store(@, k, o, own)]
  /\ UNCHANGED <<incidents, observations, runs, idem, now>>

\* The transaction after that.
ObservedFields(o, k, inc, ids, own) ==
  /\ tx' \in OpenTx /\ tx'.open
  /\ tx'.todo = Tail(tx.todo) /\ tx'.ids = ids
  /\ tx'.incidents = [tx.incidents EXCEPT ![k] = inc]
  /\ tx'.observations = Store(tx.observations, k, o, own)
  /\ o \in Observation /\ k \in Incidents
  /\ UNCHANGED <<incidents, observations, runs, idem, now>>

\* An open transaction has the fields of one.
LEMMA TxFields ==
  ASSUME TypeOK, tx.open
  PROVE  /\ tx \in OpenTx
         /\ tx.todo \in Seq(Observation) /\ tx.at \in Windows /\ tx.ids \in SUBSET Incidents
         /\ tx.incidents \in [Incidents -> Incident] /\ tx.observations \in Seq(Stored)
<1>1. tx # NoTx
  BY DEF NoTx
<1>2. tx \in OpenTx
  BY <1>1 DEF TypeOK, Tx, OpenTx
<1> QED
  BY <1>2 DEF OpenTx

\* The next observation of the batch and its incident.
LEMMA NextObservation ==
  ASSUME TypeOK, tx.open, tx.todo # <<>>
  PROVE  /\ Head(tx.todo) \in Observation
         /\ Canonical(Head(tx.todo), tx.at) \in Incidents
         /\ tx.incidents[Canonical(Head(tx.todo), tx.at)] \in Incident
<1>1. Head(tx.todo) \in Observation
  BY TxFields
<1>2. Canonical(Head(tx.todo), tx.at) \in Incidents
  BY <1>1, TxFields DEF Canonical, Incidents, Observation
<1> QED
  BY <1>1, <1>2, TxFields

\* The transaction after an observation.
LEMMA ObservedTx ==
  ASSUME TypeOK, NEW o, NEW k, NEW inc \in Incident, NEW ids \in SUBSET Incidents,
         NEW own \in BOOLEAN, Observed(o, k, inc, ids, own)
  PROVE  ObservedFields(o, k, inc, ids, own)
<1>1. tx.open /\ tx.todo # <<>> /\ o = Head(tx.todo) /\ k = Canonical(o, tx.at)
  BY DEF Observed
<1>2. o \in Observation /\ k \in Incidents
  BY <1>1, NextObservation
<1>3. tx \in OpenTx
  BY <1>1, TxFields
<1>4. Store(tx.observations, k, o, own) \in Seq(Stored)
  BY <1>2, <1>3, StoreRows DEF OpenTx
<1>5. Tail(tx.todo) \in Seq(Observation)
  BY <1>1, <1>3 DEF OpenTx
<1>6. tx' = [tx EXCEPT !.todo = Tail(tx.todo), !.ids = ids,
                       !.incidents = [tx.incidents EXCEPT ![k] = inc],
                       !.observations = Store(tx.observations, k, o, own)]
  BY <1>2, <1>3 DEF Observed, OpenTx
<1>7. [tx.incidents EXCEPT ![k] = inc] \in [Incidents -> Incident]
  BY <1>2, <1>3 DEF OpenTx
<1>8. tx' \in OpenTx
  BY <1>3, <1>4, <1>5, <1>6, <1>7 DEF OpenTx
<1> QED
  BY <1>2, <1>3, <1>6, <1>8 DEF Observed, ObservedFields, OpenTx

\* The three ways to take an observation in.
LEMMA ObserveCases ==
  ASSUME TypeOK, tx.open => Acceptable(tx.todo),
         ObserveFiring \/ ObserveRecovery \/ ObserveUnmatched
  PROVE  \E o \in Observation, k \in Incidents, inc \in Incident, ids \in SUBSET Incidents,
            own \in BOOLEAN :
           /\ Observed(o, k, inc, ids, own)
           /\ \/ /\ o.status = "firing"
                 /\ inc = AfterFiring(tx.incidents[k]) /\ ids = tx.ids \cup {k} /\ own
              \/ /\ o.status = "resolved" /\ o.end \in Stamps
                 /\ inc = AfterRecovery(tx.incidents[k], o.end) /\ ids = tx.ids /\ own
              \/ /\ o.status = "resolved"
                 /\ inc = tx.incidents[k] /\ ids = tx.ids /\ ~own
<1>0. tx.open /\ tx.todo # <<>>
  BY DEF ObserveFiring, ObserveRecovery, ObserveUnmatched
<1>1. PICK o \in Observation : o = Head(tx.todo)
  BY <1>0, NextObservation
<1>2. PICK k \in Incidents : k = Canonical(o, tx.at)
  BY <1>0, <1>1, NextObservation
<1>3. /\ tx \in OpenTx /\ tx.incidents \in [Incidents -> Incident]
      /\ tx.incidents[k] \in Incident /\ tx.ids \in SUBSET Incidents
  BY <1>0, TxFields
<1>4. CASE ObserveFiring
  <2>1. AfterFiring(tx.incidents[k]) \in Incident
    BY <1>3 DEF AfterFiring, Incident
  <2>2. PICK inc \in Incident : inc = AfterFiring(tx.incidents[k])
    BY <2>1
  <2>3. PICK ids \in SUBSET Incidents : ids = tx.ids \cup {k}
    BY <1>3
  <2>4. Observed(o, k, inc, ids, TRUE)
    BY <1>0, <1>1, <1>2, <1>3, <1>4, <2>2, <2>3 DEF ObserveFiring, Observed, OpenTx
  <2>5. o.status = "firing"
    BY <1>1, <1>4 DEF ObserveFiring
  <2> QED
    BY <2>2, <2>3, <2>4, <2>5
<1>5. CASE ObserveRecovery
  <2>1. o.status = "resolved"
    BY <1>1, <1>5 DEF ObserveRecovery
  <2>2. o.end \in Stamps
    <3>1. tx.todo \in Seq(Observation) /\ 1 \in DOMAIN tx.todo /\ o = tx.todo[1]
      BY <1>0, <1>1, TxFields
    <3>2. o.end # NoTime
      BY <1>0, <2>1, <3>1 DEF Acceptable
    <3> QED
      BY <3>2 DEF Observation
  <2>3. AfterRecovery(tx.incidents[k], o.end) \in Incident
    BY <1>3, <2>2 DEF AfterRecovery, Incident
  <2>4. PICK inc \in Incident : inc = AfterRecovery(tx.incidents[k], o.end)
    BY <2>3
  <2>5. PICK ids \in SUBSET Incidents : ids = tx.ids
    BY <1>3
  <2>6. Observed(o, k, inc, ids, TRUE)
    BY <1>0, <1>1, <1>2, <1>3, <1>5, <2>4, <2>5 DEF ObserveRecovery, Observed, OpenTx
  <2> QED
    BY <2>1, <2>2, <2>4, <2>5, <2>6
<1>6. CASE ObserveUnmatched
  <2>1. PICK inc \in Incident : inc = tx.incidents[k]
    BY <1>3
  <2>2. PICK ids \in SUBSET Incidents : ids = tx.ids
    BY <1>3
  <2>3. Observed(o, k, inc, ids, FALSE)
    <3>1. /\ tx' = [tx EXCEPT !.todo = Tail(@), !.observations = Store(@, k, o, FALSE)]
          /\ UNCHANGED <<incidents, observations, runs, idem, now>>
      BY <1>1, <1>2, <1>6 DEF ObserveUnmatched
    <3>2. [tx.incidents EXCEPT ![k] = inc] = tx.incidents
      BY <1>3, <2>1
    <3>3. tx' = [tx EXCEPT !.todo = Tail(@), !.ids = ids, !.incidents[k] = inc,
                           !.observations = Store(@, k, o, FALSE)]
      BY <1>3, <2>2, <3>1, <3>2 DEF OpenTx
    <3> QED
      BY <1>0, <1>1, <1>2, <3>1, <3>3 DEF Observed
  <2>4. o.status = "resolved"
    BY <1>1, <1>6 DEF ObserveUnmatched
  <2> QED
    BY <2>1, <2>2, <2>3, <2>4
<1> QED
  BY <1>4, <1>5, <1>6

-----------------------------------------------------------------------------
(* Types                                                                   *)

\* A new run and the incidents linked to it.
LEMMA NewRunType ==
  ASSUME NEW business \in Business, NEW ids \in SUBSET Incidents, NEW rows \in Seq(Stored),
         NEW incs \in [Incidents -> Incident], NEW n \in Nat
  PROVE  /\ NewRun(business, ids, rows) \in RunRow
         /\ Linked(incs, ids, n) \in [Incidents -> Incident]
<1>1. \A k \in ids : LatestOf(rows, k) \subseteq Nat
  BY DEF LatestOf
<1>2. UNION {LatestOf(rows, k) : k \in ids} \in SUBSET Nat
  BY <1>1
<1>3. NewRun(business, ids, rows) \in RunRow
  BY <1>2 DEF NewRun, RunRow
<1>4. \A k \in Incidents : [incs[k] EXCEPT !.latest = n] \in Incident
  BY DEF Incident
<1> QED
  BY <1>3, <1>4 DEF Linked

\* Every step keeps the types; a recovery needs the times that the handler asked for.
LEMMA NextType ==
  ASSUME TypeOK, tx.open => Acceptable(tx.todo), [Next]_vars
  PROVE  TypeOK'
<1>0. NoTx \in Tx /\ OpenTx \subseteq Tx
  BY DEF Tx, OpenTx
<1>3. CASE ObserveFiring \/ ObserveRecovery \/ ObserveUnmatched
  <2>1. PICK o \in Observation, k \in Incidents, inc \in Incident, ids \in SUBSET Incidents,
             own \in BOOLEAN : Observed(o, k, inc, ids, own)
    BY <1>3, ObserveCases
  <2>2. ObservedFields(o, k, inc, ids, own)
    BY <2>1, ObservedTx
  <2> QED
    BY <1>0, <2>2 DEF ObservedFields, TypeOK
<1> USE DEF TypeOK
<1>1. CASE UNCHANGED vars
  BY <1>1 DEF vars
<1>2. ASSUME NEW b \in Batches, NEW ready \in BOOLEAN, BeginAdmit(b, ready)
      PROVE  TypeOK'
  <2>1. b \in Seq(Observation)
    BY AdmissionAssumption
  <2>2. tx' \in OpenTx
    BY <1>2, <2>1 DEF BeginAdmit, OpenTx
  <2> QED
    BY <1>0, <1>2, <2>2 DEF BeginAdmit
<1>4. CASE CommitObserved \/ CommitRun
  <2>1. tx.open
    BY <1>4 DEF CommitObserved, CommitRun
  <2>2. PolicyKey(tx.ids) \in Business
    BY <2>1, TxFields DEF PolicyKey, Business
  <2>3. CASE CommitObserved
    BY <1>0, <2>1, <2>3, TxFields DEF CommitObserved
  <2>4. CASE CommitRun
    <3>1. /\ tx.ids \in SUBSET Incidents /\ tx.observations \in Seq(Stored)
          /\ tx.incidents \in [Incidents -> Incident] /\ Len(runs) + 1 \in Nat
      BY <2>1, TxFields
    <3>2. PICK new \in RunRow : new = NewRun(PolicyKey(tx.ids), tx.ids, tx.observations)
      BY <2>2, <3>1, NewRunType
    <3>3. Linked(tx.incidents, tx.ids, Len(runs) + 1) \in [Incidents -> Incident]
      BY <2>2, <3>1, NewRunType
    <3>4. runs' \in Seq(RunRow)
      BY <2>4, <3>2 DEF CommitRun
    <3> QED
      BY <1>0, <2>4, <3>1, <3>3, <3>4 DEF CommitRun
  <2> QED
    BY <1>4, <2>3, <2>4
<1>5. CASE Unavailable \/ Rollback
  BY <1>0, <1>5 DEF Unavailable, Rollback
<1>6. ASSUME NEW k \in Incidents, NEW key \in Keys, NEW body \in Bodies, ReDiagnose(k, key, body)
      PROVE  TypeOK'
  <2>1. [kind |-> "manual", of |-> k, key |-> key] \in Business
    BY DEF Business
  <2>2. [used |-> TRUE, body |-> body, run |-> Len(runs) + 1] \in Idem
    BY DEF Idem
  <2>3. idem' \in [Incidents \X Keys -> Idem]
    BY <1>6, <2>2 DEF ReDiagnose
  <2>4. {k} \in SUBSET Incidents /\ Len(runs) + 1 \in Nat
    OBVIOUS
  <2>5. PICK new \in RunRow :
          new = NewRun([kind |-> "manual", of |-> k, key |-> key], {k}, observations)
    BY <2>1, <2>4, NewRunType
  <2>6. runs' \in Seq(RunRow)
    BY <1>6, <2>5 DEF ReDiagnose
  <2>7. incidents' \in [Incidents -> Incident]
    BY <1>6, <2>1, <2>4, NewRunType DEF ReDiagnose
  <2> QED
    BY <1>6, <2>3, <2>6, <2>7 DEF ReDiagnose
<1>7. CASE WindowPasses
  BY <1>7 DEF WindowPasses
<1> QED
  BY <1>1, <1>2, <1>3, <1>4, <1>5, <1>6, <1>7 DEF Next

\* The initial state has the types.
LEMMA InitType == Init => TypeOK
<1> SUFFICES ASSUME Init PROVE TypeOK
  OBVIOUS
<1>1. NoIncident \in Incident
  BY DEF NoIncident, Incident
<1>2. NoIdem \in Idem
  BY AdmissionAssumption DEF NoIdem, Idem
<1> QED
  BY <1>1, <1>2 DEF Init, TypeOK, Tx

-----------------------------------------------------------------------------
(* The loop of Admit                                                       *)

\* resolved_at is a time once it is set.
LEMMA ResolvedStamp ==
  ASSUME NEW inc \in Incident, inc.resolved # NoTime
  PROVE  inc.resolved \in Nat
<1>1. inc.resolved \in Stamps
  BY DEF Incident
<1> QED
  BY <1>1, AdmissionAssumption

\* A recovery never takes an incident back, and resolves it to its own end or not at all.
LEMMA RecoveryForward ==
  ASSUME NEW inc \in Incident, NEW end \in Stamps
  PROVE  /\ NotRolledBack(inc, AfterRecovery(inc, end))
         /\ AfterRecovery(inc, end).known = inc.known
         /\ AfterRecovery(inc, end).latest = inc.latest
         /\ AfterRecovery(inc, end).resolved \in {inc.resolved, end}
<1>1. end \in Nat /\ end # NoTime
  BY AdmissionAssumption DEF NoTime
<1>2. inc.resolved \in Nat \/ inc.resolved = NoTime
  BY AdmissionAssumption DEF Incident
<1>3. CASE inc.resolved = NoTime \/ StampAfter(end, inc.resolved)
  <2>1. AfterRecovery(inc, end) = [inc EXCEPT !.resolved = end]
    BY <1>3 DEF AfterRecovery
  <2>2. /\ AfterRecovery(inc, end).known = inc.known
        /\ AfterRecovery(inc, end).latest = inc.latest
        /\ AfterRecovery(inc, end).resolved = end
    BY <2>1 DEF Incident
  <2>3. inc.resolved # NoTime => end \div 2 >= inc.resolved \div 2
    BY <1>1, <1>2, <1>3 DEF StampAfter
  <2> QED
    BY <1>1, <2>2, <2>3 DEF NotRolledBack
<1>4. CASE ~(inc.resolved = NoTime \/ StampAfter(end, inc.resolved))
  <2>1. AfterRecovery(inc, end) = inc
    BY <1>4 DEF AfterRecovery
  <2> QED
    BY <1>2, <2>1 DEF NotRolledBack
<1> QED
  BY <1>3, <1>4

\* No incident is rolled back over several steps.
LEMMA NotRolledBackTransitive ==
  ASSUME NEW a \in Incident, NEW b \in Incident, NEW c \in Incident,
         NotRolledBack(a, b), NotRolledBack(b, c)
  PROVE  NotRolledBack(a, c)
<1> SUFFICES ASSUME a.resolved # NoTime
             PROVE  c.resolved # NoTime /\ c.resolved \div 2 >= a.resolved \div 2
  BY DEF NotRolledBack
<1>1. b.resolved # NoTime /\ b.resolved \div 2 >= a.resolved \div 2
  BY DEF NotRolledBack
<1>2. c.resolved # NoTime /\ c.resolved \div 2 >= b.resolved \div 2
  BY <1>1 DEF NotRolledBack
<1>3. a.resolved \in Nat /\ b.resolved \in Nat /\ c.resolved \in Nat
  BY <1>1, <1>2, ResolvedStamp
<1> QED
  BY <1>1, <1>2, <1>3

\* Extended is transitive.
LEMMA ExtendedTransitive ==
  ASSUME NEW a \in Seq(Stored), NEW b \in Seq(Stored), NEW c \in Seq(Stored),
         Extended(a, b), Extended(b, c)
  PROVE  Extended(a, c)
<1>1. /\ Len(a) \in Nat /\ Len(b) \in Nat /\ Len(c) \in Nat
      /\ DOMAIN a = 1..Len(a) /\ DOMAIN b = 1..Len(b)
  OBVIOUS
<1> QED
  BY <1>1 DEF Extended

\* Every observation leaves the transaction fit to be committed.
LEMMA ObserveInv ==
  ASSUME TypeOK, TxSound, ObserveFiring \/ ObserveRecovery \/ ObserveUnmatched
  PROVE  TxSound' /\ UNCHANGED <<incidents, observations, runs, idem>>
<1>0. tx.open
  BY DEF ObserveFiring, ObserveRecovery, ObserveUnmatched
<1>1. PICK o \in Observation, k \in Incidents, inc \in Incident, ids \in SUBSET Incidents,
           own \in BOOLEAN :
        /\ Observed(o, k, inc, ids, own)
        /\ \/ /\ o.status = "firing"
              /\ inc = AfterFiring(tx.incidents[k]) /\ ids = tx.ids \cup {k} /\ own
           \/ /\ o.status = "resolved" /\ o.end \in Stamps
              /\ inc = AfterRecovery(tx.incidents[k], o.end) /\ ids = tx.ids /\ own
           \/ /\ o.status = "resolved"
              /\ inc = tx.incidents[k] /\ ids = tx.ids /\ ~own
  BY ObserveCases DEF TxSound
<1>2. /\ tx'.open
      /\ tx'.todo = Tail(tx.todo) /\ tx'.ids = ids
      /\ tx'.incidents = [tx.incidents EXCEPT ![k] = inc]
      /\ tx'.observations = Store(tx.observations, k, o, own)
      /\ UNCHANGED <<incidents, observations, runs, idem, now>>
  <2>1. Observed(o, k, inc, ids, own)
    BY <1>1
  <2>2. ObservedFields(o, k, inc, ids, own)
    BY <2>1, ObservedTx
  <2> QED
    BY <2>2 DEF ObservedFields
<1> DEFINE old == tx.incidents[k]
           rows == tx.observations
           more == Store(rows, k, o, own)
<1>3. /\ rows \in Seq(Stored) /\ old \in Incident /\ tx.ids \in SUBSET Incidents
      /\ tx.incidents \in [Incidents -> Incident]
      /\ incidents \in [Incidents -> Incident] /\ observations \in Seq(Stored)
  BY <1>0, TxFields DEF TypeOK
<1>4. /\ TablesSound(tx.incidents, rows) /\ RowsSound(rows) /\ Acceptable(tx.todo)
      /\ Extended(observations, rows)
      /\ \A j \in Incidents :
           /\ tx.incidents[j].latest = incidents[j].latest
           /\ tx.incidents[j].known <=> incidents[j].known \/ j \in tx.ids
           /\ NotRolledBack(incidents[j], tx.incidents[j])
  BY <1>0 DEF TxSound, TablesSound
<1>5. /\ more \in Seq(Stored) /\ Extended(rows, more)
      /\ RowsSound(more)
      /\ \A j \in Incidents : LatestOf(rows, j) # {} => LatestOf(more, j) # {}
      /\ o.status = "firing" => LatestOf(more, k) # {}
  <2>1. o.status = "firing" => own
    BY <1>1
  <2>2. rows \in Seq(Stored) /\ RowsSound(rows)
    BY <1>3, <1>4
  <2> HIDE DEF rows
  <2> QED
    BY <2>1, <2>2, StoreRows, StoreSound
<1>6. Acceptable(Tail(tx.todo))
  <2>1. tx.todo \in Seq(Observation) /\ tx.todo # <<>>
    BY <1>0, <1>1, TxFields DEF Observed
  <2>2. \A n \in DOMAIN Tail(tx.todo) : n + 1 \in DOMAIN tx.todo /\ Tail(tx.todo)[n] = tx.todo[n + 1]
    BY <2>1
  <2> QED
    BY <1>4, <2>2 DEF Acceptable
<1>7. /\ inc.latest = old.latest
      /\ inc.known <=> old.known \/ o.status = "firing"
      /\ inc.resolved = old.resolved \/ (o.status = "resolved" /\ inc.resolved = o.end)
      /\ NotRolledBack(old, inc)
  <2>1. NotRolledBack(old, old)
    <3> HIDE DEF old
    <3>1. old.resolved # NoTime => old.resolved \in Nat
      BY <1>3, ResolvedStamp
    <3> QED
      BY <3>1 DEF NotRolledBack
  <2>2. CASE o.status = "firing" /\ inc = AfterFiring(old)
    <3>1. inc.latest = old.latest /\ inc.known = TRUE /\ inc.resolved = old.resolved
      BY <1>3, <2>2 DEF AfterFiring, Incident
    <3> QED
      BY <2>1, <2>2, <3>1 DEF NotRolledBack
  <2>3. CASE /\ o.status = "resolved" /\ o.end \in Stamps
             /\ inc = AfterRecovery(old, o.end)
    <3>1. o.status # "firing"
      BY <2>3
    <3>2. /\ NotRolledBack(old, inc) /\ inc.known = old.known /\ inc.latest = old.latest
          /\ inc.resolved \in {old.resolved, o.end}
      BY <1>3, <2>3, RecoveryForward
    <3> QED
      BY <2>3, <3>1, <3>2
  <2>4. CASE o.status = "resolved" /\ inc = old
    BY <2>1, <2>4
  <2> QED
    BY <1>1, <2>2, <2>3, <2>4
<1>8. TablesSound(tx'.incidents, more)
  <2>1. ASSUME NEW j \in Incidents, tx'.incidents[j].known
        PROVE  LatestOf(more, j) # {}
    BY <1>2, <1>3, <1>4, <1>5, <1>7, <2>1 DEF TablesSound
  <2>2. ASSUME NEW j \in Incidents, tx'.incidents[j].resolved # NoTime
        PROVE  Audited(j, tx'.incidents[j].resolved, more)
    <3>1. CASE tx'.incidents[j].resolved = tx.incidents[j].resolved
      <4>1. Audited(j, tx.incidents[j].resolved, rows)
        BY <1>4, <2>2, <3>1 DEF TablesSound
      <4> QED
        BY <1>3, <1>5, <3>1, <4>1, AuditedExtended
    <3>2. CASE tx'.incidents[j].resolved # tx.incidents[j].resolved
      <4>1. j = k /\ o.status = "resolved" /\ tx'.incidents[j].resolved = o.end
        BY <1>2, <1>3, <1>7, <3>2
      <4> QED
        BY <1>3, <4>1, StoreAudits
    <3> QED
      BY <3>1, <3>2
  <2> QED
    BY <1>5, <2>1, <2>2 DEF TablesSound
<1>9. Extended(observations, more)
  BY <1>3, <1>4, <1>5, ExtendedTransitive
<1>10. ASSUME NEW j \in Incidents
       PROVE  /\ tx'.incidents[j].latest = incidents[j].latest
              /\ tx'.incidents[j].known <=> incidents[j].known \/ j \in ids
              /\ NotRolledBack(incidents[j], tx'.incidents[j])
  <2>1. CASE j # k
    <3>1. tx'.incidents[j] = tx.incidents[j]
      BY <1>2, <1>3, <2>1
    <3>2. j \in ids <=> j \in tx.ids
      BY <1>1, <2>1
    <3> QED
      BY <1>4, <3>1, <3>2
  <2>2. CASE j = k
    <3>1. tx'.incidents[j] = inc
      BY <1>2, <1>3, <2>2
    <3>2. k \in ids <=> k \in tx.ids \/ o.status = "firing"
      BY <1>1
    <3>3. NotRolledBack(incidents[k], inc)
      BY <1>3, <1>4, <1>7, NotRolledBackTransitive
    <3> QED
      BY <1>4, <1>7, <2>2, <3>1, <3>2, <3>3
  <2> QED
    BY <2>1, <2>2
<1>11. TxSound'
  BY <1>2, <1>6, <1>8, <1>9, <1>10 DEF TxSound
<1> QED
  BY <1>2, <1>11

-----------------------------------------------------------------------------
(* Commits                                                                 *)

\* insertRun about the incidents ids, on the tables incs and rows of its transaction.
Inserted(business, ids, incs, rows) ==
  /\ runs' = Append(runs, NewRun(business, ids, rows))
  /\ incidents' = Linked(incs, ids, Len(runs) + 1)
  /\ observations' = rows
  /\ business.kind = "policy" => business = PolicyKey(ids)
  /\ TablesSound(incs, rows)
  /\ Extended(observations, rows)
  /\ \A k \in Incidents :
       /\ incs[k].latest = incidents[k].latest
       /\ incs[k].known <=> incidents[k].known \/ k \in ids

\* The runs after insertRun: the ones before it, and a new last one.
LEMMA RunsAppended ==
  ASSUME TypeOK, NEW new \in RunRow, runs' = Append(runs, new)
  PROVE  /\ Len(runs) \in Nat /\ DOMAIN runs = 1..Len(runs)
         /\ DOMAIN runs' = 1..(Len(runs) + 1)
         /\ \A n \in DOMAIN runs : n \in DOMAIN runs' /\ runs'[n] = runs[n]
         /\ runs'[Len(runs) + 1] = new
  BY DEF TypeOK

\* insertRun keeps the tables, the runs and their evidence sound, and latest_run_id.
LEMMA InsertedInv ==
  ASSUME TypeOK, PolicySound, IdemSound, EvidenceSound, LatestRunCovers,
         NEW business \in Business, NEW ids \in SUBSET Incidents,
         NEW incs \in [Incidents -> Incident], NEW rows \in Seq(Stored),
         Inserted(business, ids, incs, rows)
  PROVE  /\ TablesSound(incidents', observations')
         /\ PolicySound' /\ EvidenceSound' /\ LatestRunCovers'
<1> DEFINE new == NewRun(business, ids, rows)
           last == Len(runs) + 1
<1>1. new \in RunRow /\ new.business = business /\ new.of = ids
      /\ new.evidence = UNION {LatestOf(rows, k) : k \in ids}
  BY NewRunType, 0 \in Nat DEF NewRun
<1>2. /\ Len(runs) \in Nat /\ DOMAIN runs = 1..Len(runs)
      /\ DOMAIN runs' = 1..last
      /\ \A n \in DOMAIN runs : n \in DOMAIN runs' /\ runs'[n] = runs[n]
      /\ runs'[last] = new
  BY <1>1, RunsAppended DEF Inserted
<1> HIDE DEF new
<1>3. /\ observations' = rows /\ TablesSound(incs, rows) /\ Extended(observations, rows)
      /\ business.kind = "policy" => business = PolicyKey(ids)
  BY DEF Inserted
<1>4. \A k \in Incidents :
        /\ incidents'[k].known = incs[k].known /\ incidents'[k].resolved = incs[k].resolved
        /\ incidents'[k].latest = IF k \in ids THEN last ELSE incidents[k].latest
        /\ incs[k].known <=> incidents[k].known \/ k \in ids
  <2>1. \A k \in Incidents : incidents'[k] = IF k \in ids THEN [incs[k] EXCEPT !.latest = last]
                                                          ELSE incs[k]
    BY DEF Inserted, Linked
  <2>2. \A k \in Incidents : incs[k] \in Incident
    OBVIOUS
  <2>3. \A k \in Incidents : /\ incs[k].latest = incidents[k].latest
                             /\ incs[k].known <=> incidents[k].known \/ k \in ids
    BY DEF Inserted
  <2> QED
    BY <2>1, <2>2, <2>3 DEF Incident
<1>5. TablesSound(incidents', observations')
  BY <1>3, <1>4 DEF TablesSound
<1>6. PolicySound'
  BY <1>1, <1>2, <1>3 DEF PolicySound
<1>7. EvidenceSound'
  <2> SUFFICES ASSUME NEW n \in DOMAIN runs', NEW k \in runs'[n].of
               PROVE  \E m \in runs'[n].evidence : m \in DOMAIN rows /\ rows[m].key = k
    BY <1>3 DEF EvidenceSound
  <2>1. CASE n \in DOMAIN runs
    <3>1. PICK m \in runs[n].evidence : m \in DOMAIN observations /\ observations[m].key = k
      BY <1>2, <2>1 DEF EvidenceSound
    <3>2. m \in DOMAIN rows /\ rows[m] = observations[m]
      BY <1>3, <3>1 DEF Extended, TypeOK
    <3> QED
      BY <1>2, <2>1, <3>1, <3>2
  <2>2. CASE n = last
    <3>1. k \in ids /\ k \in Incidents
      BY <1>1, <1>2, <2>2
    <3>2. LatestOf(rows, k) # {}
      BY <1>3, <1>4, <3>1 DEF TablesSound
    <3>3. PICK m : m \in LatestOf(rows, k)
      BY <3>2
    <3>4. m \in DOMAIN rows /\ rows[m].key = k
      BY <3>3 DEF LatestOf
    <3>5. m \in runs'[n].evidence
      BY <1>1, <1>2, <2>2, <3>1, <3>3
    <3> QED
      BY <3>4, <3>5
  <2> QED
    BY <1>2, <2>1, <2>2
<1>8. LatestRunCovers'
  <2> SUFFICES ASSUME NEW k \in Incidents
               PROVE  IF incidents'[k].known
                        THEN /\ incidents'[k].latest \in {n \in DOMAIN runs' : k \in runs'[n].of}
                             /\ \A n \in DOMAIN runs' : k \in runs'[n].of => n <= incidents'[k].latest
                        ELSE \A n \in DOMAIN runs' : k \notin runs'[n].of
    BY DEF LatestRunCovers
  <2>1. IF incidents[k].known
          THEN /\ incidents[k].latest \in {n \in DOMAIN runs : k \in runs[n].of}
               /\ \A n \in DOMAIN runs : k \in runs[n].of => n <= incidents[k].latest
          ELSE \A n \in DOMAIN runs : k \notin runs[n].of
    BY DEF LatestRunCovers
  <2>2. CASE k \in ids
    BY <1>1, <1>2, <1>4, <2>2
  <2>3. CASE k \notin ids
    <3>1. \A n \in DOMAIN runs' : k \in runs'[n].of => n \in DOMAIN runs
      BY <1>1, <1>2, <2>3
    <3>2. incidents'[k].latest = incidents[k].latest /\ (incidents'[k].known <=> incidents[k].known)
      BY <1>4, <2>3
    <3> QED
      BY <1>2, <2>1, <3>1, <3>2
  <2> QED
    BY <2>2, <2>3
<1> QED
  BY <1>5, <1>6, <1>7, <1>8

\* Tables that did not change are an extension of themselves, and roll nothing back.
LEMMA NothingYet ==
  ASSUME TypeOK
  PROVE  /\ Extended(observations, observations)
         /\ \A k \in Incidents : NotRolledBack(incidents[k], incidents[k])
<1>1. Extended(observations, observations)
  BY DEF TypeOK, Extended
<1>2. ASSUME NEW inc \in Incident
      PROVE  NotRolledBack(inc, inc)
  <2>1. inc.resolved # NoTime => inc.resolved \in Nat
    BY ResolvedStamp
  <2> QED
    BY <2>1 DEF NotRolledBack
<1> QED
  BY <1>1, <1>2 DEF TypeOK

\* A transaction that has just begun has written nothing.
LEMMA BeginInv ==
  ASSUME TypeOK, Inv, NEW b \in Batches, NEW ready \in BOOLEAN, BeginAdmit(b, ready)
  PROVE  Inv'
<1>1. /\ tx'.open /\ tx'.todo = b /\ tx'.ids = {} /\ Acceptable(b)
      /\ tx'.incidents = incidents /\ tx'.observations = observations
      /\ UNCHANGED <<incidents, observations, runs, idem>>
  BY DEF BeginAdmit
<1>2. TablesSound(incidents, observations)
  BY DEF Inv
<1>3. TxSound'
  BY <1>1, <1>2, NothingYet DEF TxSound
<1>4. /\ TablesSound(incidents', observations')
      /\ PolicySound' /\ IdemSound' /\ EvidenceSound' /\ LatestRunCovers'
  BY <1>1 DEF Inv, PolicySound, IdemSound, EvidenceSound, LatestRunCovers, PolicyKey
<1> QED
  BY <1>3, <1>4 DEF Inv

\* A batch that asks for no run knows no incident beyond the known ones: the run its
\* business key names covers every incident of the batch.
LEMMA NothingUncovered ==
  ASSUME TypeOK, Inv, CommitObserved
  PROVE  \A k \in Incidents :
           /\ incidents'[k].known <=> incidents[k].known
           /\ incidents'[k].latest = incidents[k].latest
<1>1. /\ tx.open /\ incidents' = tx.incidents /\ (tx.ids = {} \/ Exists(PolicyKey(tx.ids)))
  BY DEF CommitObserved
<1>2. \A k \in Incidents : /\ tx.incidents[k].latest = incidents[k].latest
                           /\ tx.incidents[k].known <=> incidents[k].known \/ k \in tx.ids
  BY <1>1 DEF Inv, TxSound
<1>3. ASSUME NEW k \in Incidents, k \in tx.ids
      PROVE  incidents[k].known
  <2>1. PICK n \in DOMAIN runs : runs[n].business = PolicyKey(tx.ids)
    BY <1>1, <1>3 DEF Exists
  <2>2. runs[n].business = PolicyKey(runs[n].of)
    BY <2>1 DEF Inv, PolicySound, PolicyKey
  <2>3. runs[n].of = tx.ids
    BY <2>1, <2>2 DEF PolicyKey
  <2>4. n \in {m \in DOMAIN runs : k \in runs[m].of}
    BY <1>3, <2>3
  <2> QED
    BY <2>4 DEF Inv, LatestRunCovers
<1> QED
  BY <1>1, <1>2, <1>3

\* Committing what was observed.
LEMMA CommitObservedInv ==
  ASSUME TypeOK, Inv, CommitObserved
  PROVE  Inv'
<1>1. /\ tx.open /\ incidents' = tx.incidents /\ observations' = tx.observations
      /\ runs' = runs /\ idem' = idem /\ ~tx'.open
  BY DEF CommitObserved, NoTx
<1>2. TablesSound(incidents', observations') /\ Extended(observations, observations')
  BY <1>1 DEF Inv, TxSound
<1>3. observations \in Seq(Stored) /\ observations' \in Seq(Stored)
  BY <1>1, TxFields DEF TypeOK
<1>4. \A m \in DOMAIN observations : m \in DOMAIN observations' /\ observations'[m] = observations[m]
  BY <1>2, <1>3 DEF Extended
<1>5. EvidenceSound'
  BY <1>1, <1>4 DEF Inv, EvidenceSound
<1>6. LatestRunCovers'
  BY <1>1, NothingUncovered DEF Inv, LatestRunCovers
<1>7. PolicySound' /\ IdemSound'
  BY <1>1 DEF Inv, PolicySound, IdemSound, PolicyKey
<1> QED
  BY <1>1, <1>2, <1>5, <1>6, <1>7 DEF Inv, TxSound

\* Committing a new run.
LEMMA CommitRunInv ==
  ASSUME TypeOK, Inv, CommitRun
  PROVE  Inv'
<1>1. /\ tx.open /\ idem' = idem /\ ~tx'.open
      /\ runs' = Append(runs, NewRun(PolicyKey(tx.ids), tx.ids, tx.observations))
      /\ incidents' = Linked(tx.incidents, tx.ids, Len(runs) + 1)
      /\ observations' = tx.observations
  BY DEF CommitRun, NoTx
<1>2. PICK ids \in SUBSET Incidents : ids = tx.ids
  BY <1>1, TxFields
<1>3. PICK incs \in [Incidents -> Incident] : incs = tx.incidents
  BY <1>1, TxFields
<1>4. PICK rows \in Seq(Stored) : rows = tx.observations
  BY <1>1, TxFields
<1>5. PICK business \in Business : business = PolicyKey(ids)
  BY DEF Business, PolicyKey
<1>6. Inserted(business, ids, incs, rows)
  BY <1>1, <1>2, <1>3, <1>4, <1>5 DEF Inv, TxSound, Inserted
<1>7. /\ TablesSound(incidents', observations')
      /\ PolicySound' /\ EvidenceSound' /\ LatestRunCovers'
  BY <1>6, InsertedInv DEF Inv
<1>8. PICK new \in RunRow : runs' = Append(runs, new)
  BY <1>1, <1>2, <1>3, <1>4, <1>5, NewRunType, 0 \in Nat
<1>9. \A n \in DOMAIN runs : n \in DOMAIN runs' /\ runs'[n] = runs[n]
  BY <1>8, RunsAppended
<1>10. IdemSound'
  BY <1>1, <1>9 DEF Inv, IdemSound
<1> QED
  BY <1>1, <1>7, <1>10 DEF Inv, TxSound

\* A manual diagnosis.
LEMMA ReDiagnoseInv ==
  ASSUME TypeOK, Inv, NEW k \in Incidents, NEW key \in Keys, NEW body \in Bodies,
         ReDiagnose(k, key, body)
  PROVE  Inv'
<1> DEFINE last == Len(runs) + 1
<1>1. PICK business \in Business : business = [kind |-> "manual", of |-> k, key |-> key]
  BY DEF Business
<1>2. /\ ~tx.open /\ ~tx'.open /\ incidents[k].known
      /\ runs' = Append(runs, NewRun(business, {k}, observations))
      /\ incidents' = Linked(incidents, {k}, last)
      /\ observations' = observations
      /\ idem' = [idem EXCEPT ![<<k, key>>] = [used |-> TRUE, body |-> body, run |-> last]]
  BY <1>1 DEF ReDiagnose, ReDiagnosable
<1>3. PICK ids \in SUBSET Incidents : ids = {k}
  OBVIOUS
<1>4. PICK incs \in [Incidents -> Incident] : incs = incidents
  BY DEF TypeOK
<1>5. PICK rows \in Seq(Stored) : rows = observations
  BY DEF TypeOK
<1>6. Inserted(business, ids, incs, rows)
  BY <1>1, <1>2, <1>3, <1>4, <1>5, NothingYet DEF Inv, Inserted
<1>7. /\ TablesSound(incidents', observations')
      /\ PolicySound' /\ EvidenceSound' /\ LatestRunCovers'
  BY <1>6, InsertedInv DEF Inv
<1>8. PICK new \in RunRow : new = NewRun(business, ids, rows)
  BY NewRunType, 0 \in Nat
<1>9. /\ DOMAIN runs' = 1..last /\ Len(runs) \in Nat
      /\ \A n \in DOMAIN runs : n \in DOMAIN runs' /\ runs'[n] = runs[n]
      /\ runs'[last] = new
  BY <1>2, <1>3, <1>5, <1>8, RunsAppended
<1>10. new.business = [kind |-> "manual", of |-> k, key |-> key]
  BY <1>1, <1>8 DEF NewRun
<1>11. IdemSound'
  <2> SUFFICES ASSUME NEW s \in Incidents \X Keys, idem'[s].used
               PROVE  /\ idem'[s].run \in DOMAIN runs'
                      /\ runs'[idem'[s].run].business = [kind |-> "manual", of |-> s[1], key |-> s[2]]
    BY DEF IdemSound
  <2>1. CASE s = <<k, key>>
    <3>1. idem'[s].run = last
      BY <1>2, <2>1 DEF TypeOK
    <3>2. s[1] = k /\ s[2] = key
      BY <2>1
    <3> QED
      BY <1>9, <1>10, <3>1, <3>2
  <2>2. CASE s # <<k, key>>
    <3>1. idem'[s] = idem[s]
      BY <1>2, <2>2 DEF TypeOK
    <3> QED
      BY <1>9, <3>1 DEF Inv, IdemSound
  <2> QED
    BY <2>1, <2>2
<1> QED
  BY <1>2, <1>7, <1>11 DEF Inv, TxSound

-----------------------------------------------------------------------------
(* The invariant                                                           *)

\* Initially there is nothing.
LEMMA InitInv == Init => Inv
<1> SUFFICES ASSUME Init PROVE Inv
  OBVIOUS
<1>1. /\ observations = <<>> /\ runs = <<>> /\ ~tx.open
      /\ \A k \in Incidents : incidents[k] = NoIncident
      /\ \A s \in Incidents \X Keys : idem[s] = NoIdem
  BY DEF Init, NoTx
<1>2. /\ DOMAIN observations = {} /\ DOMAIN runs = {}
      /\ \A k \in Incidents : ~incidents[k].known /\ incidents[k].resolved = NoTime
      /\ \A s \in Incidents \X Keys : ~idem[s].used
  <2>1. ~NoIncident.known /\ NoIncident.resolved = NoTime
    BY DEF NoIncident
  <2>2. ~NoIdem.used
    BY DEF NoIdem
  <2>3. DOMAIN observations = {} /\ DOMAIN runs = {}
    BY <1>1
  <2> QED
    BY <1>1, <2>1, <2>2, <2>3
<1>3. TablesSound(incidents, observations)
  BY <1>2 DEF TablesSound, RowsSound
<1>4. LatestRunCovers
  BY <1>2 DEF LatestRunCovers
<1> QED
  BY <1>1, <1>2, <1>3, <1>4 DEF Inv, TxSound, PolicySound, IdemSound, EvidenceSound

\* Every step keeps the invariant.
LEMMA NextInv ==
  ASSUME TypeOK, Inv, [Next]_vars
  PROVE  Inv'
<1>1. CASE UNCHANGED vars
  BY <1>1 DEF vars, Inv, TxSound, PolicySound, IdemSound, EvidenceSound, LatestRunCovers, PolicyKey
<1>2. ASSUME NEW b \in Batches, NEW ready \in BOOLEAN, BeginAdmit(b, ready)
      PROVE  Inv'
  BY <1>2, BeginInv
<1>3. CASE ObserveFiring \/ ObserveRecovery \/ ObserveUnmatched
  <2>1. TxSound' /\ UNCHANGED <<incidents, observations, runs, idem>>
    BY <1>3, ObserveInv DEF Inv
  <2> QED
    BY <2>1 DEF Inv, PolicySound, IdemSound, EvidenceSound, LatestRunCovers, PolicyKey
<1>4. CASE CommitObserved
  BY <1>4, CommitObservedInv
<1>5. CASE CommitRun
  BY <1>5, CommitRunInv
<1>6. CASE Unavailable \/ Rollback
  <2>1. ~tx'.open /\ UNCHANGED <<incidents, observations, runs, idem>>
    BY <1>6 DEF Unavailable, Rollback, NoTx
  <2> QED
    BY <2>1 DEF Inv, TxSound, PolicySound, IdemSound, EvidenceSound, LatestRunCovers, PolicyKey
<1>7. ASSUME NEW k \in Incidents, NEW key \in Keys, NEW body \in Bodies, ReDiagnose(k, key, body)
      PROVE  Inv'
  BY <1>7, ReDiagnoseInv
<1>8. CASE WindowPasses
  BY <1>8 DEF WindowPasses, Inv, TxSound, PolicySound, IdemSound, EvidenceSound,
              LatestRunCovers, PolicyKey
<1> QED
  BY <1>1, <1>2, <1>3, <1>4, <1>5, <1>6, <1>7, <1>8 DEF Next

\* A recovery is only taken in with the times the handler asked for.
LEMMA TodoAcceptable == Inv => (tx.open => Acceptable(tx.todo))
  BY DEF Inv, TxSound

\* The types and the inductive invariant hold in every reachable state.
THEOREM InvProved == Spec => [](TypeOK /\ Inv)
<1>1. Init => TypeOK /\ Inv
  BY InitType, InitInv
<1>2. TypeOK /\ Inv /\ [Next]_vars => TypeOK' /\ Inv'
  BY NextType, NextInv, TodoAcceptable
<1> QED
  BY <1>1, <1>2, PTL DEF Spec

\* No alert is taken in and left undiagnosed, however batches are grouped, retried,
\* refused or rolled back (Admit, insertRun, ReDiagnose).
THEOREM LatestRunProved == Spec => []LatestRunCovers
<1>1. Inv => LatestRunCovers
  BY DEF Inv
<1> QED
  BY <1>1, InvProved, PTL

\* Every run has an observation of each of its incidents among its evidence, whatever
\* unmatched recoveries were stored before (insertRun, observationForRun).
THEOREM AlertEvidenceProved == Spec => []RunsHaveAlertEvidence
<1>1. Inv => RunsHaveAlertEvidence
  BY DEF Inv, TablesSound, EvidenceSound, RunsHaveAlertEvidence
<1> QED
  BY <1>1, InvProved, PTL

\* resolved_at always comes from a recovery in the audit table (Admit).
THEOREM ResolvedAuditedProved == Spec => []ResolvedIsAudited
<1>1. Inv => ResolvedIsAudited
  BY DEF Inv, TablesSound, Audited, ResolvedIsAudited
<1> QED
  BY <1>1, InvProved, PTL

-----------------------------------------------------------------------------
(* What no step does                                                       *)

\* Only ReDiagnose writes an idempotency row, an unused one, and runs are never changed.
THEOREM ReplaysProved == Spec => ReplaysAreStable
<1> DEFINE Kept == \A s \in Incidents \X Keys : idem[s].used =>
             /\ idem'[s] = idem[s]
             /\ runs'[idem[s].run].business = [kind |-> "manual", of |-> s[1], key |-> s[2]]
<1>1. TypeOK /\ Inv /\ [Next]_vars => [Kept]_vars
  <2> SUFFICES ASSUME TypeOK, Inv, Next PROVE Kept
    OBVIOUS
  <2>1. /\ \A n \in DOMAIN runs : runs'[n] = runs[n]
        /\ \A s \in Incidents \X Keys : idem[s].used => idem'[s] = idem[s]
    <3>1. CASE runs' = runs /\ idem' = idem
      BY <3>1
    <3>2. CASE CommitRun
      <4>1. runs' = Append(runs, NewRun(PolicyKey(tx.ids), tx.ids, tx.observations)) /\ idem' = idem
        BY <3>2 DEF CommitRun
      <4> QED
        BY <4>1 DEF TypeOK
    <3>3. ASSUME NEW k \in Incidents, NEW key \in Keys, NEW body \in Bodies,
                 ReDiagnose(k, key, body)
          PROVE  /\ \A n \in DOMAIN runs : runs'[n] = runs[n]
                 /\ \A s \in Incidents \X Keys : idem[s].used => idem'[s] = idem[s]
      <4>1. PICK new : runs' = Append(runs, new)
        BY <3>3 DEF ReDiagnose
      <4>2. PICK row : idem' = [idem EXCEPT ![<<k, key>>] = row]
        BY <3>3 DEF ReDiagnose
      <4>3. ~idem[<<k, key>>].used
        BY <3>3 DEF ReDiagnose, ReDiagnosable
      <4>4. \A n \in DOMAIN runs : runs'[n] = runs[n]
        BY <4>1 DEF TypeOK
      <4>5. \A s \in Incidents \X Keys : idem[s].used => idem'[s] = idem[s]
        BY <4>2, <4>3 DEF TypeOK
      <4> QED
        BY <4>4, <4>5
    <3>4. \/ runs' = runs /\ idem' = idem
          \/ CommitRun
          \/ \E k \in Incidents, key \in Keys, body \in Bodies : ReDiagnose(k, key, body)
      BY DEF Next, BeginAdmit, ObserveFiring, ObserveRecovery, ObserveUnmatched,
             CommitObserved, Unavailable, Rollback, WindowPasses
    <3> QED
      BY <3>1, <3>2, <3>3, <3>4
  <2> QED
    BY <2>1 DEF Inv, IdemSound
<1> QED
  BY <1>1, InvProved, PTL DEF Spec, ReplaysAreStable

\* Neither a late or repeated firing observation nor a late recovery takes an incident
\* back: not inside the loop of Admit, and so not when its transaction commits.
THEOREM RecoveryProved == Spec => RecoveryNeverRolledBack
<1> DEFINE Forward == \A k \in Incidents : incidents[k].resolved # NoTime =>
             /\ incidents'[k].resolved # NoTime
             /\ incidents'[k].resolved \div 2 >= incidents[k].resolved \div 2
<1>1. TypeOK /\ Inv /\ [Next]_vars => [Forward]_vars
  <2> SUFFICES ASSUME TypeOK, Inv, Next, NEW k \in Incidents
               PROVE  NotRolledBack(incidents[k], incidents'[k])
    BY DEF NotRolledBack
  <2>1. CASE incidents' = incidents
    BY <2>1, NothingYet
  <2>2. CASE CommitObserved
    BY <2>2 DEF CommitObserved, Inv, TxSound
  <2>3. CASE CommitRun
    <3>1. tx.open /\ tx.incidents[k] \in Incident
      BY <2>3, TxFields DEF CommitRun
    <3>2. incidents'[k] = IF k \in tx.ids THEN [tx.incidents[k] EXCEPT !.latest = Len(runs) + 1]
                                          ELSE tx.incidents[k]
      BY <2>3 DEF CommitRun, Linked
    <3>3. incidents'[k].resolved = tx.incidents[k].resolved
      BY <3>1, <3>2 DEF Incident
    <3> QED
      BY <3>1, <3>3 DEF Inv, TxSound, NotRolledBack
  <2>4. ASSUME NEW j \in Incidents, NEW key \in Keys, NEW body \in Bodies,
               ReDiagnose(j, key, body)
        PROVE  NotRolledBack(incidents[k], incidents'[k])
    <3>1. incidents'[k] = IF k \in {j} THEN [incidents[k] EXCEPT !.latest = Len(runs) + 1]
                                       ELSE incidents[k]
      BY <2>4 DEF ReDiagnose, Linked
    <3>2. incidents'[k].resolved = incidents[k].resolved
      BY <3>1 DEF TypeOK, Incident
    <3> QED
      BY <3>2, NothingYet DEF NotRolledBack
  <2>5. \/ incidents' = incidents
        \/ CommitObserved \/ CommitRun
        \/ \E j \in Incidents, key \in Keys, body \in Bodies : ReDiagnose(j, key, body)
    BY DEF Next, BeginAdmit, ObserveFiring, ObserveRecovery, ObserveUnmatched,
           Unavailable, Rollback, WindowPasses
  <2> QED
    BY <2>1, <2>2, <2>3, <2>4, <2>5
<1> QED
  BY <1>1, InvProved, PTL DEF Spec, RecoveryNeverRolledBack

=============================================================================
