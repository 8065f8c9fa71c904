------------------------------ MODULE Admission ------------------------------
(***************************************************************************)
(* Admission of alert batches (POST /alert, POST /plan) and of manual      *)
(* diagnoses: Admit, insertRun and ReDiagnose of                           *)
(* internal/workspace/admission.go behind the validation of                *)
(* internal/handler/workspace.go.                                          *)
(*                                                                         *)
(* Admit is a loop in one SQLite transaction.  Its writes are kept apart   *)
(* in tx until the commit; the connection is the only one, so nothing else *)
(* runs meanwhile, but the transaction may be rolled back at every point.  *)
(*                                                                         *)
(* Times are half seconds.  stableID and hash are injective here: an       *)
(* incident is its canonical key, an observation row is its key and data.  *)
(***************************************************************************)
EXTENDS Integers, Sequences, FiniteSets

CONSTANTS
  Labels,   \* label sets of alerts, alertname included
  Stamps,   \* possible values of startsAt and endsAt
  Windows,  \* starts of the five-minute windows the clock passes through
  Batches,  \* batches ParseObservations can return
  Keys,     \* values of Idempotency-Key
  Bodies,   \* canonical bodies of a manual request
  MaxManual \* bound: manual runs in one behaviour

NoTime == -1   \* the field is empty or absent

Observation == [labels : Labels, status : {"firing", "resolved"},
                start : Stamps \cup {NoTime}, end : Stamps \cup {NoTime}]

ASSUME AdmissionAssumption ==
  /\ Stamps \subseteq Nat
  /\ Windows \subseteq Nat
  /\ Windows # {}
  /\ Batches \subseteq (Seq(Observation) \ {<<>>})
  /\ Bodies # {}
  /\ MaxManual \in Nat

Incidents == Labels \X (Stamps \cup Windows)

VARIABLES
  incidents,    \* incidents.data, by canonical key
  observations, \* alert_observations in rowid order
  runs,         \* diagnosis_runs in rowid order, each with its pending outbox row
  idem,         \* idempotency rows of scope run:<incident>
  tx,           \* the open transaction of Admit
  now           \* start of the current five-minute window

tables == <<incidents, observations, runs, idem>>
vars == <<incidents, observations, runs, idem, tx, now>>

\* resolved: resolved_at (lifecycle_status is resolved exactly when it is set);
\* latest: latest_run_id as the number of the run, 0 for null.
Incident == [known : BOOLEAN, resolved : Stamps \cup {NoTime}, latest : Nat]
NoIncident == [known |-> FALSE, resolved |-> NoTime, latest |-> 0]

\* key: the canonical key the row was stored under; owned: whether incident_id is set.
Stored == [key : Incidents, data : Observation, owned : BOOLEAN]

\* business: what the business key is derived from; evidence: the alert_observation
\* evidence, as numbers of stored observations.
Business == [kind : {"policy"}, of : SUBSET Incidents]
              \cup [kind : {"manual"}, of : Incidents, key : Keys]
RunRow == [business : Business, of : SUBSET Incidents, evidence : SUBSET Nat]

Idem == [used : BOOLEAN, body : Bodies, run : Nat]
NoIdem == [used |-> FALSE, body |-> CHOOSE b \in Bodies : TRUE, run |-> 0]

NoTx == [open |-> FALSE]
Tx == {NoTx} \cup
      [open : {TRUE}, todo : Seq(Observation), ready : BOOLEAN, at : Windows,
       ids : SUBSET Incidents, incidents : [Incidents -> Incident],
       observations : Seq(Stored)]

\* Types of all variables of the model.
TypeOK ==
  /\ incidents \in [Incidents -> Incident]
  /\ observations \in Seq(Stored)
  /\ runs \in Seq(RunRow)
  /\ idem \in [Incidents \X Keys -> Idem]
  /\ tx \in Tx
  /\ now \in Windows

Init ==
  /\ incidents = [i \in Incidents |-> NoIncident]
  /\ observations = <<>>
  /\ runs = <<>>
  /\ idem = [s \in Incidents \X Keys |-> NoIdem]
  /\ tx = NoTx
  /\ now \in Windows

-----------------------------------------------------------------------------
(* Admit                                                                   *)

\* What the handler lets through: a recovery has its times, in order.
Acceptable(b) ==
  \A n \in DOMAIN b : b[n].status = "resolved" =>
    /\ b[n].start # NoTime
    /\ b[n].end # NoTime
    /\ b[n].end >= b[n].start

\* canonical: labels and startsAt, or the current window where startsAt is missing.
\* Both are formatted alike, so a window and a startsAt on its boundary coincide.
Canonical(o, at) == <<o.labels, IF o.start # NoTime THEN o.start ELSE at>>

\* val > *inc.ResolvedAt compares RFC3339Nano strings: within a second, "...05Z" is
\* greater than "...05.5Z".
StampAfter(a, b) ==
  \/ a \div 2 > b \div 2
  \/ a \div 2 = b \div 2 /\ a % 2 = 0 /\ b % 2 # 0

\* The transaction begins, with the queue's readiness as the handler saw it.
BeginAdmit(b, ready) ==
  /\ ~tx.open
  /\ Acceptable(b)
  /\ tx' = [open |-> TRUE, todo |-> b, ready |-> ready, at |-> now, ids |-> {},
            incidents |-> incidents, observations |-> observations]
  /\ UNCHANGED <<incidents, observations, runs, idem, now>>

\* Mutant: the identity of an observation leaves out its status and times.
StoreByKey(rows, k, o, own) ==
  IF \E n \in DOMAIN rows : rows[n].key = k
    THEN rows ELSE Append(rows, [key |-> k, data |-> o, owned |-> own])

\* INSERT OR IGNORE: a row with this identity stays as it is, its incident_id too.
Store(rows, k, o, own) ==
  IF \E n \in DOMAIN rows : rows[n].key = k /\ rows[n].data = o
    THEN rows ELSE Append(rows, [key |-> k, data |-> o, owned |-> own])

\* The incident after a firing observation: created if it is new, else unchanged.
AfterFiring(inc) == [inc EXCEPT !.known = TRUE]

\* Mutant: the latest message wins.
AfterRecoveryLastWins(inc, end) == [inc EXCEPT !.resolved = end]

\* The incident after a matched recovery.
AfterRecovery(inc, end) ==
  IF inc.resolved = NoTime \/ StampAfter(end, inc.resolved)
    THEN [inc EXCEPT !.resolved = end] ELSE inc

\* The next observation of the batch.
ObserveFiring ==
  LET o == Head(tx.todo)
      k == Canonical(o, tx.at)
  IN /\ tx.open
     /\ tx.todo # <<>>
     /\ o.status = "firing"
     /\ tx' = [tx EXCEPT !.todo = Tail(@), !.ids = @ \cup {k},
                         !.incidents[k] = AfterFiring(@),
                         !.observations = Store(@, k, o, TRUE)]
     /\ UNCHANGED <<incidents, observations, runs, idem, now>>

\* A recovery of a known incident.
ObserveRecovery ==
  LET o == Head(tx.todo)
      k == Canonical(o, tx.at)
  IN /\ tx.open
     /\ tx.todo # <<>>
     /\ o.status = "resolved"
     /\ tx.incidents[k].known
     /\ tx' = [tx EXCEPT !.todo = Tail(@),
                         !.incidents[k] = AfterRecovery(@, o.end),
                         !.observations = Store(@, k, o, TRUE)]
     /\ UNCHANGED <<incidents, observations, runs, idem, now>>

\* An unmatched recovery is audited and creates nothing.
ObserveUnmatched ==
  LET o == Head(tx.todo)
      k == Canonical(o, tx.at)
  IN /\ tx.open
     /\ tx.todo # <<>>
     /\ o.status = "resolved"
     /\ ~tx.incidents[k].known
     /\ tx' = [tx EXCEPT !.todo = Tail(@), !.observations = Store(@, k, o, FALSE)]
     /\ UNCHANGED <<incidents, observations, runs, idem, now>>

-----------------------------------------------------------------------------
(* insertRun                                                               *)

\* The observation with the highest rowid of incident k, as a set of at most one.
LatestOf(rows, k) ==
  LET mine == {n \in DOMAIN rows : rows[n].owned /\ rows[n].key = k}
  IN {n \in mine : \A m \in mine : m <= n}

NewRun(business, ids, rows) ==
  [business |-> business, of |-> ids, evidence |-> UNION {LatestOf(rows, k) : k \in ids}]

\* latest_run_id of every incident of the run.
Linked(incs, ids, n) ==
  [k \in Incidents |-> IF k \in ids THEN [incs[k] EXCEPT !.latest = n] ELSE incs[k]]

PolicyKey(ids) == [kind |-> "policy", of |-> ids]
Exists(business) == \E n \in DOMAIN runs : runs[n].business = business

\* The batch asks for no run, or for one that exists: what was observed is committed.
CommitObserved ==
  /\ tx.open
  /\ tx.todo = <<>>
  /\ tx.ids = {} \/ Exists(PolicyKey(tx.ids))
  /\ incidents' = tx.incidents
  /\ observations' = tx.observations
  /\ tx' = NoTx
  /\ UNCHANGED <<runs, idem, now>>

\* A new run is inserted and committed with everything else.
CommitRun ==
  /\ tx.open
  /\ tx.todo = <<>>
  /\ tx.ids # {}
  /\ ~Exists(PolicyKey(tx.ids))
  /\ tx.ready
  /\ runs' = Append(runs, NewRun(PolicyKey(tx.ids), tx.ids, tx.observations))
  /\ incidents' = Linked(tx.incidents, tx.ids, Len(runs) + 1)
  /\ observations' = tx.observations
  /\ tx' = NoTx
  /\ UNCHANGED <<idem, now>>

\* Mutant: ErrUnavailable is returned after a commit.
UnavailableCommits ==
  /\ tx.open
  /\ tx.todo = <<>>
  /\ tx.ids # {}
  /\ ~Exists(PolicyKey(tx.ids))
  /\ ~tx.ready
  /\ incidents' = tx.incidents
  /\ observations' = tx.observations
  /\ tx' = NoTx
  /\ UNCHANGED <<runs, idem, now>>

\* A new run while the queue is down: ErrUnavailable, and the batch leaves no trace.
Unavailable ==
  /\ tx.open
  /\ tx.todo = <<>>
  /\ tx.ids # {}
  /\ ~Exists(PolicyKey(tx.ids))
  /\ ~tx.ready
  /\ tx' = NoTx
  /\ UNCHANGED <<incidents, observations, runs, idem, now>>

\* A statement fails, the request is cancelled, or the process exits.
Rollback ==
  /\ tx.open
  /\ tx' = NoTx
  /\ UNCHANGED <<incidents, observations, runs, idem, now>>

-----------------------------------------------------------------------------
(* ReDiagnose                                                              *)

\* Mutant: a request whose body differs from the stored one replaces the row.
ReDiagnosableIgnoringUse(k, key) == incidents[k].known /\ LatestOf(observations, k) # {}

\* Only an unused Idempotency-Key on an incident with an observation makes a run; a
\* used one returns its run or a conflict and writes nothing.
ReDiagnosable(k, key) ==
  /\ ~idem[<<k, key>>].used
  /\ incidents[k].known
  /\ LatestOf(observations, k) # {}

ManualRuns == {n \in DOMAIN runs : runs[n].business.kind = "manual"}

\* The transaction of ReDiagnose, when the queue is ready.
ReDiagnose(k, key, body) ==
  /\ ~tx.open
  /\ Cardinality(ManualRuns) < MaxManual
  /\ ReDiagnosable(k, key)
  /\ runs' = Append(runs, NewRun([kind |-> "manual", of |-> k, key |-> key], {k}, observations))
  /\ incidents' = Linked(incidents, {k}, Len(runs) + 1)
  /\ idem' = [idem EXCEPT ![<<k, key>>] = [used |-> TRUE, body |-> body, run |-> Len(runs) + 1]]
  /\ UNCHANGED <<observations, tx, now>>

\* The clock reaches a later window.
WindowPasses ==
  /\ now' \in {w \in Windows : w > now}
  /\ UNCHANGED <<incidents, observations, runs, idem, tx>>

Next ==
  \/ \E b \in Batches, ready \in BOOLEAN : BeginAdmit(b, ready)
  \/ ObserveFiring \/ ObserveRecovery \/ ObserveUnmatched
  \/ CommitObserved \/ CommitRun \/ Unavailable \/ Rollback
  \/ \E k \in Incidents, key \in Keys, body \in Bodies : ReDiagnose(k, key, body)
  \/ WindowPasses

Spec == Init /\ [][Next]_vars

-----------------------------------------------------------------------------
(* Properties                                                              *)

\* No alert is taken in and left undiagnosed: every incident, however its batch was
\* grouped, retried or refused, is covered by a run, and latest_run_id names the
\* newest run that covers it (insertRun; Admit rolls back when the queue is down).
LatestRunCovers ==
  \A k \in Incidents :
    LET covering == {n \in DOMAIN runs : k \in runs[n].of}
    IN IF incidents[k].known
         THEN incidents[k].latest \in covering /\ \A n \in covering : n <= incidents[k].latest
         ELSE covering = {}

\* A run never lacks the alert it is about: each of its incidents has its own
\* observation among the evidence, so insertRun's `continue' and ReDiagnose's
\* "observation unavailable" never happen, whatever unmatched recoveries came first.
RunsHaveAlertEvidence ==
  /\ \A k \in Incidents : incidents[k].known => LatestOf(observations, k) # {}
  /\ \A n \in DOMAIN runs : \A k \in runs[n].of :
       \E m \in runs[n].evidence : m \in DOMAIN observations /\ observations[m].key = k

\* resolved_at is never made up: the recovery it comes from is in the audit table
\* under the incident's key, even if it was first stored as unmatched.
ResolvedIsAudited ==
  \A k \in Incidents : incidents[k].resolved # NoTime =>
    \E n \in DOMAIN observations :
      /\ observations[n].key = k
      /\ observations[n].data.status = "resolved"
      /\ observations[n].data.end = incidents[k].resolved

\* An Idempotency-Key means one run for ever: its row never changes and it names a
\* manual run of that incident and key.
ReplaysAreStable ==
  [][\A s \in Incidents \X Keys : idem[s].used =>
       /\ idem'[s] = idem[s]
       /\ runs'[idem[s].run].business = [kind |-> "manual", of |-> s[1], key |-> s[2]]]_vars

\* A resolved incident is never reopened by late or repeated firing observations, and a
\* late recovery does not roll resolved_at back to an earlier second, whatever the order
\* of arrival.  (Within a second it may: see StampAfter.)
RecoveryNeverRolledBack ==
  [][\A k \in Incidents : incidents[k].resolved # NoTime =>
       /\ incidents'[k].resolved # NoTime
       /\ incidents'[k].resolved \div 2 >= incidents[k].resolved \div 2]_vars

=============================================================================
