---------------------------- MODULE RunLifecycle ----------------------------
(***************************************************************************)
(* What a diagnosis run promises to its readers (the evidence workspace    *)
(* pages, GET /reports, Alertmanager retries), whatever the queue, the     *)
(* workers and restarts do: it is accepted once, every execution of it is  *)
(* a new numbered attempt, and one attempt publishes one report, which is  *)
(* final and cites only evidence that this attempt recorded.               *)
(***************************************************************************)
EXTENDS Naturals

CONSTANTS Runs,      \* possible runs
          Evidence   \* pieces of evidence an attempt can record

VARIABLES life       \* what a reader sees of each run

States == {"absent", "queued", "running", "succeeded", "failed"}
Final == {"succeeded", "failed"}

\* cited: evidence with the attempt that recorded it; report: the attempt that wrote it.
Life == [state : States, attempt : Nat, cited : SUBSET (Nat \X Evidence), report : Nat]
Unborn == [state |-> "absent", attempt |-> 0, cited |-> {}, report |-> 0]

LifecycleTypeOK == life \in [Runs -> Life]

LifecycleInit == life = [r \in Runs |-> Unborn]

\* A request is accepted and gets its run.
Accept(r) ==
  /\ life[r].state = "absent"
  /\ life' = [life EXCEPT ![r].state = "queued"]

\* An execution begins, on a queued run or taking over from a lost execution.
Begin(r) ==
  /\ life[r].state \in {"queued", "running"}
  /\ life' = [life EXCEPT ![r].state = "running", ![r].attempt = @ + 1,
                          ![r].cited = {}, ![r].report = 0]

\* A restart ends the running attempt.
Interrupt(rs) ==
  /\ rs # {}
  /\ \A r \in rs : life[r].state = "running"
  /\ life' = [r \in Runs |->
                IF r \in rs
                  THEN [life[r] EXCEPT !.state = "queued", !.attempt = @ + 1]
                  ELSE life[r]]

\* The running attempt records a citation.
Cite(r, e) ==
  /\ life[r].state = "running"
  /\ life' = [life EXCEPT ![r].cited = @ \cup {<<life[r].attempt, e>>}]

\* The running attempt publishes the final report.
Publish(r, s) ==
  /\ life[r].state = "running"
  /\ life' = [life EXCEPT ![r].state = s, ![r].report = life[r].attempt]

LifecycleNext ==
  \/ \E r \in Runs :
       \/ Accept(r)
       \/ Begin(r)
       \/ \E e \in Evidence : Cite(r, e)
       \/ \E s \in Final : Publish(r, s)
  \/ \E rs \in SUBSET Runs : Interrupt(rs)

LifecycleSpec == LifecycleInit /\ [][LifecycleNext]_life

=============================================================================
