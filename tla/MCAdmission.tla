---------------------------- MODULE MCAdmission ----------------------------
(* Instances of Admission for TLC.  Half seconds: 2 is :01, 3 is :01.5.    *)
EXTENDS Admission

firing(l, s) == [labels |-> l, status |-> "firing", start |-> s, end |-> NoTime]
resolved(l, s, e) == [labels |-> l, status |-> "resolved", start |-> s, end |-> e]

\* "a" has a startsAt, on a window boundary; "b" has none.
MCBatches ==
  { <<firing("a", 0)>>,
    <<firing("b", NoTime), firing("a", 0), firing("b", NoTime)>>,
    <<firing("a", 0), resolved("a", 0, 7)>>,
    <<resolved("a", 0, 4)>>,
    <<resolved("b", 0, 6), resolved("a", 0, 6)>> }

=============================================================================
