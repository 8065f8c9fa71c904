------------------------------ MODULE MCReadModel ------------------------------
(* Instances of ReadModel for TLC.                                           *)
EXTENDS ReadModel

\* A focus that b and c depend on, c through b too, and d, which the focus depends on and which
\* depends on c: a cycle.
MCServices == {"f", "b", "c", "d"}
MCLinks == << <<"b", "f">>, <<"c", "b">>, <<"c", "f">>, <<"f", "d">>, <<"d", "c">> >>
MCIntervals == {[from |-> 0, to |-> 2], [from |-> 0, to |-> 1], [from |-> 1, to |-> 2]}
===============================================================================
