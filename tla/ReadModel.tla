------------------------------ MODULE ReadModel ------------------------------
(***************************************************************************)
(* What clients of the workspace API read while the workspace changes:     *)
(* pages and the timeline (Paging), the evidence graph (EvidenceGraph) and *)
(* the topology around an incident (Topology).  The parts share nothing    *)
(* but the client, which in one behaviour looks at one of them; steps of   *)
(* the others make no difference to it.                                    *)
(***************************************************************************)
EXTENDS Paging, EvidenceGraph, Topology

VARIABLE view  \* what the client looks at

vars == <<view, rows, flips, walk, stayed, events, poll, evidence, attempt, report,
          config, search>>

Views == {"pages", "events", "graph", "topology"}

Init ==
  /\ view \in Views
  /\ PagingInit /\ GraphInit /\ TopologyInit

Next ==
  \/ view = "pages" /\ PageStep /\ UNCHANGED <<view, pollVars, graphVars, topoVars>>
  \/ view = "events" /\ PollStep /\ UNCHANGED <<view, pageVars, graphVars, topoVars>>
  \/ view = "graph" /\ RunStep /\ UNCHANGED <<view, pageVars, pollVars, topoVars>>
  \/ view = "topology" /\ TopologyStep /\ UNCHANGED <<view, pageVars, pollVars, graphVars>>

Spec == Init /\ [][Next]_vars

===============================================================================
