---------------------------- MODULE EvidenceGraph ----------------------------
(***************************************************************************)
(* The evidence graph of one incident in one run: what the attempts of the *)
(* run record (internal/workspace/diagnosis.go), the graph that            *)
(* Service.Graph builds from one snapshot of it                            *)
(* (internal/workspace/readmodel.go), and the part around a focus that the *)
(* handler returns (Graph of internal/handler/workspace.go).               *)
(*                                                                         *)
(* A node is its type and its place among the recorded rows; an edge is    *)
(* its two ends.                                                           *)
(***************************************************************************)
EXTENDS Naturals, Sequences, FiniteSets, SequencesExt

CONSTANTS
  MaxRows,      \* bound: evidence rows
  MaxAttempts,  \* bound: attempts of the run
  NodeCap,      \* the nodes the handler asks Service.Graph for (300)
  EdgeCap,      \* the edges the handler asks Service.Graph for (600)
  NodeLimits,   \* values of the node_limit parameter
  EdgeLimits    \* values of the edge_limit parameter

ASSUME GraphAssumption ==
  /\ {MaxRows, MaxAttempts} \subseteq Nat
  /\ {NodeCap, EdgeCap} \cup NodeLimits \cup EdgeLimits \subseteq Nat \ {0}

VARIABLES
  evidence, \* the rows: kind, attempt, and the row of the retrieval that a chunk comes from
  attempt,  \* Run.CurrentAttempt
  report    \* Run.ReportText is set

graphVars == <<evidence, attempt, report>>

GraphInit ==
  /\ evidence = <<>>
  /\ attempt = 1
  /\ report = FALSE

-----------------------------------------------------------------------------
(* The run                                                                 *)

\* The attempt records its retrieval for the incident, and then the chunks it cites.
Retrieve ==
  /\ ~report /\ Len(evidence) < MaxRows
  /\ evidence' = Append(evidence, [kind |-> "retrieval", attempt |-> attempt, from |-> 0])
  /\ UNCHANGED <<attempt, report>>
Cite ==
  /\ ~report /\ evidence # <<>> /\ Len(evidence) < MaxRows
  /\ Last(evidence).attempt = attempt
  /\ LET from == IF Last(evidence).kind = "retrieval" THEN Len(evidence) ELSE Last(evidence).from
     IN evidence' = Append(evidence, [kind |-> "chunk", attempt |-> attempt, from |-> from])
  /\ UNCHANGED <<attempt, report>>
Finish ==
  /\ ~report
  /\ report' = TRUE
  /\ UNCHANGED <<evidence, attempt>>
\* The next attempt; what this one recorded stays.
Retry ==
  /\ ~report /\ attempt < MaxAttempts
  /\ attempt' = attempt + 1
  /\ UNCHANGED <<evidence, report>>

RunStep == Retrieve \/ Cite \/ Finish \/ Retry

-----------------------------------------------------------------------------
(* Service.Graph                                                           *)

Incident == <<"incident", 0>>
Alert == <<"alert", 0>>
Report == <<"report", 0>>
NodeOf(n) == <<evidence[n].kind, n>>

\* The k-th of some places, and what is kept of a sequence in the order it has.
Nth(places, k) == CHOOSE n \in places : Cardinality({m \in places : m <= n}) = k
Kept(s, places) == [k \in 1..Cardinality(places) |-> s[Nth(places, k)]]

\* The rows of the current attempt.
CurrentRows ==
  Kept([n \in DOMAIN evidence |-> n], {n \in DOMAIN evidence : evidence[n].attempt = attempt})

GraphNodes ==
  <<Incident, Alert>> \o (IF report THEN <<Report>> ELSE <<>>)
    \o [k \in DOMAIN CurrentRows |-> NodeOf(CurrentRows[k])]

\* The edges a row adds, the second one if there is a report.
EdgesPerRow == IF report THEN 2 ELSE 1
EdgeOf(n, i) ==
  CASE i = 1 /\ evidence[n].kind = "retrieval" -> <<Alert, NodeOf(n)>>
    [] i = 1 /\ evidence[n].kind = "chunk" -> <<NodeOf(evidence[n].from), NodeOf(n)>>
    [] i = 2 /\ evidence[n].kind = "retrieval" -> <<NodeOf(n), Report>>
    [] i = 2 /\ evidence[n].kind = "chunk" -> <<Report, NodeOf(n)>>

\* Row after row.
GraphEdges ==
  <<<<Incident, Alert>>>>
    \o [k \in 1..(EdgesPerRow * Len(CurrentRows)) |->
          EdgeOf(CurrentRows[((k - 1) \div EdgesPerRow) + 1], ((k - 1) % EdgesPerRow) + 1)]

First(s, n) == SubSeq(s, 1, IF Len(s) > n THEN n ELSE Len(s))
Among(edges, nodes) ==
  Kept(edges, {k \in DOMAIN edges : {edges[k][1], edges[k][2]} \subseteq ToSet(nodes)})

-----------------------------------------------------------------------------
(* The handler                                                             *)

\* The nodes after one more hop along the edges, in both directions.
Hop(nodes, edges) ==
  nodes \cup {e[2] : e \in {d \in ToSet(edges) : d[1] \in nodes}}
        \cup {e[1] : e \in {d \in ToSet(edges) : d[2] \in nodes}}

\* Mutant: what Service.Graph left out is forgotten.
OmittedHere(whole, capped, kept) == Len(capped) - Len(kept)

\* The count that Service.Graph left out, and what the handler leaves out.
Omitted(whole, capped, kept) == (Len(whole) - Len(capped)) + (Len(capped) - Len(kept))

\* The response to a request; depth 0 stands for a request without focus and depth, which
\* shows all nodes.  A focus that is not a node of the graph is refused.
View(focus, depth, nodeLimit, edgeLimit) ==
  LET nodes == First(GraphNodes, NodeCap)
      edges == First(Among(GraphEdges, nodes), EdgeCap)
      ball == CASE depth = 0 -> ToSet(nodes)
                [] depth = 1 -> Hop({focus}, edges)
                [] depth = 2 -> Hop(Hop({focus}, edges), edges)
      keptNodes == First(Kept(nodes, {k \in DOMAIN nodes : nodes[k] \in ball}), nodeLimit)
      keptEdges == First(Among(edges, keptNodes), edgeLimit)
      omitted == [nodes |-> Omitted(GraphNodes, nodes, keptNodes),
                  edges |-> Omitted(GraphEdges, edges, keptEdges)]
  IN [nodes |-> ToSet(keptNodes), edges |-> ToSet(keptEdges), omitted |-> omitted,
      truncated |-> omitted.nodes > 0 \/ omitted.edges > 0]

-----------------------------------------------------------------------------
(* Properties                                                              *)

Mine == {n \in DOMAIN evidence : evidence[n].attempt = attempt}
Total == [nodes |-> 2 + (IF report THEN 1 ELSE 0) + Cardinality(Mine),
          edges |-> 1 + (IF report THEN 2 ELSE 1) * Cardinality(Mine)]

\* The contract says of hidden nodes that they are not counted as absent.  Whatever attempts left
\* behind, and whatever focus, depth and limits a request has: the edges shown join nodes shown,
\* no row of an earlier attempt is shown, what is shown and what is omitted add up to all the
\* current attempt recorded, and a graph that is not marked truncated has every chunk joined to
\* its retrieval and every retrieval joined to the alert.
GraphIsHonest ==
  \A focus \in ToSet(First(GraphNodes, NodeCap)), depth \in 0..2,
     nodeLimit \in NodeLimits, edgeLimit \in EdgeLimits :
    LET v == View(focus, depth, nodeLimit, edgeLimit)
    IN /\ \A e \in v.edges : {e[1], e[2]} \subseteq v.nodes
       /\ v.nodes \subseteq {Incident, Alert, Report} \cup {NodeOf(n) : n \in Mine}
       /\ Cardinality(v.nodes) + v.omitted.nodes = Total.nodes
       /\ Cardinality(v.edges) + v.omitted.edges = Total.edges
       /\ ~v.truncated => \A n \in Mine :
            <<IF evidence[n].kind = "chunk" THEN NodeOf(evidence[n].from) ELSE Alert, NodeOf(n)>>
              \in v.edges

===============================================================================
