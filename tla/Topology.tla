------------------------------- MODULE Topology -------------------------------
(***************************************************************************)
(* The declared service topology (internal/workspace/topology.go): a       *)
(* validated configuration is loaded at start, and ForService walks the    *)
(* links that are valid now from the service of an incident, once in both  *)
(* directions for what to show and once against the direction of the       *)
(* dependencies for what may be affected.                                  *)
(*                                                                         *)
(* A link is its source and its target, and stands for its source_ref too. *)
(* Instants are numbers, and a validity is a half-open interval.           *)
(***************************************************************************)
EXTENDS Naturals, Sequences, FiniteSets, SequencesExt, Functions, Tables

CONSTANTS
  Services,  \* the services of one environment
  Declarable,\* the links a configuration may hold, as a sequence of pairs, in file order
  Focus,     \* the service of the incident
  Instants,  \* instants of requests
  Intervals  \* validities: valid_from and valid_to, or an end after all instants

ASSUME TopologyAssumption ==
  /\ Focus \in Services
  /\ Declarable \in Seq(Services \X Services)
  /\ IsInjective(Declarable)
  /\ Instants \subseteq Nat
  /\ \A v \in Intervals : v \in [from : Nat, to : Nat] /\ v.from <= v.to

VARIABLES
  config,    \* the validity of the configuration and of each of its links
  search     \* the request: instant, queue, the service and the link it is at, what it has found

topoVars == <<config, search>>

Nothing == [validity |-> [from |-> 0, to |-> 0], links |-> <<>>]
NoSearch == [pc |-> "none", at |-> 0, queue |-> <<>>, id |-> Focus, link |-> 0, visible |-> {},
             impact |-> <<>>]

TopologyInit ==
  /\ config = Nothing
  /\ search = NoSearch

-----------------------------------------------------------------------------
(* Loading                                                                 *)

\* LoadTopology accepts a link whose validity lies within that of the configuration.
Within(v, whole) == whole.from <= v.from /\ v.to <= whole.to

\* LoadTopology at start.
Load ==
  /\ config = Nothing
  /\ \E whole \in Intervals, chosen \in SUBSET ToSet(Declarable) :
       \E v \in [chosen -> {i \in Intervals : Within(i, whole)}] :
         config' = [validity |-> whole, links |-> v]
  /\ UNCHANGED search

-----------------------------------------------------------------------------
(* ForService                                                              *)

Covers(v, t) == v.from <= t /\ t < v.to

\* The link is valid at the instant of the request.
Active(e) ==
  /\ e \in DOMAIN config.links
  /\ Covers(config.validity, search.at) /\ Covers(config.links[e], search.at)

\* The inner loops are past the last link; they see the links in file order.
LinksDone == search.link > Len(Declarable)

Begin ==
  /\ search.pc = "none" /\ config # Nothing
  /\ \E t \in Instants :
       search' = [pc |-> "both", at |-> t, queue |-> <<Focus>>, id |-> Focus,
                  link |-> Len(Declarable) + 1, visible |-> {Focus},
                  impact |-> [s \in {Focus} |-> <<>>]]
  /\ UNCHANGED config

\* Both loops take the next service from the queue.
TakeService ==
  /\ search.pc \in {"both", "reverse"} /\ LinksDone /\ search.queue # <<>>
  /\ search' = [search EXCEPT !.id = Head(search.queue), !.queue = Tail(search.queue), !.link = 1]
  /\ UNCHANGED config

\* One end of a link seen from the service in hand, in the search in both directions.
Show(found, here, there) ==
  IF here = search.id /\ there \notin found.visible
  THEN [found EXCEPT !.visible = @ \cup {there}, !.queue = Append(@, there)]
  ELSE found

\* The first loop looks at a link, from either end.
ShowLink ==
  /\ search.pc = "both" /\ ~LinksDone
  /\ LET e == Declarable[search.link]
         next == [search EXCEPT !.link = @ + 1]
     IN search' = IF Active(e) THEN Show(Show(next, e[1], e[2]), e[2], e[1]) ELSE next
  /\ UNCHANGED config

ShowEnds ==
  /\ search.pc = "both" /\ LinksDone /\ search.queue = <<>>
  /\ search' = [search EXCEPT !.pc = "reverse", !.queue = <<Focus>>, !.id = Focus]
  /\ UNCHANGED config

\* Mutant: the search for dependents follows links in their direction.
AffectsForward(found, e) ==
  IF e[1] = search.id /\ e[2] \notin DOMAIN found.impact
  THEN [found EXCEPT !.impact = With(@, e[2], Append(@[search.id], e)),
                     !.queue = Append(@, e[2])]
  ELSE found

\* One link seen from the service in hand, in the search for dependents: its source is affected
\* by what affects the service, along the links that led there and this one.
Affects(found, e) ==
  IF e[2] = search.id /\ e[1] \notin DOMAIN found.impact
  THEN [found EXCEPT !.impact = With(@, e[1], Append(@[search.id], e)),
                     !.queue = Append(@, e[1])]
  ELSE found

\* The second loop looks at a link.
ReverseLink ==
  /\ search.pc = "reverse" /\ ~LinksDone
  /\ LET e == Declarable[search.link]
         next == [search EXCEPT !.link = @ + 1]
     IN search' = IF Active(e) THEN Affects(next, e) ELSE next
  /\ UNCHANGED config

ReverseEnds ==
  /\ search.pc = "reverse" /\ LinksDone /\ search.queue = <<>>
  /\ search' = [search EXCEPT !.pc = "done"]
  /\ UNCHANGED config

\* The context of the request ends; both loops look at it before they take a service.
Cancelled ==
  /\ search.pc \in {"both", "reverse"} /\ LinksDone
  /\ search' = [NoSearch EXCEPT !.pc = "cancelled"]
  /\ UNCHANGED config

TopologyStep ==
  \/ Load \/ Begin \/ TakeService \/ ShowLink \/ ShowEnds \/ ReverseLink \/ ReverseEnds
  \/ Cancelled

-----------------------------------------------------------------------------
(* Properties                                                              *)

ActiveSet == {e \in ToSet(Declarable) : Active(e)}

\* S is the smallest set with the focus that the links in R do not lead out of.
Closed(S, R) == \A e \in R : e[1] \in S => e[2] \in S
IsReach(S, R) ==
  /\ Focus \in S /\ Closed(S, R)
  /\ \A T \in SUBSET S : Focus \in T /\ Closed(T, R) => T = S

Reversed(R) == {<<e[2], e[1]>> : e \in R}

\* The path is made of active links and leads from service s to the focus.
IsPath(p, s) ==
  /\ ToSet(p) \subseteq ActiveSet
  /\ IF p = <<>> THEN s = Focus
     ELSE /\ p[1][2] = Focus /\ Last(p)[1] = s
          /\ \A n \in 1..(Len(p) - 1) : p[n + 1][2] = p[n][1]

\* What ForService reports, with cycles and links that are not valid now in the configuration:
\* the services shown are those connected to the focus, the ones potentially affected are those
\* that depend on it directly or not, and the links given as the reason form a path between them.
TopologyIsReachability ==
  search.pc = "done" =>
    /\ IsReach(search.visible, ActiveSet \cup Reversed(ActiveSet))
    /\ IsReach(DOMAIN search.impact, Reversed(ActiveSet))
    /\ \A s \in DOMAIN search.impact : IsPath(search.impact[s], s)

===============================================================================
