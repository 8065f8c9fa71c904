--------------------------- MODULE MCRetrievalIndex ---------------------------
(* Instances of RetrievalIndex for TLC.                                      *)
EXTENDS RetrievalIndex

MCFleets == {{"server", "mcp"}, {"legacy"}}
MCTextOf == [b1 |-> <<"x", "y", "x">>, b2 |-> <<"y">>]
MCTitles == {<<>>, <<"y", "z">>}
MCDim == [m1 |-> 2, m2 |-> 2, m3 |-> 3]
\* The server may be given another model or another collection; the MCP process shares the
\* server's first collection.
MCConfigs ==
  [server |-> {[coll |-> "c1", model |-> "m1"], [coll |-> "c1", model |-> "m2"],
               [coll |-> "c2", model |-> "m2"]},
   mcp |-> {[coll |-> "c1", model |-> m] : m \in {"m1", "m2", "m3"}},
   legacy |-> {[coll |-> "c1", model |-> "m1"]}]
===============================================================================
