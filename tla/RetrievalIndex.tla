---------------------------- MODULE RetrievalIndex ----------------------------
(***************************************************************************)
(* The retrieval index as processes see it: Qdrant collections bound to    *)
(* one embedding space by a marker point (internal/store/qdrant.go), the   *)
(* probe that validates them (internal/workspace/readiness.go, and the     *)
(* start of the MCP process in cmd/server/main.go), the projection of the  *)
(* published versions with its BM25 index, and the fused search            *)
(* (internal/rag/rag.go, versions.go).                                     *)
(*                                                                         *)
(* The server and an MCP process share SQLite and the collections, and may *)
(* be started with different configurations.  Or there is one process of   *)
(* the kind before versions (internal/handler/docs.go): documents go to    *)
(* the store and the BM25 index chunk by chunk, unlocked.                  *)
(*                                                                         *)
(* A version has one chunk here, and its identifier holds the space: it is *)
(* <<document, body, space>>.  A space is its embedding model.             *)
(* How publication and cleanup may fail is the subject of Knowledge.       *)
(***************************************************************************)
EXTENDS BM25

CONSTANTS
  Fleets,      \* which processes there are: {"server", "mcp"} or {"legacy"}
  Docs, Bodies,\* documents and what they may say
  Terms,       \* the terms of texts
  TextOf,      \* the terms of a body
  Models, Dim, \* embedding models and their dimensions
  Collections, \* Qdrant collections
  Configs,     \* configurations, by process: sets of [coll, model]
  Titles,      \* the terms of a title, which is indexed with the body
  Jobs,        \* requests of the legacy process
  MaxBoots,    \* bound: process starts
  MaxWrites    \* bound: writes

None == <<>>
Unavailable == "unavailable"
Unmarked == "unmarked"

ASSUME RetrievalAssumption ==
  /\ \A f \in Fleets : f = {"legacy"} \/ f \subseteq {"server", "mcp"}
  /\ IsFiniteSet(Docs)
  /\ TextOf \in [Bodies -> Seq(Terms) \ {<<>>}] /\ Titles \subseteq Seq(Terms)
  /\ Dim \in [Models -> Nat \ {0}]
  /\ \A f \in Fleets : \A p \in f : Configs[p] \subseteq [coll : Collections, model : Models]
  /\ {Unavailable, Unmarked} \cap Models = {}
  /\ {MaxBoots, MaxWrites} \subseteq Nat

VARIABLES
  fleet,   \* the processes of this behaviour
  coll,    \* the collections: dimension (0: none yet), space of the marker, points
  active,  \* documents.data: the active version
  deleted, \* documents.data: deleted_at is set
  pending, \* versions with a pending cleanup row
  proc,    \* the processes
  job,     \* the requests of the legacy process: the operations they have to do
  boots, writes

vars == <<fleet, coll, active, deleted, pending, proc, job, boots, writes>>

Down == [pc |-> "down", coll |-> None, model |-> None, space |-> Unavailable, ok |-> FALSE,
         versioned |-> FALSE, chunks |-> {}, filter |-> [d \in Docs |-> None],
         index |-> EmptyIndex, v |-> None]
IdleJob == [pc |-> "idle", todo |-> <<>>]

Init ==
  /\ fleet \in Fleets
  /\ coll = [c \in Collections |-> [dim |-> 0, marker |-> Unmarked, points |-> {}]]
  /\ active = [d \in Docs |-> None]
  /\ deleted = {}
  /\ pending = {}
  /\ proc = [p \in fleet |-> Down]
  /\ job = [j \in Jobs |-> IdleJob]
  /\ boots = 0 /\ writes = 0

facts == <<active, deleted, pending>>

\* The collection that the process is configured for.
Own(p) == coll[proc[p].coll]
Goes(p, pc) == proc' = [proc EXCEPT ![p].pc = pc]

-----------------------------------------------------------------------------
(* The projection                                                          *)

Live(v) == active[v[1]] = v /\ v[1] \notin deleted

\* Mutant: versions of other spaces are published too.
PublishedAnySpace(space) == {v \in {active[d] : d \in Docs} \ {None} : Live(v)}

\* The versions that RestoreProjection finds in SQL for the space of the process.
Published(space) == {v \in {active[d] : d \in Docs} \ {None} : Live(v) /\ v[3] = space}

Entry(v) == [text |-> TextOf[v[2]], source |-> "upload"]

\* RestoreProjection: RestoreChunks adds, ActivateVersions replaces the filter.
Restored(pr, space) ==
  LET found == Published(space)
  IN [pr EXCEPT !.chunks = @ \cup found,
                !.index = Upsert(@, [v \in found |-> Entry(v)]),
                !.filter = [d \in Docs |-> IF active[d] \in found THEN active[d] ELSE None],
                !.versioned = TRUE]

-----------------------------------------------------------------------------
(* Starting and probing                                                    *)

Boot(p) ==
  /\ proc[p].pc = "down" /\ boots < MaxBoots
  /\ \E c \in Configs[p] :
       proc' = [proc EXCEPT ![p] = [Down EXCEPT !.pc = IF p = "legacy" THEN "idle" ELSE "compat",
                                             !.coll = c.coll, !.model = c.model]]
  /\ boots' = boots + 1
  /\ UNCHANGED <<fleet, coll, facts, job, writes>>

Exit(p) ==
  /\ proc[p].pc # "down"
  /\ proc' = [proc EXCEPT ![p] = Down]
  /\ job' = [j \in Jobs |-> IdleJob]
  /\ UNCHANGED <<fleet, coll, facts, boots, writes>>

\* The ticker calls ProbeRetrieval, which does not wait for the lock of writers.
Probe ==
  /\ proc["server"].pc = "idle"
  /\ Goes("server", "compat")
  /\ UNCHANGED <<fleet, coll, facts, job, boots, writes>>

\* The probe has an error: the MCP process exits, the server goes on without its source; at the
\* start it restores the projection of no space.
Failed(p) ==
  IF p = "mcp" THEN proc' = [proc EXCEPT ![p] = Down]
  ELSE LET pr == [proc[p] EXCEPT !.pc = "idle", !.ok = FALSE]
       IN proc' = [proc EXCEPT ![p] = IF pr.versioned THEN pr ELSE Restored(pr, pr.space)]

\* The probe is done: if the space is new to the process, its projection is restored.
Ready(p) ==
  LET pr == [proc[p] EXCEPT !.pc = "idle", !.ok = TRUE, !.space = proc[p].model]
  IN proc' = [proc EXCEPT ![p] = IF proc[p].space = proc[p].model THEN pr
                                 ELSE Restored(pr, proc[p].model)]

Probing == {"compat", "create", "marker", "count", "mark"}

\* The embedder or Qdrant does not answer.
ProbeFails(p) ==
  /\ proc[p].pc \in Probing
  /\ Failed(p)
  /\ UNCHANGED <<fleet, coll, facts, job, boots, writes>>

\* EnsureCompatible reads the dimension of the collection.
EnsureCompatible(p) ==
  /\ proc[p].pc = "compat"
  /\ \/ Own(p).dim = 0 /\ Goes(p, "create")
     \/ Own(p).dim = Dim[proc[p].model] /\ Goes(p, "marker")
     \/ Own(p).dim \notin {0, Dim[proc[p].model]} /\ Failed(p)
  /\ UNCHANGED <<fleet, coll, facts, job, boots, writes>>

\* It creates a collection that was not there; Qdrant refuses to if there is one by now.
CreateCollection(p) ==
  /\ proc[p].pc = "create"
  /\ \/ /\ Own(p).dim = 0
        /\ coll' = [coll EXCEPT ![proc[p].coll].dim = Dim[proc[p].model]]
        /\ Goes(p, "marker")
     \/ Own(p).dim # 0 /\ Failed(p) /\ UNCHANGED coll
  /\ UNCHANGED <<fleet, facts, job, boots, writes>>

\* EnsureSpace reads the marker.
EnsureSpace(p) ==
  /\ proc[p].pc = "marker"
  /\ \/ Own(p).marker = Unmarked /\ Goes(p, "count")
     \/ Own(p).marker = proc[p].model /\ Ready(p)
     \/ Own(p).marker \notin {Unmarked, proc[p].model} /\ Failed(p)
  /\ UNCHANGED <<fleet, coll, facts, job, boots, writes>>

\* Without a marker the collection must be empty.
CountPoints(p) ==
  /\ proc[p].pc = "count"
  /\ IF Own(p).marker = Unmarked /\ Own(p).points = {} THEN Goes(p, "mark") ELSE Failed(p)
  /\ UNCHANGED <<fleet, coll, facts, job, boots, writes>>

\* The marker is written, over one that another process may have written since.  The reply may
\* be lost.
WriteMarker(p) ==
  /\ proc[p].pc = "mark"
  /\ coll' = [coll EXCEPT ![proc[p].coll].marker = proc[p].model]
  /\ Ready(p) \/ Failed(p)
  /\ UNCHANGED <<fleet, facts, job, boots, writes>>

-----------------------------------------------------------------------------
(* Writes of the server, one at a time (knowledgeMu)                       *)

Server == proc["server"]
Write(v, pc) == proc' = [proc EXCEPT !["server"].v = v, !["server"].pc = pc]

\* PutDocument with the content of the active version, of whatever space: nothing is indexed.
PutSame(d, b) ==
  /\ Server.pc = "idle" /\ Server.ok
  /\ active[d] # None /\ Live(active[d]) /\ active[d][2] = b
  /\ Goes("server", "restore")
  /\ UNCHANGED <<fleet, coll, facts, job, boots, writes>>

\* PutDocument stages a version in the space of the process.
PutStage(d, b) ==
  /\ Server.pc = "idle" /\ Server.ok /\ writes < MaxWrites
  /\ ~(active[d] # None /\ Live(active[d]) /\ active[d][2] = b)
  /\ Write(<<d, b, Server.space>>, "index")
  /\ writes' = writes + 1
  /\ UNCHANGED <<fleet, coll, facts, job, boots>>

\* IndexVersion writes the point; its reply may be lost.
IndexVersion ==
  /\ Server.pc = "index"
  /\ coll' = [coll EXCEPT ![Server.coll].points = @ \cup {Server.v}]
  /\ Goes("server", "mirror") \/ Write(None, "idle")
  /\ UNCHANGED <<fleet, facts, job, boots, writes>>

\* IndexVersion gives the chunk to the BM25 index, where it is not eligible yet.
MirrorVersion ==
  /\ Server.pc = "mirror"
  /\ proc' = [proc EXCEPT !["server"].pc = "publish", !["server"].chunks = @ \cup {Server.v},
                          !["server"].index = Upsert(@, Single(Server.v, Entry(Server.v)))]
  /\ UNCHANGED <<fleet, coll, facts, job, boots, writes>>

\* The transaction that makes the version the active one.
Publish ==
  /\ Server.pc = "publish"
  /\ \/ /\ active' = [active EXCEPT ![Server.v[1]] = Server.v]
        /\ deleted' = deleted \ {Server.v[1]}
        /\ Write(None, "restore")
     \/ Write(None, "idle") /\ UNCHANGED <<active, deleted>>
  /\ UNCHANGED <<fleet, coll, pending, job, boots, writes>>

\* restorePublishedProjection
RestoreProjection ==
  /\ Server.pc = "restore"
  /\ proc' = [proc EXCEPT !["server"] = Restored([Server EXCEPT !.pc = "idle"], Server.space)]
  /\ UNCHANGED <<fleet, coll, facts, job, boots, writes>>

\* DeleteDocument
DeleteDocument(d) ==
  /\ Server.pc = "idle" /\ writes < MaxWrites
  /\ active[d] # None
  /\ deleted' = deleted \cup {d}
  /\ pending' = pending \cup {active[d]}
  /\ Goes("server", "restore")
  /\ writes' = writes + 1
  /\ UNCHANGED <<fleet, coll, active, job, boots>>

\* dispatchCleanup deletes the points in the collection of the process, unless the version is
\* active again.  Qdrant may fail: the row stays.
Cleanup(v) ==
  /\ Server.pc = "idle" /\ v \in pending
  /\ IF Live(v)
       THEN pending' = pending \ {v} /\ UNCHANGED <<coll, proc>>
       ELSE /\ Own("server").dim # 0
            /\ coll' = [coll EXCEPT ![Server.coll].points = @ \ {v}]
            /\ Write(v, "forget") \/ UNCHANGED proc
            /\ UNCHANGED pending
  /\ UNCHANGED <<fleet, active, deleted, job, boots, writes>>

\* Then the chunks go from memory, and the row from the outbox.
ForgetVersion ==
  /\ Server.pc = "forget"
  /\ proc' = [proc EXCEPT !["server"].pc = "idle", !["server"].v = None,
                          !["server"].chunks = @ \ {Server.v},
                          !["server"].index = RemoveEntries(@, {Server.v})]
  /\ pending' = pending \ {Server.v}
  /\ UNCHANGED <<fleet, coll, active, deleted, job, boots, writes>>

ServerStep ==
  \/ Probe \/ IndexVersion \/ MirrorVersion \/ Publish \/ RestoreProjection \/ ForgetVersion
  \/ \E d \in Docs : DeleteDocument(d) \/ \E b \in Bodies : PutSame(d, b) \/ PutStage(d, b)
  \/ \E v \in pending : Cleanup(v)

ProcessStep(p) ==
  \/ Boot(p) \/ Exit(p) \/ ProbeFails(p)
  \/ EnsureCompatible(p) \/ CreateCollection(p)
  \/ EnsureSpace(p) \/ CountPoints(p) \/ WriteMarker(p)

-----------------------------------------------------------------------------
(* The legacy process                                                      *)

\* An operation of AddDoc, DeleteDoc or DeleteSource; a chunk is its document and its body.
AddOp(d, b, title, source) ==
  [op |-> "add", id |-> <<d, b>>, entry |-> [text |-> title \o TextOf[b], source |-> source]]
DeleteOp(key, value) == [op |-> key, value |-> value]

\* Reindex deletes what came from the demo directory and adds what is there; IngestIncident
\* deletes the document and adds it.
Upload(d, b, title) == <<AddOp(d, b, title, "upload")>>
Delete(d) == <<DeleteOp("doc", d)>>
Reindex(d, b, title) == <<DeleteOp("source", "demo"), AddOp(d, b, title, "demo")>>
IngestIncident(d, b, title) == <<DeleteOp("doc", d), AddOp(d, b, title, "incident")>>

Requested(d, b, title) ==
  {Upload(d, b, title), Delete(d), Reindex(d, b, title), IngestIncident(d, b, title)}

Request(j) ==
  /\ proc["legacy"].pc = "idle" /\ job[j].pc = "idle" /\ writes < MaxWrites
  /\ \E d \in Docs, b \in Bodies, title \in Titles : \E todo \in Requested(d, b, title) :
       job' = [job EXCEPT ![j] = [pc |-> "store", todo |-> todo]]
  /\ writes' = writes + 1
  /\ UNCHANGED <<fleet, coll, facts, proc, boots>>

\* matchPoint, and the conditions of deleteDoc and deleteSource.
Matches(o, id, source) == IF o.op = "doc" THEN id[1] = o.value ELSE source = o.value

\* The operation is done in the store, or may be if the reply is lost; an error ends the
\* request.  A point of the store is its identifier and its source.
StoreOp(j) ==
  /\ job[j].pc = "store"
  /\ LET o == Head(job[j].todo)
         points == Own("legacy").points
     IN coll' = [coll EXCEPT ![proc["legacy"].coll].points =
                   IF o.op = "add"
                   THEN {pt \in points : pt[1] # o.id} \cup {<<o.id, o.entry.source>>}
                   ELSE {pt \in points : ~Matches(o, pt[1], pt[2])}]
  /\ job' \in {[job EXCEPT ![j].pc = "mirror"], [job EXCEPT ![j] = IdleJob]}
  /\ UNCHANGED <<fleet, facts, proc, boots, writes>>

\* And then in the BM25 index.
MirrorOp(j) ==
  /\ job[j].pc = "mirror"
  /\ LET o == Head(job[j].todo)
         old == proc["legacy"].index
         gone == {id \in DOMAIN old.docs : Matches(o, id, old.docs[id].source)}
         new == IF o.op = "add" THEN Upsert(old, Single(o.id, o.entry))
                ELSE RemoveEntries(old, gone)
     IN proc' = [proc EXCEPT !["legacy"].index = new]
  /\ job' = [job EXCEPT ![j] = IF Len(@.todo) = 1 THEN IdleJob
                               ELSE [pc |-> "store", todo |-> Tail(@.todo)]]
  /\ UNCHANGED <<fleet, coll, facts, boots, writes>>

LegacyStep == \E j \in Jobs : Request(j) \/ StoreOp(j) \/ MirrorOp(j)

-----------------------------------------------------------------------------
(* Specification                                                           *)

Next ==
  \/ \E p \in fleet : ProcessStep(p)
  \/ "server" \in fleet /\ ServerStep
  \/ "legacy" \in fleet /\ LegacyStep

Spec == Init /\ [][Next]_vars

-----------------------------------------------------------------------------
(* Search.  It holds projectionMu shared from the filter to the result, so *)
(* that it is as if done at the moment Qdrant answers.                     *)

\* currentFilter
InFilter(p, v) == v[1] \in Docs /\ proc[p].filter[v[1]] = v
\* eligible
Eligible(p, v) == v \in proc[p].chunks /\ InFilter(p, v)

Dense(p) == {v \in Own(p).points : InFilter(p, v)}
Sparse(p, query) ==
  Found(proc[p].index, query, {v \in DOMAIN proc[p].index.docs : Eligible(p, v)})

\* Qdrant has no collection, or one of another dimension: an error.
SearchFails(p) == Own(p).dim # Dim[proc[p].model]

\* searchFused with limits that nothing falls under: both routes are fused.
Search(p, query) == IF SearchFails(p) THEN {} ELSE Dense(p) \cup Sparse(p, query)

-----------------------------------------------------------------------------
(* Properties                                                              *)

\* The BM25 index keeps its counts by adding and subtracting (upsert, removeLocked).  In every
\* process and after every order of uploads that replace an entry by another text, deletions by
\* document, source and version, and restored projections: they are what a count from the
\* beginning gives, so that no score is computed from a term that is gone.
StatisticsAreExact == \A p \in fleet : proc[p].index = Recount(proc[p].index.docs)

\* Processes that search: the server listens and the MCP process answers once the projection
\* has been restored.
Searching == {p \in fleet : proc[p].versioned}

\* The specification demands that embedding spaces are not mixed, also if models have the same
\* dimension.  Two processes with different models may both find a collection without a marker
\* and both write one.  Whatever the markers say and however a process was restarted with another
\* configuration: a search finds only versions of the model that embeds its query, nothing before
\* the space is validated, and between two writes the server finds, of the versions of its space
\* with a term of the query, exactly the ones SQL says are active.
SearchStaysInSpace ==
  \A p \in Searching : \A t \in UNION {ToSet(TextOf[b]) : b \in Bodies} :
    LET hits == Search(p, {t})
        live == {v \in {active[d] : d \in Docs} \ {None} : Live(v) /\ v[3] = proc[p].model}
    IN /\ \A v \in hits : v[3] = proc[p].model /\ proc[p].space = proc[p].model
       /\ p = "server" /\ Server.pc = "idle" /\ Server.space = Server.model /\ ~SearchFails(p)
            => /\ Sparse(p, {t}) = {v \in live : t \in ToSet(TextOf[v[2]])}
               /\ Dense(p) \subseteq live

===============================================================================
