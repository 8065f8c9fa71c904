------------------------------ MODULE Knowledge ------------------------------
(***************************************************************************)
(* Knowledge documents: versions in SQLite, their vectors in Qdrant, the   *)
(* in-memory retrieval projection (BM25 chunks and the active filter), the *)
(* durable cleanup of deleted documents, and the diagnosis that searches   *)
(* and cites them (internal/workspace/knowledge.go, readiness.go,          *)
(* diagnosis.go, internal/rag/versions.go).                                *)
(*                                                                         *)
(* Writers hold knowledgeMu from their first read to their last write, a   *)
(* diagnosis holds it shared while it qualifies and records its hits, but  *)
(* it searches before.  Each SQL statement outside a transaction, each     *)
(* call to Qdrant and each transaction is a step: the process may exit or  *)
(* the call may fail between any two of them.                              *)
(*                                                                         *)
(* stableID and hash are injective here: a version is its document and its *)
(* body (content, title and environment); the embedding space is one.      *)
(***************************************************************************)
EXTENDS Naturals, FiniteSets

CONSTANTS
  Docs,        \* documents
  Demo,        \* those of the demo namespace, which /reindex owns
  Bodies,      \* what a document can say
  Keys,        \* values of Idempotency-Key
  Requests,    \* HTTP requests that write knowledge
  Kinds,       \* what the requests do
  Readers,     \* diagnoses
  NChunks,     \* chunks of a version
  MaxCleanups, \* bound: pending cleanup rows of one version
  Failures     \* "index", "purge", "sql", "probe", "exit": what may fail

AllKinds == {"create", "update", "upload", "reindex", "delete"}

ASSUME KnowledgeAssumption ==
  /\ NChunks \in Nat \ {0}
  /\ MaxCleanups \in Nat
  /\ Kinds \subseteq AllKinds
  /\ Docs # {} /\ Bodies # {}
  /\ IsFiniteSet(Requests)
  /\ Demo \subseteq Docs

Versions == Docs \X Bodies
None == <<>>        \* nil, "" or no row; not a version
Chunks == 1..NChunks

\* The scope of a create is shared by all documents; "legacy:" keys are made from the
\* body.
CreateScope == "create"
NoKey == "nokey"
Scopes == {CreateScope} \cup Docs
KeyNames == Keys \cup Bodies

VARIABLES
  doc,      \* documents.data
  ver,      \* document_versions.data
  rows,     \* versions with rows in the chunks table
  idem,     \* idempotency rows: the version they name (body hash and result agree)
  cleanup,  \* pending cleanup rows of the outbox, by version
  vec,      \* points in Qdrant
  mem,      \* RAG.chunks, by version, and RAG.active
  stale,    \* the last RestoreProjection of this process failed
  up, space, source,  \* process runs; SpaceID is known; sourceOK
  req, cleaner, reader  \* local states

sql == <<doc, ver, rows, idem, cleanup>>
srv == <<stale, up, space, source>>
vars == <<doc, ver, rows, idem, cleanup, vec, mem, stale, up, space, source,
          req, cleaner, reader>>

Doc == [known : BOOLEAN, active : Versions \cup {None}, deleted : BOOLEAN,
        index : {"pending", "indexed", "cleanup_pending", "removed"}]
NoDoc == [known |-> FALSE, active |-> None, deleted |-> FALSE, index |-> "pending"]
Ver == [status : {"absent", "staging", "active", "superseded"},
        index : {"pending", "failed", "indexed"}]
NoVer == [status |-> "absent", index |-> "pending"]
Mem == [chunks : SUBSET Versions, active : [Docs -> Versions \cup {None}]]
EmptyMem == [chunks |-> {}, active |-> [d \in Docs |-> None]]

\* v: the version the request would publish; expected: If-Match, or what the handler read.
Req == [pc : {"idle", "call", "check", "stage", "key", "index", "publish", "restore"},
        kind : AllKinds, v : Versions \cup {None}, expected : Versions \cup {None},
        scope : Scopes, key : KeyNames \cup {NoKey}, at : 1..(NChunks + 1)]
IdleReq == [pc |-> "idle", kind |-> "update", v |-> None, expected |-> None,
            scope |-> CreateScope, key |-> NoKey, at |-> 1]
Cleaner == [pc : {"idle", "purge", "settle"}, v : Versions \cup {None}]
IdleCleaner == [pc |-> "idle", v |-> None]
Reader == [pc : {"idle", "searched", "qualify", "cite"}, hits : SUBSET Versions,
           hit : Versions \cup {None}]
IdleReader == [pc |-> "idle", hits |-> {}, hit |-> None]

\* Types of all variables of the model.
TypeOK ==
  /\ doc \in [Docs -> Doc]
  /\ ver \in [Versions -> Ver]
  /\ rows \subseteq Versions
  /\ idem \in [Scopes \X KeyNames -> Versions \cup {None}]
  /\ cleanup \in [Versions -> 0..MaxCleanups]
  /\ vec \in [Versions -> SUBSET Chunks]
  /\ mem \in Mem
  /\ stale \in BOOLEAN /\ up \in BOOLEAN /\ space \in BOOLEAN /\ source \in BOOLEAN
  /\ req \in [Requests -> Req]
  /\ cleaner \in Cleaner
  /\ reader \in [Readers -> Reader]

Init ==
  /\ doc = [d \in Docs |-> NoDoc]
  /\ ver = [v \in Versions |-> NoVer]
  /\ rows = {}
  /\ idem = [k \in Scopes \X KeyNames |-> None]
  /\ cleanup = [v \in Versions |-> 0]
  /\ vec = [v \in Versions |-> {}]
  /\ mem = EmptyMem
  /\ stale = FALSE
  /\ up = TRUE /\ space = TRUE /\ source = TRUE
  /\ req = [w \in Requests |-> IdleReq]
  /\ cleaner = IdleCleaner
  /\ reader = [r \in Readers |-> IdleReader]

-----------------------------------------------------------------------------
(* knowledgeMu and the projection                                          *)

Writing == \/ \E w \in Requests : req[w].pc \notin {"idle", "call"}
           \/ cleaner.pc # "idle"
Reading == \E r \in Readers : reader[r].pc \in {"qualify", "cite"}

\* Mutant: writers do not exclude one another.
LockFreeOfReaders == ~Reading

\* Mutant: writers do not wait for a diagnosis.
LockFreeOfWriters == ~Writing

LockFree == ~Writing /\ ~Reading

\* The document's version is v and it is not deleted.
Live(v) == ~doc[v[1]].deleted /\ doc[v[1]].active = v

\* What RestoreProjection reads from SQL, given whether the SpaceID is known.
Published(known) == {v \in Versions : Live(v) /\ ver[v].status = "active" /\ known}
ActiveFilter(known) ==
  [d \in Docs |-> IF doc[d].active \in Published(known) THEN doc[d].active ELSE None]

\* Mutant: the filter is merged, not replaced.
RestoreProjectionMerges(known) ==
  mem' = [chunks |-> mem.chunks \cup Published(known),
          active |-> [d \in Docs |-> IF doc[d].active \in Published(known)
                                       THEN doc[d].active ELSE mem.active[d]]]

\* RestoreChunks adds, ActivateVersions replaces.
RestoreProjection(known) ==
  mem' = [chunks |-> mem.chunks \cup Published(known), active |-> ActiveFilter(known)]

-----------------------------------------------------------------------------
(* Requests.  The handler reads the document before PutDocument locks.     *)

\* Delete requests on their way, for the bound.
Deleting(v) ==
  Cardinality({w \in Requests : req[w].pc # "idle" /\ req[w].kind = "delete" /\ req[w].v = v})

\* A request is on its way to PutDocument or DeleteDocument.
Send(w, kind, v, expected, scope, key) ==
  /\ up
  /\ kind \in Kinds
  /\ req[w].pc = "idle"
  /\ req' = [req EXCEPT ![w] = [pc |-> "call", kind |-> kind, v |-> v, expected |-> expected,
                                scope |-> scope, key |-> key, at |-> 1]]
  /\ UNCHANGED <<sql, vec, mem, srv, cleaner, reader>>

\* POST /documents needs a key and names the document by its title.
Create(w, v, key) ==
  /\ source
  /\ v[1] \notin Demo
  /\ Send(w, "create", v, None, CreateScope, key)

\* PUT /documents/:id needs If-Match; the key is optional.
Update(w, v, expected, key) ==
  /\ source
  /\ expected[1] = v[1]
  /\ Send(w, "update", v, expected, v[1], key)

\* POST /upload makes its key from the body and expects the version of the moment.
Upload(w, v) ==
  LET d == doc[v[1]]
      found == d.known /\ ~d.deleted
  IN /\ source
     /\ v[1] \notin Demo
     /\ Send(w, "upload", v, IF found THEN d.active ELSE None,
             IF found THEN v[1] ELSE CreateScope, v[2])

\* One file of ReindexDemo, which expects the version of the moment.
ReindexDemo(w, v) ==
  /\ v[1] \in Demo
  /\ Send(w, "reindex", v, doc[v[1]].active, v[1], NoKey)

\* DELETE with If-Match, by title, or by ReindexDemo for a file that is gone.
Delete(w, v) ==
  /\ cleanup[v] + Deleting(v) < MaxCleanups
  /\ Send(w, "delete", v, v, v[1], NoKey)

Call(w, v) ==
  \/ \E key \in Keys : Create(w, v, key)
  \/ \E expected \in Versions, key \in Keys \cup {NoKey} : Update(w, v, expected, key)
  \/ Upload(w, v) \/ ReindexDemo(w, v) \/ Delete(w, v)

Step(w, pc) == req' = [req EXCEPT ![w].pc = pc]
Answer(w) == req' = [req EXCEPT ![w] = IdleReq]

Lock(w) ==
  /\ req[w].pc = "call"
  /\ LockFree
  /\ Step(w, "check")
  /\ UNCHANGED <<sql, vec, mem, srv, cleaner, reader>>

\* The idempotency row of the request.
KeyOf(q) == IF q.key = NoKey THEN None ELSE idem[<<q.scope, q.key>>]
Replayable(v) == ver[v].status \in {"active", "superseded"} /\ ver[v].index = "indexed"
Replay(q) == KeyOf(q) = q.v /\ Replayable(q.v)

\* The key was used for something else, the document is of the other namespace, or the
\* compare-and-swap fails.
Conflict(q) ==
  LET d == doc[q.v[1]]
  IN \/ KeyOf(q) # None /\ KeyOf(q) # q.v
     \/ /\ ~Replay(q)
        /\ \/ (q.kind = "reindex") # (q.v[1] \in Demo)
           \/ q.expected # None /\ q.expected # d.active
           \/ q.expected = None /\ d.active # None /\ d.active # q.v

\* INSERT OR IGNORE INTO idempotency
KeepKey(q) ==
  IF q.key # NoKey /\ KeyOf(q) = None
    THEN [idem EXCEPT ![<<q.scope, q.key>>] = q.v] ELSE idem

NothingToStage(q) == Replay(q) \/ Live(q.v)

PutConflict(w) ==
  /\ req[w].pc = "check"
  /\ req[w].kind # "delete"
  /\ Conflict(req[w])
  /\ Answer(w)
  /\ UNCHANGED <<sql, vec, mem, srv, cleaner, reader>>

\* A replay, or the body is the active one: only the projection is repaired.
PutSame(w) ==
  LET q == req[w]
  IN /\ q.pc = "check"
     /\ q.kind # "delete"
     /\ ~Conflict(q)
     /\ NothingToStage(q)
     /\ idem' = IF Replay(q) THEN idem ELSE KeepKey(q)
     /\ Step(w, "restore")
     /\ UNCHANGED <<doc, ver, rows, cleanup, vec, mem, srv, cleaner, reader>>

\* A new document gets its row; a version is to be staged.
PutBegin(w) ==
  LET q == req[w]
  IN /\ q.pc = "check"
     /\ q.kind # "delete"
     /\ ~Conflict(q)
     /\ ~NothingToStage(q)
     /\ doc' = [doc EXCEPT ![q.v[1]].known = TRUE]
     /\ Step(w, "stage")
     /\ UNCHANGED <<ver, rows, idem, cleanup, vec, mem, srv, cleaner, reader>>

\* The version row, new or that of an earlier life, is staging.  Without a SpaceID the
\* row belongs to no space and is never looked at again.
PutStage(w) ==
  LET q == req[w]
  IN /\ q.pc = "stage"
     /\ ver' = IF space THEN [ver EXCEPT ![q.v] = [status |-> "staging", index |-> "pending"]]
                        ELSE ver
     /\ Step(w, "key")
     /\ UNCHANGED <<doc, rows, idem, cleanup, vec, mem, srv, cleaner, reader>>

\* The key is recorded; without the source the version stays staging.
PutKey(w) ==
  LET q == req[w]
  IN /\ q.pc = "key"
     /\ idem' = KeepKey(q)
     /\ IF source THEN Step(w, "index") ELSE Answer(w)
     /\ UNCHANGED <<doc, ver, rows, cleanup, vec, mem, srv, cleaner, reader>>

LastChunk(at) == at = NChunks

\* IndexVersion: one chunk after the other, then all go to the BM25 index.
IndexChunk(w) ==
  LET q == req[w]
      done == LastChunk(q.at)
  IN /\ q.pc = "index"
     /\ vec' = [vec EXCEPT ![q.v] = @ \cup {q.at}]
     /\ mem' = IF done THEN [mem EXCEPT !.chunks = @ \cup {q.v}] ELSE mem
     /\ req' = [req EXCEPT ![w].at = @ + 1, ![w].pc = IF done THEN "publish" ELSE "index"]
     /\ UNCHANGED <<doc, ver, rows, idem, cleanup, srv, cleaner, reader>>

\* Embedding or upsert fails; a point whose reply was lost may be there.
IndexFails(w) ==
  LET q == req[w]
  IN /\ "index" \in Failures
     /\ q.pc = "index"
     /\ vec' \in {vec, [vec EXCEPT ![q.v] = @ \cup {q.at}]}
     /\ ver' = [ver EXCEPT ![q.v].index = "failed"]
     /\ Answer(w)
     /\ UNCHANGED <<doc, rows, idem, cleanup, mem, srv, cleaner, reader>>

\* Mutant: the chunk rows are written only when the table is empty.
WithRowsOfFirst(v) == IF rows = {} THEN {v} ELSE rows

\* INSERT OR IGNORE INTO chunks
WithRows(v) == rows \cup {v}

\* The transaction that switches the active version.
Publish(w) ==
  LET q == req[w]
      d == q.v[1]
  IN /\ q.pc = "publish"
     /\ ver' = [v \in Versions |->
                  CASE v = q.v -> [status |-> "active", index |-> "indexed"]
                    [] v # q.v /\ v = doc[d].active -> [ver[v] EXCEPT !.status = "superseded"]
                    [] OTHER -> ver[v]]
     /\ doc' = [doc EXCEPT ![d] = [known |-> TRUE, active |-> q.v, deleted |-> FALSE,
                                    index |-> "indexed"]]
     /\ rows' = WithRows(q.v)
     /\ idem' = IF q.key # NoKey THEN [idem EXCEPT ![<<q.scope, q.key>>] = q.v] ELSE idem
     /\ Step(w, "restore")
     /\ UNCHANGED <<cleanup, vec, mem, srv, cleaner, reader>>

\* restorePublishedProjection, with a budget of its own.
Restore(w) ==
  /\ req[w].pc = "restore"
  /\ RestoreProjection(space)
  /\ stale' = FALSE
  /\ Answer(w)
  /\ UNCHANGED <<sql, vec, up, space, source, cleaner, reader>>

\* Reading SQL for the projection fails after the commit.
RestoreFails(w) ==
  /\ "sql" \in Failures
  /\ req[w].pc = "restore"
  /\ stale' = TRUE
  /\ Answer(w)
  /\ UNCHANGED <<sql, vec, mem, up, space, source, cleaner, reader>>

\* A statement or a transaction fails before the commit, or the note of a failed index.
RequestFails(w) ==
  /\ "sql" \in Failures
  /\ req[w].pc \in {"check", "stage", "key", "index", "publish"}
  /\ Answer(w)
  /\ UNCHANGED <<sql, vec, mem, srv, cleaner, reader>>

DeleteConflict(w) ==
  LET q == req[w]
  IN /\ q.pc = "check"
     /\ q.kind = "delete"
     /\ doc[q.v[1]].active # q.expected
     /\ Answer(w)
     /\ UNCHANGED <<sql, vec, mem, srv, cleaner, reader>>

\* DeleteDocument: tombstone and cleanup row in one transaction.
Tombstone(w) ==
  LET q == req[w]
      d == q.v[1]
  IN /\ q.pc = "check"
     /\ q.kind = "delete"
     /\ doc[d].active = q.expected
     /\ doc' = [doc EXCEPT ![d].deleted = TRUE, ![d].index = "cleanup_pending"]
     /\ cleanup' = [cleanup EXCEPT ![q.expected] = @ + 1]
     /\ Step(w, "restore")
     /\ UNCHANGED <<ver, rows, idem, vec, mem, srv, cleaner, reader>>

-----------------------------------------------------------------------------
(* dispatchCleanup, within Dispatch                                        *)

CleanupLocks(v) ==
  /\ up
  /\ cleaner.pc = "idle"
  /\ cleanup[v] > 0
  /\ LockFree
  /\ cleaner' = [pc |-> "purge", v |-> v]
  /\ UNCHANGED <<sql, vec, mem, srv, req, reader>>

\* Mutant: cleanup trusts the row and does not look whether the version is active again.
PurgeAlways ==
  /\ cleaner.pc = "purge"
  /\ vec' = [vec EXCEPT ![cleaner.v] = {}]
  /\ mem' = [mem EXCEPT !.chunks = @ \ {cleaner.v}]
  /\ cleaner' = [cleaner EXCEPT !.pc = "settle"]
  /\ UNCHANGED <<sql, srv, req, reader>>

\* The version is purged from Qdrant and the BM25 index unless it is active again.
Purge ==
  /\ cleaner.pc = "purge"
  /\ vec' = IF Live(cleaner.v) THEN vec ELSE [vec EXCEPT ![cleaner.v] = {}]
  /\ mem' = IF Live(cleaner.v) THEN mem ELSE [mem EXCEPT !.chunks = @ \ {cleaner.v}]
  /\ cleaner' = [cleaner EXCEPT !.pc = "settle"]
  /\ UNCHANGED <<sql, srv, req, reader>>

\* Mutant: the row is given up when Qdrant fails.
PurgeFailsAndForgets ==
  /\ "purge" \in Failures
  /\ cleaner.pc = "purge"
  /\ ~Live(cleaner.v)
  /\ cleanup' = [cleanup EXCEPT ![cleaner.v] = @ - 1]
  /\ cleaner' = IdleCleaner
  /\ UNCHANGED <<doc, ver, rows, idem, vec, mem, srv, req, reader>>

\* Qdrant fails, before or after deleting: the row stays pending.
PurgeFails ==
  /\ "purge" \in Failures
  /\ cleaner.pc = "purge"
  /\ ~Live(cleaner.v)
  /\ vec' \in {vec, [vec EXCEPT ![cleaner.v] = {}]}
  /\ cleaner' = IdleCleaner
  /\ UNCHANGED <<sql, mem, srv, req, reader>>

\* The row is sent; the document, if it is still the deleted one, is removed.
SettleCleanup ==
  LET v == cleaner.v
      d == doc[v[1]]
  IN /\ cleaner.pc = "settle"
     /\ doc' = IF d.deleted /\ d.active = v THEN [doc EXCEPT ![v[1]].index = "removed"] ELSE doc
     /\ cleanup' = [cleanup EXCEPT ![v] = @ - 1]
     /\ cleaner' = IdleCleaner
     /\ UNCHANGED <<ver, rows, idem, vec, mem, srv, req, reader>>

SettleFails ==
  /\ "sql" \in Failures
  /\ cleaner.pc = "settle"
  /\ cleaner' = IdleCleaner
  /\ UNCHANGED <<sql, vec, mem, srv, req, reader>>

-----------------------------------------------------------------------------
(* diagnose, as far as knowledge is concerned                              *)

\* What a search can return with its identifiers: chunks of versions in the filter.
Searchable == {v \in mem.chunks : mem.active[v[1]] = v}

\* The search runs before the lock is taken; floor and ranking choose among the hits.
Search(r, hits) ==
  /\ up /\ source
  /\ reader[r].pc = "idle"
  /\ hits \subseteq Searchable /\ hits # {}
  /\ reader' = [reader EXCEPT ![r].pc = "searched", ![r].hits = hits]
  /\ UNCHANGED <<sql, vec, mem, srv, req, cleaner>>

RLock(r) ==
  /\ reader[r].pc = "searched"
  /\ ~Writing
  /\ reader' = [reader EXCEPT ![r].pc = "qualify"]
  /\ UNCHANGED <<sql, vec, mem, srv, req, cleaner>>

\* eligible: the version is still the document's, which is not deleted.
Eligible(v) == Live(v)

\* The next hit is qualified.
Qualify(r, v) ==
  /\ reader[r].pc = "qualify"
  /\ v \in reader[r].hits
  /\ reader' = [reader EXCEPT ![r].hits = @ \ {v},
                              ![r].hit = IF Eligible(v) THEN v ELSE None,
                              ![r].pc = IF Eligible(v) THEN "cite" ELSE "qualify"]
  /\ UNCHANGED <<sql, vec, mem, srv, req, cleaner>>

\* The transaction that records evidence and citation (DiagnosisRun has its effect).
Cite(r) ==
  /\ reader[r].pc = "cite"
  /\ reader' = [reader EXCEPT ![r].pc = "qualify", ![r].hit = None]
  /\ UNCHANGED <<sql, vec, mem, srv, req, cleaner>>

\* The hits of the incident are done.
RUnlock(r) ==
  /\ reader[r].pc = "qualify"
  /\ reader[r].hits = {}
  /\ reader' = [reader EXCEPT ![r] = IdleReader]
  /\ UNCHANGED <<sql, vec, mem, srv, req, cleaner>>

\* A read or a transaction fails: the lock is given up and the diagnosis ends.
RecordFails(r) ==
  /\ "sql" \in Failures
  /\ reader[r].pc \in {"qualify", "cite"}
  /\ reader' = [reader EXCEPT ![r] = IdleReader]
  /\ UNCHANGED <<sql, vec, mem, srv, req, cleaner>>

-----------------------------------------------------------------------------
(* ProbeRetrieval, exits and boot                                          *)

\* TryLock: a probe during a publication does nothing.  The first success makes the
\* space known and restores the projection.
ProbeSucceeds ==
  /\ up
  /\ LockFree
  /\ ~source
  /\ source' = TRUE
  /\ space' = TRUE
  /\ IF space THEN UNCHANGED mem ELSE RestoreProjection(TRUE)
  /\ UNCHANGED <<sql, vec, stale, up, req, cleaner, reader>>

\* The embedder or Qdrant does not answer.
ProbeFails ==
  /\ "probe" \in Failures
  /\ up
  /\ LockFree
  /\ source
  /\ source' = FALSE
  /\ UNCHANGED <<sql, vec, mem, stale, up, space, req, cleaner, reader>>

Exit ==
  /\ "exit" \in Failures
  /\ up
  /\ up' = FALSE
  /\ space' = FALSE /\ source' = FALSE /\ stale' = FALSE
  /\ mem' = EmptyMem
  /\ req' = [w \in Requests |-> IdleReq]
  /\ cleaner' = IdleCleaner
  /\ reader' = [r \in Readers |-> IdleReader]
  /\ UNCHANGED <<sql, vec>>

\* The boot probes once and restores the projection, or does not come up.
Boot ==
  /\ ~up
  /\ up' = TRUE
  /\ source' \in (IF "probe" \in Failures THEN BOOLEAN ELSE {TRUE})
  /\ space' = source'
  /\ RestoreProjection(source')
  /\ UNCHANGED <<sql, vec, stale, req, cleaner, reader>>

-----------------------------------------------------------------------------

PutDocument(w) ==
  \/ PutConflict(w) \/ PutSame(w) \/ PutBegin(w)
  \/ PutStage(w) \/ PutKey(w)
  \/ IndexChunk(w) \/ Publish(w)

DeleteDocument(w) == DeleteConflict(w) \/ Tombstone(w)

Request(w) == Lock(w) \/ PutDocument(w) \/ DeleteDocument(w) \/ Restore(w)

Diagnose(r) ==
  \/ RLock(r) \/ Cite(r) \/ RUnlock(r)
  \/ \E v \in Versions : Qualify(r, v)

Next ==
  \/ \E w \in Requests, v \in Versions : Call(w, v)
  \/ \E w \in Requests : Request(w)
  \/ \E w \in Requests : IndexFails(w) \/ RestoreFails(w) \/ RequestFails(w)
  \/ \E v \in Versions : CleanupLocks(v)
  \/ Purge \/ PurgeFails \/ SettleCleanup \/ SettleFails
  \/ \E r \in Readers, hits \in SUBSET Versions : Search(r, hits)
  \/ \E r \in Readers : Diagnose(r) \/ RecordFails(r)
  \/ ProbeSucceeds \/ ProbeFails
  \/ Exit \/ Boot

Spec == Init /\ [][Next]_vars

\* Goroutines go on, the ticker of main.go dispatches and probes, a stopped process is
\* started again.  Cleanup is retried for ever, so a lock, a Qdrant or a database that
\* is available again and again is met in the end.
Fairness ==
  /\ \A w \in Requests : WF_vars(Request(w))
  /\ \A r \in Readers : WF_vars(Diagnose(r))
  /\ \A v \in Versions : SF_vars(CleanupLocks(v))
  /\ SF_vars(Purge) /\ SF_vars(SettleCleanup)
  /\ WF_vars(Boot)

FairSpec == Spec /\ Fairness

-----------------------------------------------------------------------------
(* Properties                                                              *)

\* A document that is published and not deleted is complete everywhere it is served
\* from: its version row says so, its chunk rows exist, and all its points are in
\* Qdrant.  Failed and interrupted re-publications, and late cleanups, never take
\* anything away from it (PutDocument's early return, dispatchCleanup's re-check).
PublishedIsServable ==
  \A v \in Versions : Live(v) =>
    /\ ver[v] = [status |-> "active", index |-> "indexed"]
    /\ v \in rows
    /\ vec[v] = Chunks

\* Whenever no writer is at work, the in-memory filter is exactly what SQL says is
\* active, and knows its chunks, unless reading SQL for it failed: deletions and
\* replacements take effect at once, an outage at boot is made up for.
ProjectionFollowsSQL ==
  up /\ ~Writing /\ ~stale =>
    /\ mem.active = ActiveFilter(space)
    /\ Published(space) \subseteq mem.chunks

\* eligible never fails on a missing row: a hit, however old, resolves to chunk rows in
\* SQL (a missing row would abort the diagnosis).
HitsResolve == \A r \in Readers : reader[r].hits \subseteq rows

\* A report cites only what is active and not deleted at the moment the transaction of
\* the citation commits, though the search was made earlier, on a projection that may
\* be behind, and eligible read SQL before that transaction.
CitesWhatIsCurrent ==
  \A r \in Readers : reader[r].pc = "cite" => Live(reader[r].hit)

\* What a request still asks for, until the transaction that grants it.
WishOf(w) ==
  IF req[w].pc \in {"idle", "restore"} THEN [delete |-> FALSE, v |-> None, known |-> None]
  ELSE [delete |-> req[w].kind = "delete", v |-> req[w].v, known |-> req[w].expected]

Store == INSTANCE DocumentStore
  WITH Clients <- Requests,
       says <- [d \in Docs |-> [version |-> doc[d].active, deleted |-> doc[d].deleted]],
       wish <- [w \in Requests |-> WishOf(w)],
       cited <- [r \in Readers |-> IF reader[r].pc = "cite" THEN reader[r].hit ELSE None]

\* The three stores act as one: every step is a step of DocumentStore or none.  A publication
\* or a deletion takes effect once, in one transaction, on the version its client knew (no
\* lost update, also when two requests were on their way with the same If-Match) and never
\* under a citation; failed and interrupted requests, late cleanups, probes and restarts
\* change nothing of what a document says.
ImplementsStore == Store!StoreSpec

\* A deletion is completed: cleanup_pending ends with the points gone, or with the
\* document published again.
CleanupCompletes ==
  \A d \in Docs : doc[d].index = "cleanup_pending" ~> doc[d].index # "cleanup_pending"

\* An upload that is about to be answered with success is what the document now says.
UploadIsServed ==
  \A w \in Requests : req[w].pc = "restore" /\ req[w].kind = "upload" => Live(req[w].v)

=============================================================================
