-------------------------- MODULE Knowledge_proofs --------------------------
(***************************************************************************)
(* Proofs about Knowledge, for any number of documents, bodies, chunks,    *)
(* requests and diagnoses, and whatever fails.  The inductive invariant    *)
(* says what knowledgeMu protects at each point of PutDocument,            *)
(* DeleteDocument, dispatchCleanup and diagnose; from it follows that      *)
(* Knowledge implements DocumentStore.                                     *)
(***************************************************************************)
EXTENDS Knowledge, FiniteSetTheorems, TLAPS

-----------------------------------------------------------------------------
(* The inductive invariant                                                 *)

\* The request holds knowledgeMu.
Busy(w) == req[w].pc \notin {"idle", "call"}

\* PutDocument is between its check and the end of its publication.
Staged(q) == q.pc \in {"stage", "key", "index", "publish"}

\* One writer or any number of diagnoses hold knowledgeMu.
Mutex ==
  /\ \A w, u \in Requests : Busy(w) /\ Busy(u) => w = u
  /\ \A w \in Requests : Busy(w) => cleaner.pc = "idle"
  /\ Reading => ~Writing

\* A request under way names a version; a deletion expects the version it deletes and stages
\* nothing.
RequestSound(q) ==
  /\ q.pc # "idle" => q.v \in Versions
  /\ q.pc # "idle" /\ q.kind = "delete" => q.expected = q.v
  /\ q.pc \in {"stage", "key", "index", "publish"} => q.kind # "delete"
  /\ q.pc \in {"call", "check", "stage", "key"} => q.at = 1

\* What is being staged is not served, replaces what the client expects, and has its
\* points up to the next chunk.
StagedSound(q) ==
  Staged(q) =>
    /\ ~Live(q.v)
    /\ doc[q.v[1]].active \in {q.expected, q.v}
    /\ q.pc = "index" => q.at \in Chunks /\ \A c \in Chunks : c < q.at => c \in vec[q.v]
    /\ q.pc = "publish" => vec[q.v] = Chunks

\* A cleanup under way has its row.
CleanerSound ==
  cleaner.pc # "idle" => cleaner.v \in Versions /\ cleanup[cleaner.v] > 0

\* Deletions of v whose cleanup row is not written yet.
Due(v) ==
  {w \in Requests : req[w].pc \in {"call", "check"} /\ req[w].kind = "delete" /\ req[w].v = v}

\* The bound on cleanup rows is kept.
CleanupsBounded == \A v \in Versions : cleanup[v] + Cardinality(Due(v)) <= MaxCleanups

\* The filter follows SQL except between a commit and its restore.
Projected ==
  /\ mem.active = ActiveFilter(space)
  /\ Published(space) \subseteq mem.chunks
ProjectionSound ==
  up /\ ~stale /\ (\A w \in Requests : req[w].pc # "restore") => Projected

\* The active version of a document is one of its own.
OwnVersions == \A d \in Docs : doc[d].active # None => doc[d].active[1] = d

\* Whatever the filter holds has its rows, also when it is behind.
FilterSound == \A d \in Docs : mem.active[d] # None => mem.active[d] \in rows

Inv ==
  /\ Mutex
  /\ \A w \in Requests : RequestSound(req[w]) /\ StagedSound(req[w])
  /\ CleanerSound
  /\ OwnVersions
  /\ PublishedIsServable
  /\ ProjectionSound
  /\ FilterSound
  /\ HitsResolve
  /\ CitesWhatIsCurrent

-----------------------------------------------------------------------------
(* Versions and requests                                                   *)

\* A version is a document and a body, and nil is none.
LEMMA VersionParts ==
  /\ None \notin Versions
  /\ \A v \in Versions : v[1] \in Docs /\ v[2] \in Bodies
  BY DEF None, Versions

PCs == {"idle", "call", "check", "stage", "key", "index", "publish", "restore"}

\* Request w goes on to pc; nothing else of it changes but perhaps its next chunk.
ReqMoved(w, pc, at) ==
  /\ req' \in [Requests -> Req]
  /\ req'[w].pc = pc /\ req'[w].at = at
  /\ req'[w].kind = req[w].kind /\ req'[w].v = req[w].v /\ req'[w].expected = req[w].expected
  /\ req'[w].scope = req[w].scope /\ req'[w].key = req[w].key
  /\ \A u \in Requests : u # w => req'[u] = req[u]

\* Request w is answered.
ReqAnswered(w) ==
  /\ req' \in [Requests -> Req]
  /\ req'[w] = IdleReq
  /\ \A u \in Requests : u # w => req'[u] = req[u]

\* Step moves a request.
LEMMA StepMoves ==
  ASSUME req \in [Requests -> Req], NEW w \in Requests, NEW pc \in PCs, Step(w, pc)
  PROVE  ReqMoved(w, pc, req[w].at)
<1>1. req' = [req EXCEPT ![w] = [req[w] EXCEPT !.pc = pc]]
  BY DEF Step
<1>2. req[w] \in Req
  OBVIOUS
<1>3. [req[w] EXCEPT !.pc = pc] \in Req
  BY <1>2 DEF Req, PCs
<1>4. /\ req' \in [Requests -> Req]
      /\ req'[w] = [req[w] EXCEPT !.pc = pc]
      /\ \A u \in Requests : u # w => req'[u] = req[u]
  BY <1>1, <1>3
<1> QED
  BY <1>2, <1>4 DEF ReqMoved, Req

\* Answering leaves the request idle.
LEMMA AnswerMoves ==
  ASSUME req \in [Requests -> Req], NEW w \in Requests, Answer(w)
  PROVE  ReqAnswered(w)
<1>1. IdleReq \in Req
  BY KnowledgeAssumption DEF IdleReq, Req, AllKinds, Scopes
<1> QED
  BY <1>1 DEF Answer, ReqAnswered

\* A chunk is indexed.
LEMMA ChunkMoves ==
  ASSUME req \in [Requests -> Req], NEW w \in Requests, IndexChunk(w), req[w].at \in Chunks
  PROVE  ReqMoved(w, IF req[w].at = NChunks THEN "publish" ELSE "index", req[w].at + 1)
<1> DEFINE pc == IF req[w].at = NChunks THEN "publish" ELSE "index"
           new == [req[w] EXCEPT !.at = req[w].at + 1, !.pc = pc]
<1>1. req[w] \in Req
  OBVIOUS
<1>2. req' = [req EXCEPT ![w] = new]
  BY <1>1 DEF IndexChunk, LastChunk
<1>3. req[w].at + 1 \in 1..(NChunks + 1)
  BY KnowledgeAssumption DEF Chunks
<1>4. /\ new \in Req /\ new.pc = pc /\ new.at = req[w].at + 1 /\ new.kind = req[w].kind
      /\ new.v = req[w].v /\ new.expected = req[w].expected
      /\ new.scope = req[w].scope /\ new.key = req[w].key
  BY <1>1, <1>3 DEF Req
<1> HIDE DEF new, pc
<1>5. /\ req' \in [Requests -> Req] /\ req'[w] = new
      /\ \A u \in Requests : u # w => req'[u] = req[u]
  BY <1>2, <1>4
<1> QED
  BY <1>4, <1>5 DEF ReqMoved, pc

\* What a request on its way looks like, and what it leaves alone.
ReqSent(w, kind, v, expected) ==
  /\ up
  /\ req[w].pc = "idle"
  /\ req' \in [Requests -> Req]
  /\ req'[w].pc = "call" /\ req'[w].kind = kind /\ req'[w].v = v
  /\ req'[w].expected = expected /\ req'[w].at = 1
  /\ \A u \in Requests : u # w => req'[u] = req[u]
  /\ kind = "delete" => expected = v /\ cleanup[v] + Deleting(v) < MaxCleanups
  /\ UNCHANGED <<sql, vec, mem, srv, cleaner, reader>>

\* Send puts a request on its way.
LEMMA SendSent ==
  ASSUME TypeOK, NEW w \in Requests, NEW kind \in AllKinds, NEW v \in Versions,
         NEW expected \in Versions \cup {None}, NEW scope \in Scopes,
         NEW key \in KeyNames \cup {NoKey}, Send(w, kind, v, expected, scope, key),
         kind = "delete" => expected = v /\ cleanup[v] + Deleting(v) < MaxCleanups
  PROVE  ReqSent(w, kind, v, expected)
<1> DEFINE new == [pc |-> "call", kind |-> kind, v |-> v, expected |-> expected,
                   scope |-> scope, key |-> key, at |-> 1]
<1>1. req \in [Requests -> Req]
  BY DEF TypeOK
<1>2. 1 \in 1..(NChunks + 1)
  BY KnowledgeAssumption
<1>3. new \in Req
  BY <1>2 DEF Req
<1>4. req' = [req EXCEPT ![w] = new] /\ up /\ req[w].pc = "idle"
  BY DEF Send
<1>5. new.pc = "call" /\ new.kind = kind /\ new.v = v /\ new.expected = expected /\ new.at = 1
  OBVIOUS
<1> HIDE DEF new
<1>6. /\ req' \in [Requests -> Req] /\ req'[w] = new
      /\ \A u \in Requests : u # w => req'[u] = req[u]
  BY <1>1, <1>3, <1>4
<1>7. UNCHANGED <<sql, vec, mem, srv, cleaner, reader>>
  BY DEF Send
<1> QED
  BY <1>4, <1>5, <1>6, <1>7 DEF ReqSent

\* Every request is sent to PutDocument or DeleteDocument.
LEMMA CallSends ==
  ASSUME TypeOK, NEW w \in Requests, NEW v \in Versions, Call(w, v)
  PROVE  \E kind \in AllKinds, expected \in Versions \cup {None} : ReqSent(w, kind, v, expected)
<1>1. v[1] \in Scopes /\ CreateScope \in Scopes /\ v[2] \in KeyNames /\ v[1] \in Docs
      /\ Keys \subseteq KeyNames /\ doc[v[1]] \in Doc
  BY VersionParts DEF Scopes, KeyNames, TypeOK
<1>2. doc[v[1]].active \in Versions \cup {None}
  BY <1>1 DEF Doc
<1>3. ASSUME NEW key \in Keys, Create(w, v, key)
      PROVE  ReqSent(w, "create", v, None)
  BY <1>1, <1>3, SendSent DEF Create, AllKinds
<1>4. ASSUME NEW expected \in Versions, NEW key \in Keys \cup {NoKey}, Update(w, v, expected, key)
      PROVE  ReqSent(w, "update", v, expected)
  BY <1>1, <1>4, SendSent DEF Update, AllKinds
<1>5. CASE Upload(w, v)
  <2>1. PICK expected \in Versions \cup {None}, scope \in Scopes :
          Send(w, "upload", v, expected, scope, v[2])
    BY <1>1, <1>2, <1>5 DEF Upload
  <2>2. ReqSent(w, "upload", v, expected)
    BY <1>1, <2>1, SendSent DEF AllKinds
  <2> QED
    BY <2>2 DEF AllKinds
<1>6. CASE ReindexDemo(w, v)
  <2>1. PICK expected \in Versions \cup {None} : Send(w, "reindex", v, expected, v[1], NoKey)
    BY <1>2, <1>6 DEF ReindexDemo
  <2>2. ReqSent(w, "reindex", v, expected)
    BY <1>1, <2>1, SendSent DEF AllKinds
  <2> QED
    BY <2>2 DEF AllKinds
<1>7. CASE Delete(w, v)
  <2>1. ReqSent(w, "delete", v, v)
    BY <1>1, <1>7, SendSent DEF Delete, AllKinds
  <2> QED
    BY <2>1 DEF AllKinds
<1> QED
  BY <1>3, <1>4, <1>5, <1>6, <1>7 DEF Call, AllKinds

-----------------------------------------------------------------------------
(* Types                                                                   *)

\* The tables a request may write, and the projection.
LEMMA WrittenTypes ==
  ASSUME TypeOK, NEW v \in Versions
  PROVE  /\ \A k \in Scopes \X KeyNames :
              [idem EXCEPT ![k] = v] \in [Scopes \X KeyNames -> Versions \cup {None}]
         /\ \A new \in Doc : [doc EXCEPT ![v[1]] = new] \in [Docs -> Doc]
         /\ \A new \in Ver : [ver EXCEPT ![v] = new] \in [Versions -> Ver]
         /\ \A new \in SUBSET Chunks : [vec EXCEPT ![v] = new] \in [Versions -> SUBSET Chunks]
         /\ doc[v[1]] \in Doc /\ ver[v] \in Ver /\ vec[v] \in SUBSET Chunks
  BY VersionParts DEF TypeOK

\* The key of a request that has one.
LEMMA KeyType ==
  ASSUME TypeOK, NEW q \in Req, q.v \in Versions
  PROVE  /\ q.key # NoKey => <<q.scope, q.key>> \in Scopes \X KeyNames
         /\ KeepKey(q) \in [Scopes \X KeyNames -> Versions \cup {None}]
<1>1. q.key # NoKey => <<q.scope, q.key>> \in Scopes \X KeyNames
  BY DEF Req
<1>2. CASE q.key # NoKey /\ KeyOf(q) = None
  <2>1. <<q.scope, q.key>> \in Scopes \X KeyNames
    BY <1>1, <1>2
  <2>2. KeepKey(q) = [idem EXCEPT ![<<q.scope, q.key>>] = q.v]
    BY <1>2 DEF KeepKey
  <2>3. [idem EXCEPT ![<<q.scope, q.key>>] = q.v] \in [Scopes \X KeyNames -> Versions \cup {None}]
    BY <2>1, WrittenTypes
  <2> QED
    BY <1>1, <2>2, <2>3
<1>3. CASE ~(q.key # NoKey /\ KeyOf(q) = None)
  BY <1>1, <1>3 DEF KeepKey, TypeOK
<1> QED
  BY <1>2, <1>3

\* The restored projection.
LEMMA RestoreType ==
  ASSUME TypeOK, NEW known \in BOOLEAN, RestoreProjection(known)
  PROVE  mem' \in Mem
<1>1. Published(known) \subseteq Versions
  BY DEF Published
<1>2. ActiveFilter(known) \in [Docs -> Versions \cup {None}]
  BY <1>1 DEF ActiveFilter
<1>3. mem.chunks \subseteq Versions
  BY DEF TypeOK, Mem
<1> QED
  BY <1>1, <1>2, <1>3 DEF RestoreProjection, Mem

\* Steps of PutDocument keep the types.
LEMMA PutType ==
  ASSUME TypeOK, Inv, NEW w \in Requests,
         PutDocument(w) \/ IndexFails(w)
  PROVE  TypeOK'
<1> DEFINE q == req[w]
<1>1. req \in [Requests -> Req] /\ q \in Req /\ RequestSound(q) /\ StagedSound(q)
  BY DEF TypeOK, Inv
<1>2. q.pc # "idle"
  BY DEF PutDocument, PutConflict, PutSame, PutBegin, PutStage, PutKey, IndexChunk, Publish,
         IndexFails
<1>3. q.v \in Versions /\ q.v[1] \in Docs
  BY <1>1, <1>2, VersionParts DEF RequestSound
<1>4. doc[q.v[1]] \in Doc /\ ver[q.v] \in Ver /\ vec[q.v] \in SUBSET Chunks
  BY <1>3, WrittenTypes
<1>5. CASE PutConflict(w)
  <2>1. req' \in [Requests -> Req]
    BY <1>1, <1>5, AnswerMoves DEF PutConflict, ReqAnswered
  <2> QED
    BY <1>5, <2>1 DEF PutConflict, TypeOK, sql, srv
<1>6. CASE PutSame(w)
  <2>1. req' \in [Requests -> Req]
    BY <1>1, <1>6, StepMoves DEF PutSame, ReqMoved, PCs
  <2>2. idem' \in [Scopes \X KeyNames -> Versions \cup {None}]
    BY <1>1, <1>3, <1>6, KeyType DEF PutSame, TypeOK
  <2> QED
    BY <1>6, <2>1, <2>2 DEF PutSame, TypeOK, sql, srv
<1>7. CASE PutBegin(w)
  <2>1. req' \in [Requests -> Req]
    BY <1>1, <1>7, StepMoves DEF PutBegin, ReqMoved, PCs
  <2>2. [doc[q.v[1]] EXCEPT !.known = TRUE] \in Doc
    BY <1>4 DEF Doc
  <2>3. doc' \in [Docs -> Doc]
    BY <1>3, <1>7, <2>2, WrittenTypes DEF PutBegin
  <2> QED
    BY <1>7, <2>1, <2>3 DEF PutBegin, TypeOK, sql, srv
<1>8. CASE PutStage(w)
  <2>1. req' \in [Requests -> Req]
    BY <1>1, <1>8, StepMoves DEF PutStage, ReqMoved, PCs
  <2>2. [status |-> "staging", index |-> "pending"] \in Ver
    BY DEF Ver
  <2>3. ver' \in [Versions -> Ver]
    BY <1>3, <1>8, <2>2, WrittenTypes DEF PutStage, TypeOK
  <2> QED
    BY <1>8, <2>1, <2>3 DEF PutStage, TypeOK, sql, srv
<1>9. CASE PutKey(w)
  <2>1. req' \in [Requests -> Req]
    BY <1>1, <1>9, StepMoves, AnswerMoves DEF PutKey, ReqMoved, ReqAnswered, PCs
  <2>2. idem' \in [Scopes \X KeyNames -> Versions \cup {None}]
    BY <1>1, <1>3, <1>9, KeyType DEF PutKey
  <2> QED
    BY <1>9, <2>1, <2>2 DEF PutKey, TypeOK, sql, srv
<1>10. CASE IndexChunk(w)
  <2>1. q.at \in Chunks
    BY <1>1, <1>10 DEF StagedSound, Staged, IndexChunk
  <2>2. req' \in [Requests -> Req]
    BY <1>1, <1>10, <2>1, ChunkMoves DEF ReqMoved
  <2>3. vec' \in [Versions -> SUBSET Chunks]
    BY <1>3, <1>4, <1>10, <2>1, WrittenTypes DEF IndexChunk
  <2>4. mem' \in Mem
    BY <1>3, <1>10 DEF IndexChunk, TypeOK, Mem
  <2> QED
    BY <1>10, <2>2, <2>3, <2>4 DEF IndexChunk, TypeOK, sql, srv
<1>11. CASE IndexFails(w)
  <2>1. q.at \in Chunks
    BY <1>1, <1>11 DEF StagedSound, Staged, IndexFails
  <2>2. req' \in [Requests -> Req]
    BY <1>1, <1>11, AnswerMoves DEF IndexFails, ReqAnswered
  <2>3. vec' \in [Versions -> SUBSET Chunks]
    BY <1>3, <1>4, <1>11, <2>1, WrittenTypes DEF IndexFails, TypeOK
  <2>4. [ver[q.v] EXCEPT !.index = "failed"] \in Ver
    BY <1>4 DEF Ver
  <2>5. ver' \in [Versions -> Ver]
    BY <1>3, <1>11, <2>4, WrittenTypes DEF IndexFails
  <2> QED
    BY <1>11, <2>2, <2>3, <2>5 DEF IndexFails, TypeOK, sql, srv
<1>12. CASE Publish(w)
  <2>1. req' \in [Requests -> Req]
    BY <1>1, <1>12, StepMoves DEF Publish, ReqMoved, PCs
  <2>2. [known |-> TRUE, active |-> q.v, deleted |-> FALSE, index |-> "indexed"] \in Doc
    BY <1>3 DEF Doc
  <2>3. doc' \in [Docs -> Doc]
    BY <1>3, <1>12, <2>2, WrittenTypes DEF Publish
  <2>4. /\ [status |-> "active", index |-> "indexed"] \in Ver
        /\ \A v \in Versions : [ver[v] EXCEPT !.status = "superseded"] \in Ver /\ ver[v] \in Ver
    BY DEF TypeOK, Ver
  <2>5. ver' \in [Versions -> Ver]
    BY <1>12, <2>4 DEF Publish
  <2>6. idem' \in [Scopes \X KeyNames -> Versions \cup {None}]
    <3>1. CASE q.key # NoKey
      <4>1. <<q.scope, q.key>> \in Scopes \X KeyNames
        BY <1>1, <1>3, <3>1, KeyType
      <4> QED
        BY <1>3, <1>12, <3>1, <4>1, WrittenTypes DEF Publish
    <3>2. CASE q.key = NoKey
      BY <1>12, <3>2 DEF Publish, TypeOK
    <3> QED
      BY <3>1, <3>2
  <2>7. rows' \subseteq Versions
    BY <1>3, <1>12 DEF Publish, WithRows, TypeOK
  <2> QED
    BY <1>12, <2>1, <2>3, <2>5, <2>6, <2>7 DEF Publish, TypeOK, sql, srv
<1> QED
  BY <1>5, <1>6, <1>7, <1>8, <1>9, <1>10, <1>11, <1>12 DEF PutDocument

\* Restores, deletions and failures keep the types; the bound keeps the cleanup rows
\* countable.
LEMMA RequestType ==
  ASSUME TypeOK, Inv, CleanupsBounded, NEW w \in Requests,
         \/ Lock(w) \/ DeleteDocument(w) \/ Restore(w)
         \/ RestoreFails(w) \/ RequestFails(w)
  PROVE  TypeOK'
<1> DEFINE q == req[w]
<1>1. req \in [Requests -> Req] /\ q \in Req /\ RequestSound(q)
  BY DEF TypeOK, Inv
<1>2. CASE Lock(w)
  <2>1. req' \in [Requests -> Req]
    BY <1>1, <1>2, StepMoves DEF Lock, ReqMoved, PCs
  <2> QED
    BY <1>2, <2>1 DEF Lock, TypeOK, sql, srv
<1>3. CASE DeleteConflict(w)
  <2>1. req' \in [Requests -> Req]
    BY <1>1, <1>3, AnswerMoves DEF DeleteConflict, ReqAnswered
  <2> QED
    BY <1>3, <2>1 DEF DeleteConflict, TypeOK, sql, srv
<1>4. CASE Tombstone(w)
  <2>1. req' \in [Requests -> Req]
    BY <1>1, <1>4, StepMoves DEF Tombstone, ReqMoved, PCs
  <2>2. /\ q.v \in Versions /\ q.expected = q.v /\ q.v[1] \in Docs /\ doc[q.v[1]] \in Doc
    BY <1>1, <1>4, VersionParts, WrittenTypes DEF Tombstone, RequestSound
  <2>3. [doc[q.v[1]] EXCEPT !.deleted = TRUE, !.index = "cleanup_pending"] \in Doc
    BY <2>2 DEF Doc
  <2>4. doc' = [doc EXCEPT ![q.v[1]] =
                  [doc[q.v[1]] EXCEPT !.deleted = TRUE, !.index = "cleanup_pending"]]
    BY <1>4, <2>2 DEF Tombstone, TypeOK
  <2>5. doc' \in [Docs -> Doc]
    BY <2>2, <2>3, <2>4, WrittenTypes
  <2>6. cleanup[q.v] + 1 \in 0..MaxCleanups
    <3>1. w \in Due(q.v)
      BY <1>4 DEF Due, Tombstone
    <3>2. IsFiniteSet(Due(q.v))
      BY KnowledgeAssumption, FS_Subset DEF Due
    <3>3. Cardinality(Due(q.v)) \in Nat /\ Cardinality(Due(q.v)) # 0
      BY <3>1, <3>2, FS_CardinalityType, FS_EmptySet
    <3>4. cleanup[q.v] \in 0..MaxCleanups /\ cleanup[q.v] + Cardinality(Due(q.v)) <= MaxCleanups
      BY <2>2 DEF TypeOK, CleanupsBounded
    <3> QED
      BY <3>3, <3>4, KnowledgeAssumption
  <2>7. cleanup' \in [Versions -> 0..MaxCleanups]
    BY <1>4, <2>2, <2>6 DEF Tombstone, TypeOK
  <2> QED
    BY <1>4, <2>1, <2>5, <2>7 DEF Tombstone, TypeOK, sql, srv
<1>5. CASE Restore(w)
  <2>1. req' \in [Requests -> Req]
    BY <1>1, <1>5, AnswerMoves DEF Restore, ReqAnswered
  <2>2. mem' \in Mem
    BY <1>5, RestoreType DEF Restore, TypeOK
  <2> QED
    BY <1>5, <2>1, <2>2 DEF Restore, TypeOK, sql, srv
<1>6. CASE RestoreFails(w) \/ RequestFails(w)
  <2>1. req' \in [Requests -> Req]
    BY <1>1, <1>6, AnswerMoves DEF RestoreFails, RequestFails, ReqAnswered
  <2> QED
    BY <1>6, <2>1 DEF RestoreFails, RequestFails, TypeOK, sql, srv
<1> QED
  BY <1>2, <1>3, <1>4, <1>5, <1>6 DEF DeleteDocument

\* Cleanup keeps the types.
LEMMA CleanerType ==
  ASSUME TypeOK, Inv,
         \/ \E v \in Versions : CleanupLocks(v)
         \/ Purge \/ PurgeFails \/ SettleCleanup \/ SettleFails
  PROVE  TypeOK'
<1>1. cleaner \in Cleaner /\ IdleCleaner \in Cleaner
  BY DEF TypeOK, Cleaner, IdleCleaner
<1>2. ASSUME NEW v \in Versions, CleanupLocks(v)
      PROVE  TypeOK'
  <2>1. cleaner' \in Cleaner
    BY <1>2 DEF CleanupLocks, Cleaner
  <2> QED
    BY <1>2, <2>1 DEF CleanupLocks, TypeOK, sql, srv
<1>3. cleaner.pc # "idle" => cleaner.v \in Versions /\ cleaner.v[1] \in Docs /\ cleanup[cleaner.v] > 0
  BY VersionParts DEF Inv, CleanerSound
<1>4. CASE Purge
  <2>1. cleaner.v \in Versions
    BY <1>3, <1>4 DEF Purge
  <2>2. [cleaner EXCEPT !.pc = "settle"] \in Cleaner
    BY <1>1 DEF Cleaner
  <2>3. vec' \in [Versions -> SUBSET Chunks]
    BY <1>4, <2>1 DEF Purge, TypeOK
  <2>4. mem' \in Mem
    BY <1>4 DEF Purge, TypeOK, Mem
  <2> QED
    BY <1>4, <2>2, <2>3, <2>4 DEF Purge, TypeOK, sql, srv
<1>5. CASE PurgeFails
  <2>1. cleaner.v \in Versions
    BY <1>3, <1>5 DEF PurgeFails
  <2>2. vec' \in [Versions -> SUBSET Chunks]
    BY <1>5, <2>1 DEF PurgeFails, TypeOK
  <2> QED
    BY <1>1, <1>5, <2>2 DEF PurgeFails, TypeOK, sql, srv
<1>6. CASE SettleCleanup
  <2> DEFINE v == cleaner.v
  <2>1. v \in Versions /\ v[1] \in Docs /\ cleanup[v] > 0 /\ doc[v[1]] \in Doc
    BY <1>3, <1>6 DEF SettleCleanup, TypeOK
  <2>2. [doc[v[1]] EXCEPT !.index = "removed"] \in Doc
    BY <2>1 DEF Doc
  <2>3. doc' \in [Docs -> Doc]
    BY <1>6, <2>1, <2>2 DEF SettleCleanup, TypeOK
  <2>4. cleanup[v] \in 0..MaxCleanups /\ cleanup[v] - 1 \in 0..MaxCleanups
    BY <2>1, KnowledgeAssumption DEF TypeOK
  <2>5. cleanup' \in [Versions -> 0..MaxCleanups]
    BY <1>6, <2>1, <2>4 DEF SettleCleanup, TypeOK
  <2> QED
    BY <1>1, <1>6, <2>3, <2>5 DEF SettleCleanup, TypeOK, sql, srv
<1>7. CASE SettleFails
  BY <1>1, <1>7 DEF SettleFails, TypeOK, sql, srv
<1> QED
  BY <1>2, <1>4, <1>5, <1>6, <1>7

\* What a diagnosis changes of its own state: it goes on to pc with these hits.
ReaderMoved(r, pc, hits, hit) ==
  /\ reader' \in [Readers -> Reader]
  /\ reader'[r].pc = pc /\ reader'[r].hits = hits /\ reader'[r].hit = hit
  /\ \A u \in Readers : u # r => reader'[u] = reader[u]
  /\ UNCHANGED <<sql, vec, mem, srv, req, cleaner>>

\* The steps of a diagnosis.
LEMMA ReaderSteps ==
  ASSUME TypeOK, NEW r \in Readers
  PROVE  /\ \A hits \in SUBSET Versions : Search(r, hits) =>
              ReaderMoved(r, "searched", hits, reader[r].hit)
         /\ RLock(r) => ReaderMoved(r, "qualify", reader[r].hits, reader[r].hit)
         /\ \A v \in Versions : Qualify(r, v) =>
              ReaderMoved(r, IF Eligible(v) THEN "cite" ELSE "qualify", reader[r].hits \ {v},
                          IF Eligible(v) THEN v ELSE None)
         /\ Cite(r) => ReaderMoved(r, "qualify", reader[r].hits, None)
         /\ RUnlock(r) \/ RecordFails(r) => ReaderMoved(r, "idle", {}, None)
<1>1. reader \in [Readers -> Reader] /\ reader[r] \in Reader
  BY DEF TypeOK
<1>2. ASSUME NEW hits \in SUBSET Versions, Search(r, hits)
      PROVE  ReaderMoved(r, "searched", hits, reader[r].hit)
  <2>1. reader' = [reader EXCEPT ![r] = [reader[r] EXCEPT !.pc = "searched", !.hits = hits]]
    BY <1>1, <1>2 DEF Search
  <2> QED
    BY <1>1, <1>2, <2>1 DEF Search, ReaderMoved, Reader
<1>3. ASSUME RLock(r)
      PROVE  ReaderMoved(r, "qualify", reader[r].hits, reader[r].hit)
  BY <1>1, <1>3 DEF RLock, ReaderMoved, Reader
<1>4. ASSUME NEW v \in Versions, Qualify(r, v)
      PROVE  ReaderMoved(r, IF Eligible(v) THEN "cite" ELSE "qualify", reader[r].hits \ {v},
                         IF Eligible(v) THEN v ELSE None)
  <2>1. reader' = [reader EXCEPT ![r] =
          [reader[r] EXCEPT !.hits = reader[r].hits \ {v},
                            !.hit = IF Eligible(v) THEN v ELSE None,
                            !.pc = IF Eligible(v) THEN "cite" ELSE "qualify"]]
    BY <1>1, <1>4 DEF Qualify
  <2> QED
    BY <1>1, <1>4, <2>1 DEF Qualify, ReaderMoved, Reader
<1>5. ASSUME Cite(r)
      PROVE  ReaderMoved(r, "qualify", reader[r].hits, None)
  <2>1. reader' = [reader EXCEPT ![r] = [reader[r] EXCEPT !.pc = "qualify", !.hit = None]]
    BY <1>1, <1>5 DEF Cite
  <2> QED
    BY <1>1, <1>5, <2>1 DEF Cite, ReaderMoved, Reader
<1>6. ASSUME RUnlock(r) \/ RecordFails(r)
      PROVE  ReaderMoved(r, "idle", {}, None)
  <2>1. IdleReader \in Reader /\ IdleReader.pc = "idle" /\ IdleReader.hits = {} /\ IdleReader.hit = None
    BY DEF IdleReader, Reader
  <2> QED
    BY <1>1, <1>6, <2>1 DEF RUnlock, RecordFails, ReaderMoved
<1> QED
  BY <1>2, <1>3, <1>4, <1>5, <1>6

-----------------------------------------------------------------------------
(* Steps that change nothing of what is served                             *)

\* Documents keep their active version and tombstone, and what is live keeps its
\* version row, its chunk rows and its points.
Untouched ==
  /\ \A d \in Docs : doc'[d].active = doc[d].active /\ doc'[d].deleted = doc[d].deleted
  /\ \A v \in Versions : Live(v) => ver'[v] = ver[v] /\ vec'[v] = vec[v]
  /\ rows' = rows
  /\ space' = space

\* Nothing becomes live or stops being it, and SQL says of the projection what it said.
LEMMA UntouchedKeeps ==
  ASSUME TypeOK, OwnVersions, PublishedIsServable, Untouched
  PROVE  /\ PublishedIsServable' /\ OwnVersions'
         /\ \A v \in Versions : Live(v)' <=> Live(v)
         /\ Published(space)' = Published(space)
         /\ ActiveFilter(space)' = ActiveFilter(space)
<1>1. \A v \in Versions : Live(v)' <=> Live(v)
  BY VersionParts DEF Untouched, Live
<1>2. PublishedIsServable' /\ OwnVersions'
  BY <1>1 DEF Untouched, PublishedIsServable, OwnVersions
<1>3. Published(space)' = Published(space)
  <2>1. \A v \in Versions : Live(v) => ver'[v].status = ver[v].status
    BY DEF Untouched
  <2> QED
    BY <1>1, <2>1 DEF Untouched, Published
<1>4. ActiveFilter(space)' = ActiveFilter(space)
  BY <1>3 DEF Untouched, ActiveFilter
<1> QED
  BY <1>1, <1>2, <1>3, <1>4

\* knowledgeMu stays held as it was, or is given up.
LEMMA MutexKept ==
  ASSUME Mutex,
         \A w \in Requests : Busy(w)' => Busy(w),
         cleaner'.pc # "idle" => cleaner.pc # "idle",
         \A r \in Readers : reader'[r].pc \in {"qualify", "cite"} =>
                            reader[r].pc \in {"qualify", "cite"}
  PROVE  Mutex'
<1>1. Writing' => Writing
  BY DEF Writing, Busy
<1>2. Reading' => Reading
  BY DEF Reading
<1> QED
  BY <1>1, <1>2 DEF Mutex

\* A request that holds knowledgeMu goes on and changes nothing of what is served.
RequestStep(w) ==
  /\ Busy(w)
  /\ \A u \in Requests : u # w => req'[u] = req[u]
  /\ RequestSound(req'[w])
  /\ StagedSound(req[w])'
  /\ req'[w].pc # "restore" => req[w].pc # "restore" \/ stale'
  /\ stale => stale'
  /\ Untouched
  /\ mem'.active = mem.active /\ mem.chunks \subseteq mem'.chunks
  /\ UNCHANGED <<up, cleaner, reader>>

\* Nobody else is anywhere near.
LEMMA OthersWait ==
  ASSUME Inv, NEW w \in Requests, Busy(w)
  PROVE  /\ cleaner.pc = "idle"
         /\ \A u \in Requests : u # w => req[u].pc \in {"idle", "call"}
         /\ \A r \in Readers : reader[r].pc \notin {"qualify", "cite"}
<1>1. Writing
  BY DEF Writing, Busy
<1> QED
  BY <1>1 DEF Inv, Mutex, Busy, Reading

\* Such a step keeps the invariant.
LEMMA RequestStepInv ==
  ASSUME TypeOK, Inv, NEW w \in Requests, RequestStep(w)
  PROVE  Inv'
<1>1. Busy(w) /\ UNCHANGED <<up, cleaner, reader>> /\ (\A u \in Requests : u # w => req'[u] = req[u])
  BY DEF RequestStep
<1>2. /\ cleaner.pc = "idle"
      /\ \A u \in Requests : u # w => req[u].pc \in {"idle", "call"}
      /\ \A r \in Readers : reader[r].pc \notin {"qualify", "cite"}
  BY <1>1, OthersWait
<1>3. /\ PublishedIsServable' /\ OwnVersions'
      /\ \A v \in Versions : Live(v)' <=> Live(v)
      /\ Published(space)' = Published(space)
      /\ ActiveFilter(space)' = ActiveFilter(space)
  BY UntouchedKeeps DEF Inv, RequestStep
<1>4. Mutex'
  <2>1. Mutex
    BY DEF Inv
  <2>2. \A u \in Requests : Busy(u)' => Busy(u)
    BY <1>1 DEF Busy
  <2> QED
    BY <1>1, <2>1, <2>2, MutexKept
<1>5. \A u \in Requests : RequestSound(req[u])' /\ StagedSound(req[u])'
  <2>1. RequestSound(req[w])' /\ StagedSound(req[w])'
    BY DEF RequestStep, RequestSound
  <2>2. ASSUME NEW u \in Requests, u # w
        PROVE  RequestSound(req[u])' /\ StagedSound(req[u])'
    <3>1. req'[u] = req[u] /\ req[u].pc \in {"idle", "call"} /\ RequestSound(req[u])
      BY <1>1, <1>2, <2>2 DEF Inv
    <3> QED
      BY <3>1 DEF RequestSound, StagedSound, Staged
  <2> QED
    BY <2>1, <2>2
<1>6. CleanerSound'
  BY <1>1, <1>2 DEF CleanerSound
<1>7. ProjectionSound'
  <2> SUFFICES ASSUME up', ~stale', \A u \in Requests : req'[u].pc # "restore"
               PROVE  Projected'
    BY DEF ProjectionSound
  <2>1. up /\ ~stale
    BY <1>1 DEF RequestStep
  <2>2. \A u \in Requests : req[u].pc # "restore"
    BY <1>2 DEF RequestStep
  <2>3. Projected
    BY <2>1, <2>2 DEF Inv, ProjectionSound
  <2> QED
    BY <1>3, <2>3 DEF Projected, RequestStep
<1>8. FilterSound' /\ HitsResolve'
  BY <1>1 DEF Inv, FilterSound, HitsResolve, RequestStep, Untouched
<1>9. CitesWhatIsCurrent'
  BY <1>1, <1>2 DEF CitesWhatIsCurrent
<1> QED
  BY <1>3, <1>4, <1>5, <1>6, <1>7, <1>8, <1>9 DEF Inv

\* A request that is answered before it writes anything that is served.
LEMMA AnsweredStep ==
  ASSUME TypeOK, Inv, NEW w \in Requests, Busy(w), req[w].pc # "restore" \/ stale',
         ReqAnswered(w), Untouched, stale => stale', UNCHANGED <<mem, up, cleaner, reader>>
  PROVE  Inv'
<1>1. req'[w].pc = "idle"
  BY DEF ReqAnswered, IdleReq
<1>2. RequestSound(req'[w]) /\ StagedSound(req[w])'
  BY <1>1 DEF RequestSound, StagedSound, Staged
<1>3. RequestStep(w)
  BY <1>1, <1>2 DEF RequestStep, ReqAnswered
<1> QED
  BY <1>3, RequestStepInv

\* PutDocument up to its publication, and the ways it may fail.
LEMMA PutInv ==
  ASSUME TypeOK, Inv, NEW w \in Requests,
         \/ PutConflict(w) \/ PutSame(w) \/ PutBegin(w) \/ PutStage(w) \/ PutKey(w)
         \/ IndexChunk(w) \/ IndexFails(w) \/ RequestFails(w) \/ RestoreFails(w)
         \/ DeleteConflict(w)
  PROVE  Inv'
<1> DEFINE q == req[w]
<1>1. req \in [Requests -> Req] /\ q \in Req /\ RequestSound(q) /\ StagedSound(q)
  BY DEF TypeOK, Inv
<1>2. Busy(w) /\ q.pc # "idle"
  BY DEF Busy, PutConflict, PutSame, PutBegin, PutStage, PutKey, IndexChunk, IndexFails,
         RequestFails, RestoreFails, DeleteConflict
<1>3. q.v \in Versions /\ q.v[1] \in Docs /\ doc[q.v[1]] \in Doc /\ ver[q.v] \in Ver
  BY <1>1, <1>2, VersionParts DEF RequestSound, TypeOK
<1>4. CASE PutConflict(w) \/ RequestFails(w) \/ DeleteConflict(w)
  <2>1. ReqAnswered(w) /\ q.pc # "restore" /\ UNCHANGED <<sql, vec, mem, srv, cleaner, reader>>
    BY <1>1, <1>4, AnswerMoves DEF PutConflict, RequestFails, DeleteConflict
  <2>2. Untouched
    BY <2>1 DEF Untouched, sql, srv
  <2> QED
    BY <1>2, <2>1, <2>2, AnsweredStep DEF srv
<1>5. CASE RestoreFails(w)
  <2>1. ReqAnswered(w) /\ stale' = TRUE /\ UNCHANGED <<sql, vec, mem, up, space, cleaner, reader>>
    BY <1>1, <1>5, AnswerMoves DEF RestoreFails
  <2>2. Untouched
    BY <2>1 DEF Untouched, sql
  <2> QED
    BY <1>2, <2>1, <2>2, AnsweredStep
<1>6. CASE PutSame(w)
  <2>1. ReqMoved(w, "restore", q.at)
    BY <1>1, <1>6, StepMoves DEF PutSame, PCs
  <2>2. Untouched
    BY <1>6 DEF PutSame, Untouched, srv
  <2>3. RequestSound(req'[w]) /\ StagedSound(req[w])'
    BY <1>1, <1>2, <2>1 DEF ReqMoved, RequestSound, StagedSound, Staged
  <2>4. RequestStep(w)
    BY <1>2, <1>6, <2>1, <2>2, <2>3 DEF PutSame, RequestStep, ReqMoved, srv
  <2> QED
    BY <2>4, RequestStepInv
<1>7. CASE PutBegin(w)
  <2>1. ReqMoved(w, "stage", q.at) /\ q.pc = "check"
    BY <1>1, <1>7, StepMoves DEF PutBegin, PCs
  <2>2. \A d \in Docs : doc'[d].active = doc[d].active /\ doc'[d].deleted = doc[d].deleted
    <3>1. doc' = [doc EXCEPT ![q.v[1]] = [doc[q.v[1]] EXCEPT !.known = TRUE]]
      BY <1>7 DEF PutBegin
    <3>2. /\ [doc[q.v[1]] EXCEPT !.known = TRUE].active = doc[q.v[1]].active
          /\ [doc[q.v[1]] EXCEPT !.known = TRUE].deleted = doc[q.v[1]].deleted
      BY <1>3 DEF Doc
    <3> QED
      BY <1>3, <3>1, <3>2 DEF TypeOK
  <2>3. Untouched
    BY <1>7, <2>2 DEF PutBegin, Untouched, srv
  <2>4. ~Live(q.v) /\ doc[q.v[1]].active \in {q.expected, q.v}
    BY <1>7 DEF PutBegin, NothingToStage, Conflict
  <2>5. ~Live(q.v)' /\ doc'[q.v[1]].active \in {q.expected, q.v}
    BY <1>3, <2>1, <2>2, <2>4 DEF Live, ReqMoved
  <2>6. RequestSound(req'[w])
    BY <1>1, <1>2, <1>7, <2>1 DEF ReqMoved, RequestSound, PutBegin
  <2>7. StagedSound(req[w])'
    BY <2>1, <2>5 DEF ReqMoved, StagedSound, Live
  <2>8. RequestStep(w)
    BY <1>2, <1>7, <2>1, <2>3, <2>6, <2>7 DEF PutBegin, RequestStep, ReqMoved, srv
  <2> QED
    BY <2>8, RequestStepInv
<1>8. CASE PutStage(w)
  <2>1. ReqMoved(w, "key", q.at) /\ q.pc = "stage"
    BY <1>1, <1>8, StepMoves DEF PutStage, PCs
  <2>2. ~Live(q.v) /\ doc[q.v[1]].active \in {q.expected, q.v} /\ doc' = doc
    BY <1>1, <1>8, <2>1 DEF StagedSound, Staged, PutStage
  <2>3. Untouched
    BY <1>8, <2>2 DEF PutStage, Untouched, srv, TypeOK
  <2>4. RequestSound(req'[w])
    BY <1>1, <1>2, <2>1 DEF ReqMoved, RequestSound
  <2>5. StagedSound(req[w])'
    BY <2>1, <2>2 DEF ReqMoved, StagedSound, Live
  <2>6. RequestStep(w)
    BY <1>2, <1>8, <2>1, <2>3, <2>4, <2>5 DEF PutStage, RequestStep, ReqMoved, srv
  <2> QED
    BY <2>6, RequestStepInv
<1>9. CASE PutKey(w) /\ source
  <2>1. ReqMoved(w, "index", q.at) /\ q.pc = "key"
    BY <1>1, <1>9, StepMoves DEF PutKey, PCs
  <2>2. ~Live(q.v) /\ doc[q.v[1]].active \in {q.expected, q.v} /\ doc' = doc
    BY <1>1, <1>9, <2>1 DEF StagedSound, Staged, PutKey
  <2>3. q.at = 1 /\ 1 \in Chunks /\ \A c \in Chunks : ~(c < 1)
    BY <1>1, <2>1, KnowledgeAssumption DEF RequestSound, Chunks
  <2>4. Untouched
    BY <1>9 DEF PutKey, Untouched, srv
  <2>5. RequestSound(req'[w])
    BY <1>1, <1>2, <2>1 DEF ReqMoved, RequestSound
  <2>6. StagedSound(req[w])'
    BY <2>1, <2>2, <2>3 DEF ReqMoved, StagedSound, Live
  <2>7. RequestStep(w)
    BY <1>2, <1>9, <2>1, <2>4, <2>5, <2>6 DEF PutKey, RequestStep, ReqMoved, srv
  <2> QED
    BY <2>7, RequestStepInv
<1>10. CASE PutKey(w) /\ ~source
  <2>1. ReqAnswered(w) /\ q.pc # "restore" /\ UNCHANGED <<doc, ver, rows, vec, mem, srv, cleaner, reader>>
    BY <1>1, <1>10, AnswerMoves DEF PutKey
  <2>2. Untouched
    BY <2>1 DEF Untouched, srv
  <2> QED
    BY <1>2, <2>1, <2>2, AnsweredStep DEF srv
<1>11. CASE IndexChunk(w)
  <2>1. q.pc = "index" /\ ~Live(q.v) /\ doc[q.v[1]].active \in {q.expected, q.v} /\ doc' = doc
        /\ q.at \in Chunks /\ \A c \in Chunks : c < q.at => c \in vec[q.v]
    BY <1>1, <1>11 DEF StagedSound, Staged, IndexChunk
  <2>2. ReqMoved(w, IF q.at = NChunks THEN "publish" ELSE "index", q.at + 1)
    BY <1>1, <1>11, <2>1, ChunkMoves
  <2>3. vec'[q.v] = vec[q.v] \cup {q.at} /\ \A v \in Versions : v # q.v => vec'[v] = vec[v]
    BY <1>3, <1>11 DEF IndexChunk, TypeOK
  <2>4. vec[q.v] \subseteq Chunks
    BY <1>3 DEF TypeOK
  <2>5. Untouched
    BY <1>11, <2>1, <2>3 DEF IndexChunk, Untouched, srv
  <2>6. RequestSound(req'[w])
    BY <1>1, <1>2, <2>1, <2>2 DEF ReqMoved, RequestSound
  <2>7. StagedSound(req[w])'
    <3>1. q.at \in Nat /\ NChunks \in Nat /\ (\A c \in Chunks : c \in Nat /\ c >= 1 /\ c <= NChunks)
      BY <2>1, KnowledgeAssumption DEF Chunks
    <3>2. CASE q.at = NChunks
      <4>1. vec'[q.v] = Chunks
        BY <2>1, <2>3, <2>4, <3>1, <3>2
      <4> QED
        BY <2>1, <2>2, <3>2, <4>1 DEF ReqMoved, StagedSound, Live
    <3>3. CASE q.at # NChunks
      <4>1. q.at + 1 \in Chunks
        BY <2>1, <3>1, <3>3 DEF Chunks
      <4>2. \A c \in Chunks : c < q.at + 1 => c \in vec'[q.v]
        BY <2>1, <2>3, <3>1
      <4> QED
        BY <2>1, <2>2, <3>3, <4>1, <4>2 DEF ReqMoved, StagedSound, Live
    <3> QED
      BY <3>2, <3>3
  <2>8. mem'.active = mem.active /\ mem.chunks \subseteq mem'.chunks
    BY <1>11 DEF IndexChunk, TypeOK, Mem
  <2>9. RequestStep(w)
    BY <1>2, <1>11, <2>1, <2>2, <2>5, <2>6, <2>7, <2>8 DEF IndexChunk, RequestStep, ReqMoved, srv
  <2> QED
    BY <2>9, RequestStepInv
<1>12. CASE IndexFails(w)
  <2>1. ReqAnswered(w) /\ q.pc = "index" /\ ~Live(q.v)
    BY <1>1, <1>12, AnswerMoves DEF IndexFails, StagedSound, Staged
  <2>2. \A v \in Versions : v # q.v => vec'[v] = vec[v] /\ ver'[v] = ver[v]
    BY <1>3, <1>12 DEF IndexFails, TypeOK
  <2>3. Untouched
    BY <1>12, <2>1, <2>2 DEF IndexFails, Untouched, srv
  <2> QED
    BY <1>2, <1>12, <2>1, <2>3, AnsweredStep DEF IndexFails, srv
<1> QED
  BY <1>4, <1>5, <1>6, <1>7, <1>8, <1>9, <1>10, <1>11, <1>12

-----------------------------------------------------------------------------
(* Commits and restores                                                    *)

\* What a restored projection holds is live, and so has its rows.
LEMMA RestoredFilter ==
  ASSUME TypeOK, PublishedIsServable, NEW known \in BOOLEAN, RestoreProjection(known)
  PROVE  /\ mem'.active = ActiveFilter(known)
         /\ Published(known) \subseteq mem'.chunks
         /\ \A d \in Docs : mem'.active[d] # None => mem'.active[d] \in rows
<1>1. mem'.active = ActiveFilter(known) /\ Published(known) \subseteq mem'.chunks
  BY DEF RestoreProjection
<1>2. \A v \in Published(known) : v \in rows
  BY DEF Published, PublishedIsServable
<1> QED
  BY <1>1, <1>2 DEF ActiveFilter

\* What an operation that holds knowledgeMu leaves to show, whatever it writes.
LEMMA WriterInv ==
  ASSUME TypeOK, Inv, NEW w \in Requests, Busy(w),
         \A u \in Requests : u # w => req'[u] = req[u],
         RequestSound(req'[w]), ~Staged(req'[w]), UNCHANGED <<cleaner, reader>>
  PROVE  /\ Mutex' /\ CleanerSound' /\ CitesWhatIsCurrent'
         /\ \A u \in Requests : RequestSound(req[u])' /\ StagedSound(req[u])'
<1>1. /\ cleaner.pc = "idle"
      /\ \A u \in Requests : u # w => req[u].pc \in {"idle", "call"}
      /\ \A r \in Readers : reader[r].pc \notin {"qualify", "cite"}
  BY OthersWait
<1>2. Mutex'
  <2>1. Mutex /\ \A u \in Requests : Busy(u)' => Busy(u)
    BY DEF Inv, Busy
  <2> QED
    BY <2>1, MutexKept
<1>3. ASSUME NEW u \in Requests
      PROVE  RequestSound(req[u])' /\ StagedSound(req[u])'
  <2>1. RequestSound(req'[u]) /\ ~Staged(req'[u])
    BY <1>1 DEF Inv, Staged
  <2> QED
    BY <2>1 DEF RequestSound, StagedSound, Staged
<1> QED
  BY <1>1, <1>2, <1>3 DEF CleanerSound, CitesWhatIsCurrent

\* The transaction that switches the active version.
LEMMA PublishInv ==
  ASSUME TypeOK, Inv, NEW w \in Requests, Publish(w)
  PROVE  Inv'
<1> DEFINE q == req[w]
           d == q.v[1]
<1>1. req \in [Requests -> Req] /\ q.pc = "publish" /\ RequestSound(q) /\ StagedSound(q)
  BY DEF TypeOK, Inv, Publish
<1>2. q.v \in Versions /\ d \in Docs /\ vec[q.v] = Chunks /\ Busy(w)
  BY <1>1, VersionParts DEF RequestSound, StagedSound, Staged, Busy
<1>3. ReqMoved(w, "restore", q.at) /\ UNCHANGED <<cleaner, reader>>
  BY <1>1, StepMoves DEF Publish, PCs
<1>4. RequestSound(req'[w]) /\ ~Staged(req'[w])
  BY <1>1, <1>3 DEF ReqMoved, RequestSound, Staged
<1>5. /\ Mutex' /\ CleanerSound' /\ CitesWhatIsCurrent'
      /\ \A u \in Requests : RequestSound(req[u])' /\ StagedSound(req[u])'
  BY <1>2, <1>3, <1>4, WriterInv DEF ReqMoved
<1>6. PublishedIsServable'
  <2> SUFFICES ASSUME NEW v \in Versions, ~doc'[v[1]].deleted, doc'[v[1]].active = v
               PROVE  /\ ver'[v] = [status |-> "active", index |-> "indexed"]
                      /\ v \in rows' /\ vec'[v] = Chunks
    BY DEF PublishedIsServable, Live
  <2>1. rows' = rows \cup {q.v} /\ vec' = vec
    BY DEF Publish, WithRows
  <2>2. CASE v = q.v
    BY <1>2, <2>1, <2>2 DEF Publish
  <2>3. CASE v # q.v
    <3>1. v[1] # d
      <4>1. doc'[d].active = q.v
        BY <1>2 DEF Publish, TypeOK
      <4> QED
        BY <2>3, <4>1
    <3>2. doc'[v[1]] = doc[v[1]] /\ v[1] \in Docs
      BY <1>2, <3>1, VersionParts DEF Publish, TypeOK
    <3>3. Live(v)
      BY <3>2 DEF Live
    <3>4. ver[v] = [status |-> "active", index |-> "indexed"] /\ v \in rows /\ vec[v] = Chunks
      BY <3>3 DEF Inv, PublishedIsServable
    <3>5. ver'[v] \in {ver[v], [ver[v] EXCEPT !.status = "superseded"]}
      BY <2>3 DEF Publish
    <3>6. v # doc[d].active
      BY <1>2, <3>1, VersionParts DEF Inv, OwnVersions
    <3> QED
      BY <2>1, <2>3, <3>4, <3>6 DEF Publish
  <2> QED
    BY <2>2, <2>3
<1>7. ProjectionSound'
  BY <1>3 DEF ReqMoved, ProjectionSound
<1>8. FilterSound' /\ HitsResolve'
  BY <1>3 DEF Inv, FilterSound, HitsResolve, Publish, WithRows
<1>9. OwnVersions'
  BY <1>2 DEF Inv, OwnVersions, Publish, TypeOK
<1> QED
  BY <1>5, <1>6, <1>7, <1>8, <1>9 DEF Inv

\* DeleteDocument: the document is not live any more, the others are as they were.
LEMMA TombstoneInv ==
  ASSUME TypeOK, Inv, NEW w \in Requests, Tombstone(w)
  PROVE  Inv'
<1> DEFINE q == req[w]
           d == q.v[1]
<1>1. req \in [Requests -> Req] /\ q.pc = "check" /\ RequestSound(q)
  BY DEF TypeOK, Inv, Tombstone
<1>2. q.v \in Versions /\ d \in Docs /\ doc[d] \in Doc /\ Busy(w)
  BY <1>1, VersionParts DEF RequestSound, Busy, TypeOK
<1>3. ReqMoved(w, "restore", q.at) /\ UNCHANGED <<cleaner, reader>>
  BY <1>1, StepMoves DEF Tombstone, PCs
<1>4. RequestSound(req'[w]) /\ ~Staged(req'[w])
  BY <1>1, <1>3 DEF ReqMoved, RequestSound, Staged
<1>5. /\ Mutex' /\ CleanerSound' /\ CitesWhatIsCurrent'
      /\ \A u \in Requests : RequestSound(req[u])' /\ StagedSound(req[u])'
  BY <1>2, <1>3, <1>4, WriterInv DEF ReqMoved
<1>6. /\ doc'[d].deleted /\ doc'[d].active = doc[d].active
      /\ \A e \in Docs : e # d => doc'[e] = doc[e]
  <2>1. doc' = [doc EXCEPT ![d] =
                  [doc[d] EXCEPT !.deleted = TRUE, !.index = "cleanup_pending"]]
    BY <1>2 DEF Tombstone, TypeOK
  <2> QED
    BY <1>2, <2>1 DEF TypeOK, Doc
<1>7. PublishedIsServable' /\ OwnVersions'
  <2>1. \A v \in Versions : Live(v)' => Live(v)
    BY <1>6, VersionParts DEF Live
  <2>2. ver' = ver /\ rows' = rows /\ vec' = vec
    BY DEF Tombstone
  <2> QED
    BY <1>6, <2>1, <2>2 DEF Inv, PublishedIsServable, OwnVersions
<1>8. ProjectionSound'
  BY <1>3 DEF ReqMoved, ProjectionSound
<1>9. FilterSound' /\ HitsResolve'
  BY <1>3 DEF Inv, FilterSound, HitsResolve, Tombstone
<1> QED
  BY <1>5, <1>7, <1>8, <1>9 DEF Inv

\* restorePublishedProjection.
LEMMA RestoreInv ==
  ASSUME TypeOK, Inv, NEW w \in Requests, Restore(w)
  PROVE  Inv'
<1>1. req \in [Requests -> Req] /\ req[w].pc = "restore" /\ RestoreProjection(space)
      /\ UNCHANGED <<sql, vec, up, space, cleaner, reader>>
  BY DEF TypeOK, Restore
<1>2. Busy(w)
  BY <1>1 DEF Busy
<1>3. ReqAnswered(w) /\ req'[w].pc = "idle"
  BY <1>1, AnswerMoves DEF Restore, ReqAnswered, IdleReq
<1>4. RequestSound(req'[w]) /\ ~Staged(req'[w])
  BY <1>3 DEF RequestSound, Staged
<1>5. /\ Mutex' /\ CleanerSound' /\ CitesWhatIsCurrent'
      /\ \A u \in Requests : RequestSound(req[u])' /\ StagedSound(req[u])'
  BY <1>1, <1>2, <1>3, <1>4, WriterInv DEF ReqAnswered
<1>6. PublishedIsServable' /\ OwnVersions'
  BY <1>1 DEF Inv, PublishedIsServable, OwnVersions, Live, sql
<1>7. /\ mem'.active = ActiveFilter(space)
      /\ Published(space) \subseteq mem'.chunks
      /\ \A d \in Docs : mem'.active[d] # None => mem'.active[d] \in rows
  BY <1>1, RestoredFilter DEF Inv, TypeOK
<1>8. Projected'
  BY <1>1, <1>7 DEF Projected, Published, ActiveFilter, Live, sql
<1>9. ProjectionSound' /\ FilterSound' /\ HitsResolve'
  BY <1>1, <1>7, <1>8 DEF Inv, ProjectionSound, FilterSound, HitsResolve, sql
<1> QED
  BY <1>5, <1>6, <1>9 DEF Inv

-----------------------------------------------------------------------------
(* Arrivals, locks, cleanup and diagnoses                                  *)

\* A request arrives, or takes knowledgeMu when nobody holds it.
LEMMA ArrivalInv ==
  ASSUME TypeOK, Inv, NEW w \in Requests,
         \/ \E kind \in AllKinds, v \in Versions, expected \in Versions \cup {None} :
              ReqSent(w, kind, v, expected)
         \/ Lock(w)
  PROVE  Inv'
<1>1. req \in [Requests -> Req]
  BY DEF TypeOK
<1>2. /\ req'[w].pc \in {"call", "check"} /\ req[w].pc \in {"idle", "call"}
      /\ \A u \in Requests : u # w => req'[u] = req[u]
      /\ RequestSound(req'[w]) /\ (req'[w].pc = "check" => LockFree)
      /\ UNCHANGED <<sql, vec, mem, srv, cleaner, reader>>
  <2>1. CASE Lock(w)
    <3>1. ReqMoved(w, "check", req[w].at) /\ req[w].pc = "call" /\ RequestSound(req[w])
      BY <1>1, <2>1, StepMoves DEF Lock, PCs, Inv
    <3> QED
      BY <2>1, <3>1 DEF Lock, ReqMoved, RequestSound
  <2>2. ASSUME NEW kind \in AllKinds, NEW v \in Versions, NEW expected \in Versions \cup {None},
               ReqSent(w, kind, v, expected)
        PROVE  /\ req'[w].pc = "call" /\ req[w].pc = "idle"
               /\ \A u \in Requests : u # w => req'[u] = req[u]
               /\ RequestSound(req'[w])
               /\ UNCHANGED <<sql, vec, mem, srv, cleaner, reader>>
    BY <2>2 DEF ReqSent, RequestSound
  <2> QED
    BY <2>1, <2>2
<1>3. Untouched
  BY <1>2 DEF Untouched, sql, srv
<1>4. /\ PublishedIsServable' /\ OwnVersions'
      /\ \A v \in Versions : Live(v)' <=> Live(v)
      /\ Published(space)' = Published(space)
      /\ ActiveFilter(space)' = ActiveFilter(space)
  BY <1>3, UntouchedKeeps DEF Inv
<1>5. Mutex'
  <2>1. CASE req'[w].pc = "call"
    <3>1. Mutex /\ \A u \in Requests : Busy(u)' => Busy(u)
      BY <1>2, <2>1 DEF Inv, Busy
    <3> QED
      BY <1>2, <3>1, MutexKept
  <2>2. CASE req'[w].pc = "check"
    <3>1. ~Writing /\ ~Reading
      BY <1>2, <2>2 DEF LockFree
    <3>2. cleaner.pc = "idle" /\ \A u \in Requests : ~Busy(u)
      BY <3>1 DEF Writing, Busy
    <3>3. \A u \in Requests : Busy(u)' => u = w
      BY <1>2, <3>2 DEF Busy
    <3>4. ~Reading'
      BY <1>2, <3>1 DEF Reading
    <3> QED
      BY <1>2, <3>2, <3>3, <3>4 DEF Mutex
  <2> QED
    BY <1>2, <2>1, <2>2
<1>6. ASSUME NEW u \in Requests
      PROVE  RequestSound(req[u])' /\ StagedSound(req[u])'
  <2>1. CASE u = w
    BY <1>2, <2>1 DEF RequestSound, StagedSound, Staged
  <2>2. CASE u # w
    <3>1. req'[u] = req[u] /\ doc' = doc /\ vec' = vec /\ RequestSound(req[u]) /\ StagedSound(req[u])
      BY <1>2, <2>2 DEF Inv, sql
    <3> QED
      BY <3>1 DEF RequestSound, StagedSound, Staged, Live
  <2> QED
    BY <2>1, <2>2
<1>7. ProjectionSound'
  <2>1. (\A u \in Requests : req'[u].pc # "restore") => (\A u \in Requests : req[u].pc # "restore")
    BY <1>2
  <2> QED
    BY <1>2, <1>4, <2>1 DEF Inv, ProjectionSound, Projected, srv
<1>8. CleanerSound' /\ FilterSound' /\ HitsResolve' /\ CitesWhatIsCurrent'
  BY <1>2 DEF Inv, CleanerSound, FilterSound, HitsResolve, CitesWhatIsCurrent, Live, sql
<1> QED
  BY <1>4, <1>5, <1>6, <1>7, <1>8 DEF Inv

\* Cleanup, which never touches what is live.
LEMMA CleanerInv ==
  ASSUME TypeOK, Inv,
         \/ \E v \in Versions : CleanupLocks(v)
         \/ Purge \/ PurgeFails \/ SettleCleanup \/ SettleFails
  PROVE  Inv'
<1>1. UNCHANGED <<req, reader, rows, ver, stale, up, space>>
  BY DEF CleanupLocks, Purge, PurgeFails, SettleCleanup, SettleFails, sql, srv
<1>2. CASE \E v \in Versions : CleanupLocks(v)
  <2>1. PICK v \in Versions : CleanupLocks(v)
    BY <1>2
  <2>2. /\ ~Writing /\ ~Reading /\ cleanup[v] > 0
        /\ cleaner'.pc = "purge" /\ cleaner'.v = v
        /\ UNCHANGED <<sql, vec, mem, srv, req, reader>>
    BY <2>1 DEF CleanupLocks, LockFree
  <2>3. \A w \in Requests : ~Busy(w)
    BY <2>2 DEF Writing, Busy
  <2>4. Mutex'
    BY <2>2, <2>3 DEF Mutex, Busy, Reading
  <2>5. \A w \in Requests : RequestSound(req[w])' /\ StagedSound(req[w])'
    BY <2>2, <2>3 DEF Inv, RequestSound, StagedSound, Staged, Busy
  <2>6. CleanerSound'
    BY <2>2 DEF CleanerSound, sql
  <2>7. OwnVersions' /\ PublishedIsServable' /\ ProjectionSound' /\ FilterSound' /\ HitsResolve'
        /\ CitesWhatIsCurrent'
    BY <2>2 DEF Inv, OwnVersions, PublishedIsServable, ProjectionSound, Projected, Published,
                ActiveFilter, FilterSound, HitsResolve, CitesWhatIsCurrent, Live, sql, srv
  <2> QED
    BY <2>4, <2>5, <2>6, <2>7 DEF Inv
<1>3. CASE Purge \/ PurgeFails \/ SettleCleanup \/ SettleFails
  <2>1. cleaner.pc # "idle" /\ cleaner \in Cleaner
    BY <1>3 DEF Purge, PurgeFails, SettleCleanup, SettleFails, TypeOK
  <2>2. cleaner.v \in Versions /\ cleaner.v[1] \in Docs /\ cleanup[cleaner.v] > 0
    BY <2>1, VersionParts DEF Inv, CleanerSound
  <2>3. \A w \in Requests : ~Busy(w)
    BY <2>1 DEF Inv, Mutex
  <2>4. \A r \in Readers : reader[r].pc \notin {"qualify", "cite"}
    BY <2>1 DEF Inv, Mutex, Writing, Reading
  <2>5. /\ \A d \in Docs : doc'[d].active = doc[d].active /\ doc'[d].deleted = doc[d].deleted
        /\ \A v \in Versions : Live(v) => vec'[v] = vec[v]
        /\ mem'.active = mem.active
        /\ \A v \in Versions : Live(v) /\ v \in mem.chunks => v \in mem'.chunks
    <3>1. CASE Purge
      BY <2>2, <3>1 DEF Purge, sql, TypeOK, Mem
    <3>2. CASE PurgeFails
      BY <2>2, <3>2 DEF PurgeFails, sql, TypeOK
    <3>3. CASE SettleCleanup
      <4> DEFINE d == cleaner.v[1]
      <4>1. doc' = doc \/ doc' = [doc EXCEPT ![d] = [doc[d] EXCEPT !.index = "removed"]]
        BY <3>3 DEF SettleCleanup
      <4>2. doc[d] \in Doc /\ doc \in [Docs -> Doc]
        BY <2>2 DEF TypeOK
      <4>3. /\ [doc[d] EXCEPT !.index = "removed"].active = doc[d].active
            /\ [doc[d] EXCEPT !.index = "removed"].deleted = doc[d].deleted
        BY <4>2 DEF Doc
      <4>4. \A e \in Docs : doc'[e].active = doc[e].active /\ doc'[e].deleted = doc[e].deleted
        BY <4>1, <4>2, <4>3
      <4> QED
        BY <3>3, <4>4 DEF SettleCleanup
    <3>4. CASE SettleFails
      BY <3>4 DEF SettleFails, sql
    <3> QED
      BY <1>3, <3>1, <3>2, <3>3, <3>4
  <2>6. Untouched
    BY <1>1, <2>5 DEF Untouched
  <2>7. /\ PublishedIsServable' /\ OwnVersions'
        /\ \A v \in Versions : Live(v)' <=> Live(v)
        /\ Published(space)' = Published(space)
        /\ ActiveFilter(space)' = ActiveFilter(space)
    BY <2>6, UntouchedKeeps DEF Inv
  <2>8. Mutex'
    <3>1. Mutex /\ \A w \in Requests : Busy(w)' => Busy(w)
      BY <1>1 DEF Inv, Busy
    <3> QED
      BY <1>1, <2>1, <3>1, MutexKept
  <2>9. \A w \in Requests : RequestSound(req[w])' /\ StagedSound(req[w])'
    BY <1>1, <2>3 DEF Inv, RequestSound, StagedSound, Staged, Busy
  <2>10. CleanerSound'
    <3>1. CASE Purge
      BY <2>1, <2>2, <3>1 DEF Purge, CleanerSound, sql, Cleaner
    <3>2. CASE PurgeFails \/ SettleCleanup \/ SettleFails
      <4>1. cleaner'.pc = "idle"
        BY <3>2 DEF PurgeFails, SettleCleanup, SettleFails, IdleCleaner
      <4> QED
        BY <4>1 DEF CleanerSound
    <3> QED
      BY <1>3, <3>1, <3>2
  <2>11. ProjectionSound'
    <3>1. Projected => Projected'
      <4>1. \A v \in Published(space) : v \in Versions /\ Live(v)
        BY DEF Published
      <4> QED
        BY <2>5, <2>7, <4>1 DEF Projected
    <3> QED
      BY <1>1, <3>1 DEF Inv, ProjectionSound
  <2>12. FilterSound' /\ HitsResolve'
    BY <1>1, <2>5 DEF Inv, FilterSound, HitsResolve
  <2>13. CitesWhatIsCurrent'
    BY <1>1, <2>4 DEF CitesWhatIsCurrent
  <2> QED
    BY <2>7, <2>8, <2>9, <2>10, <2>11, <2>12, <2>13 DEF Inv
<1> QED
  BY <1>2, <1>3

\* A diagnosis: what it finds has rows, and what it is about to cite was live when it
\* looked, under the lock.
LEMMA ReaderInv ==
  ASSUME TypeOK, Inv, NEW r \in Readers,
         (\E hits \in SUBSET Versions : Search(r, hits)) \/ Diagnose(r) \/ RecordFails(r)
  PROVE  Inv'
<1>1. PICK pc, hits, hit :
        /\ ReaderMoved(r, pc, hits, hit)
        /\ hits \subseteq rows
        /\ pc = "cite" => Live(hit)
        /\ pc \in {"qualify", "cite"} => ~Writing
  <2>1. reader[r].hits \subseteq rows
    BY DEF Inv, HitsResolve
  <2>2. reader[r].pc \in {"qualify", "cite"} => ~Writing
    BY DEF Inv, Mutex, Reading
  <2>3. ASSUME NEW hits \in SUBSET Versions, Search(r, hits)
        PROVE  ReaderMoved(r, "searched", hits, reader[r].hit) /\ hits \subseteq rows
    <3>1. ASSUME NEW v \in hits
          PROVE  v \in rows
      <4>1. v \in Versions /\ mem.active[v[1]] = v
        BY <2>3 DEF Search, Searchable
      <4> QED
        BY <4>1, VersionParts DEF Inv, FilterSound
    <3> QED
      BY <2>3, <3>1, ReaderSteps
  <2>4. CASE RLock(r)
    BY <2>1, <2>4, ReaderSteps DEF RLock
  <2>5. ASSUME NEW v \in Versions, Qualify(r, v)
        PROVE  /\ ReaderMoved(r, IF Eligible(v) THEN "cite" ELSE "qualify", reader[r].hits \ {v},
                              IF Eligible(v) THEN v ELSE None)
               /\ reader[r].hits \ {v} \subseteq rows
               /\ ~Writing
    BY <2>1, <2>2, <2>5, ReaderSteps DEF Qualify
  <2>6. CASE \E v \in Versions : Qualify(r, v)
    <3>1. PICK v \in Versions : Qualify(r, v)
      BY <2>6
    <3>2. CASE Eligible(v)
      BY <2>5, <3>1, <3>2 DEF Eligible
    <3>3. CASE ~Eligible(v)
      BY <2>5, <3>1, <3>3
    <3> QED
      BY <3>2, <3>3
  <2>7. CASE Cite(r)
    BY <2>1, <2>2, <2>7, ReaderSteps DEF Cite
  <2>8. CASE RUnlock(r) \/ RecordFails(r)
    BY <2>8, ReaderSteps
  <2> QED
    BY <2>3, <2>4, <2>6, <2>7, <2>8 DEF Diagnose
<1>2. /\ reader'[r].pc = pc /\ reader'[r].hits = hits /\ reader'[r].hit = hit
      /\ \A u \in Readers : u # r => reader'[u] = reader[u]
      /\ UNCHANGED <<sql, vec, mem, srv, req, cleaner>>
  BY <1>1 DEF ReaderMoved
<1>3. Mutex'
  <2>1. Writing' <=> Writing
    BY <1>2 DEF Writing
  <2>2. Reading' => Reading \/ ~Writing
    BY <1>1, <1>2 DEF Reading
  <2>3. /\ \A w, u \in Requests : Busy(w)' /\ Busy(u)' => w = u
        /\ \A w \in Requests : Busy(w)' => cleaner'.pc = "idle"
    BY <1>2 DEF Inv, Mutex, Busy
  <2> QED
    BY <2>1, <2>2, <2>3 DEF Inv, Mutex
<1>4. HitsResolve'
  BY <1>1, <1>2 DEF Inv, HitsResolve, sql
<1>5. CitesWhatIsCurrent'
  <2> SUFFICES ASSUME NEW u \in Readers, reader'[u].pc = "cite"
               PROVE  Live(reader'[u].hit)
    BY <1>2 DEF CitesWhatIsCurrent, Live, sql
  <2>1. CASE u = r
    BY <1>1, <1>2, <2>1
  <2>2. CASE u # r
    BY <1>2, <2>2 DEF Inv, CitesWhatIsCurrent
  <2> QED
    BY <2>1, <2>2
<1>6. \A w \in Requests : RequestSound(req[w])' /\ StagedSound(req[w])'
  BY <1>2 DEF Inv, RequestSound, StagedSound, Staged, Live, sql
<1>7. CleanerSound' /\ OwnVersions' /\ PublishedIsServable' /\ ProjectionSound' /\ FilterSound'
  BY <1>2 DEF Inv, CleanerSound, OwnVersions, PublishedIsServable, ProjectionSound, Projected,
              Published, ActiveFilter, FilterSound, Live, sql, srv
<1> QED
  BY <1>3, <1>4, <1>5, <1>6, <1>7 DEF Inv

-----------------------------------------------------------------------------
(* Probes, exits and boot                                                  *)

\* A probe, an exit or a boot keeps the types.
LEMMA ProcessType ==
  ASSUME TypeOK, ProbeSucceeds \/ ProbeFails \/ Exit \/ Boot
  PROVE  TypeOK'
<1>1. CASE ProbeSucceeds
  <2>1. mem' \in Mem
    BY <1>1, RestoreType DEF ProbeSucceeds, TypeOK
  <2> QED
    BY <1>1, <2>1 DEF ProbeSucceeds, TypeOK, sql
<1>2. CASE ProbeFails
  BY <1>2 DEF ProbeFails, TypeOK, sql
<1>3. CASE Exit
  <2>1. EmptyMem \in Mem /\ IdleCleaner \in Cleaner /\ IdleReader \in Reader
    BY DEF EmptyMem, Mem, IdleCleaner, Cleaner, IdleReader, Reader
  <2>2. IdleReq \in Req
    BY KnowledgeAssumption DEF IdleReq, Req, AllKinds, Scopes
  <2> QED
    BY <1>3, <2>1, <2>2 DEF Exit, TypeOK, sql
<1>4. CASE Boot
  <2>1. source' \in BOOLEAN /\ space' \in BOOLEAN
    BY <1>4 DEF Boot
  <2>2. PICK known \in BOOLEAN : known = source'
    BY <2>1
  <2>3. mem' \in Mem
    BY <1>4, <2>2, RestoreType DEF Boot
  <2> QED
    BY <1>4, <2>1, <2>3 DEF Boot, TypeOK, sql
<1> QED
  BY <1>1, <1>2, <1>3, <1>4

\* They keep the invariant: a probe waits for writers, an exit forgets them.
LEMMA ProcessInv ==
  ASSUME TypeOK, Inv, ProbeSucceeds \/ ProbeFails \/ Exit \/ Boot
  PROVE  Inv'
<1>1. UNCHANGED <<sql, vec>>
  BY DEF ProbeSucceeds, ProbeFails, Exit, Boot
<1>2. OwnVersions' /\ PublishedIsServable'
  BY <1>1 DEF Inv, OwnVersions, PublishedIsServable, Live, sql
<1>3. CASE Exit
  <2>1. /\ \A w \in Requests : req'[w].pc = "idle"
        /\ cleaner'.pc = "idle" /\ ~up'
        /\ \A r \in Readers : reader'[r].pc = "idle" /\ reader'[r].hits = {}
        /\ \A d \in Docs : mem'.active[d] = None
    BY <1>3 DEF Exit, IdleReq, IdleCleaner, IdleReader, EmptyMem
  <2>2. ~Reading' /\ \A w \in Requests : ~Busy(w)'
    BY <2>1 DEF Reading, Busy
  <2>3. Mutex' /\ CleanerSound' /\ ProjectionSound' /\ FilterSound' /\ HitsResolve'
        /\ CitesWhatIsCurrent'
    BY <2>1, <2>2 DEF Mutex, CleanerSound, ProjectionSound, FilterSound, HitsResolve,
                      CitesWhatIsCurrent
  <2>4. \A w \in Requests : RequestSound(req[w])' /\ StagedSound(req[w])'
    BY <2>1 DEF RequestSound, StagedSound, Staged
  <2> QED
    BY <1>2, <2>3, <2>4 DEF Inv
<1>4. CASE ProbeSucceeds \/ ProbeFails \/ Boot
  <2>1. UNCHANGED <<stale, req, cleaner, reader>>
    BY <1>4 DEF ProbeSucceeds, ProbeFails, Boot
  <2>2. Mutex'
    <3>1. Mutex /\ \A w \in Requests : Busy(w)' => Busy(w)
      BY <2>1 DEF Inv, Busy
    <3> QED
      BY <2>1, <3>1, MutexKept
  <2>3. \A w \in Requests : RequestSound(req[w])' /\ StagedSound(req[w])'
    BY <1>1, <2>1 DEF Inv, RequestSound, StagedSound, Staged, Live, sql
  <2>4. CleanerSound' /\ HitsResolve' /\ CitesWhatIsCurrent'
    BY <1>1, <2>1 DEF Inv, CleanerSound, HitsResolve, CitesWhatIsCurrent, Live, sql
  <2>5. CASE \E known \in BOOLEAN : known = space' /\ RestoreProjection(known)
    <3>1. PICK known \in BOOLEAN : known = space' /\ RestoreProjection(known)
      BY <2>5
    <3>2. /\ mem'.active = ActiveFilter(known)
          /\ Published(known) \subseteq mem'.chunks
          /\ \A d \in Docs : mem'.active[d] # None => mem'.active[d] \in rows
      BY <3>1, RestoredFilter DEF Inv
    <3>3. Projected'
      BY <1>1, <3>1, <3>2 DEF Projected, Published, ActiveFilter, Live, sql
    <3>4. ProjectionSound' /\ FilterSound'
      BY <1>1, <3>2, <3>3 DEF ProjectionSound, FilterSound, sql
    <3> QED
      BY <1>2, <2>2, <2>3, <2>4, <3>4 DEF Inv
  <2>6. CASE mem' = mem /\ space' = space /\ up' = up
    <3>1. ProjectionSound' /\ FilterSound'
      BY <1>1, <2>1, <2>6 DEF Inv, ProjectionSound, Projected, Published, ActiveFilter,
                              FilterSound, Live, sql
    <3> QED
      BY <1>2, <2>2, <2>3, <2>4, <3>1 DEF Inv
  <2> QED
    <3>1. CASE ProbeSucceeds
      <4>1. CASE space
        BY <2>6, <3>1, <4>1 DEF ProbeSucceeds, TypeOK
      <4>2. CASE ~space
        BY <2>5, <3>1, <4>2 DEF ProbeSucceeds
      <4> QED
        BY <4>1, <4>2
    <3>2. CASE ProbeFails
      BY <2>6, <3>2 DEF ProbeFails
    <3>3. CASE Boot
      <4>1. source' \in BOOLEAN /\ space' = source' /\ RestoreProjection(source')
        BY <3>3 DEF Boot
      <4>2. PICK known \in BOOLEAN : known = source'
        BY <4>1
      <4> QED
        BY <2>5, <4>1, <4>2
    <3> QED
      BY <1>4, <3>1, <3>2, <3>3
<1> QED
  BY <1>3, <1>4

-----------------------------------------------------------------------------
(* The bound on cleanup rows                                               *)

\* Due deletions are countable.
LEMMA DueCounts ==
  ASSUME NEW v \in Versions
  PROVE  IsFiniteSet(Due(v)) /\ Cardinality(Due(v)) \in Nat
<1>1. IsFiniteSet(Due(v))
  BY KnowledgeAssumption, FS_Subset DEF Due
<1> QED
  BY <1>1, FS_CardinalityType

\* Fewer rows and fewer due deletions stay within the bound.
LEMMA BoundKept ==
  ASSUME TypeOK, TypeOK', CleanupsBounded, NEW v \in Versions,
         cleanup'[v] <= cleanup[v], Due(v)' \subseteq Due(v)
  PROVE  cleanup'[v] + Cardinality(Due(v)') <= MaxCleanups
<1>1. PICK n \in Nat : n = Cardinality(Due(v))
  BY DueCounts
<1>2. PICK m \in Nat : m = Cardinality(Due(v)') /\ m <= n
  BY <1>1, DueCounts, FS_Subset, FS_CardinalityType
<1>3. /\ cleanup[v] \in Nat /\ cleanup'[v] \in Nat
      /\ cleanup[v] + n <= MaxCleanups
  BY <1>1, KnowledgeAssumption DEF TypeOK, CleanupsBounded
<1>4. cleanup'[v] + m <= MaxCleanups
  BY <1>2, <1>3, KnowledgeAssumption
<1> QED
  BY <1>2, <1>4

\* A deletion is only sent when there is room for its row.
LEMMA SentBound ==
  ASSUME TypeOK, CleanupsBounded, NEW w \in Requests, NEW kind \in AllKinds,
         NEW x \in Versions, NEW expected, ReqSent(w, kind, x, expected), TypeOK'
  PROVE  CleanupsBounded'
<1> SUFFICES ASSUME NEW v \in Versions
             PROVE  cleanup'[v] + Cardinality(Due(v)') <= MaxCleanups
  BY DEF CleanupsBounded
<1>1. /\ req[w].pc = "idle" /\ req'[w].pc = "call" /\ req'[w].kind = kind /\ req'[w].v = x
      /\ cleanup' = cleanup
      /\ \A u \in Requests : u # w => req'[u] = req[u]
      /\ kind = "delete" => cleanup[x] + Deleting(x) < MaxCleanups
  BY DEF ReqSent, sql
<1>2. CASE kind = "delete" /\ x = v
  <2> DEFINE D == {u \in Requests : req[u].pc # "idle" /\ req[u].kind = "delete" /\ req[u].v = v}
  <2>1. Due(v)' \subseteq Due(v) \cup {w} /\ Due(v) \subseteq D /\ w \notin Due(v)
    BY <1>1 DEF Due
  <2>2. IsFiniteSet(D) /\ Cardinality(D) \in Nat
    BY KnowledgeAssumption, FS_Subset, FS_CardinalityType
  <2>3. PICK k \in Nat : k = Cardinality(Due(v)) /\ k <= Cardinality(D)
    BY <2>1, <2>2, DueCounts, FS_Subset
  <2>4. IsFiniteSet(Due(v) \cup {w}) /\ Cardinality(Due(v) \cup {w}) = k + 1
    BY <2>1, <2>3, DueCounts, FS_AddElement
  <2>5. PICK m \in Nat : m = Cardinality(Due(v)') /\ m <= k + 1
    BY <2>1, <2>4, FS_Subset, FS_CardinalityType
  <2>6. cleanup[v] \in Nat /\ cleanup[v] + Cardinality(D) < MaxCleanups
    BY <1>1, <1>2, KnowledgeAssumption DEF TypeOK, Deleting
  <2>7. cleanup[v] + m <= MaxCleanups
    BY <2>2, <2>3, <2>5, <2>6, KnowledgeAssumption
  <2> QED
    BY <1>1, <2>5, <2>7
<1>3. CASE ~(kind = "delete" /\ x = v)
  <2>1. Due(v)' \subseteq Due(v)
    BY <1>1, <1>3 DEF Due
  <2>2. cleanup'[v] <= cleanup[v]
    BY <1>1, KnowledgeAssumption DEF TypeOK
  <2> QED
    BY <2>1, <2>2, BoundKept
<1> QED
  BY <1>2, <1>3

\* Writing the row makes the deletion not due any more.
LEMMA TombstoneBound ==
  ASSUME TypeOK, Inv, CleanupsBounded, NEW w \in Requests, Tombstone(w), TypeOK'
  PROVE  CleanupsBounded'
<1> SUFFICES ASSUME NEW v \in Versions
             PROVE  cleanup'[v] + Cardinality(Due(v)') <= MaxCleanups
  BY DEF CleanupsBounded
<1> DEFINE q == req[w]
<1>1. /\ req \in [Requests -> Req] /\ RequestSound(q) /\ q.pc = "check" /\ q.kind = "delete"
      /\ cleanup' = [cleanup EXCEPT ![q.expected] = cleanup[q.expected] + 1]
  BY DEF TypeOK, Inv, Tombstone
<1>2. ReqMoved(w, "restore", q.at)
  BY <1>1, StepMoves DEF Tombstone, PCs
<1>3. Due(v)' = Due(v) \ {w}
  BY <1>2 DEF Due, ReqMoved
<1>4. q.expected = q.v /\ q.v \in Versions
  BY <1>1 DEF RequestSound
<1>5. CASE v = q.v
  <2>1. w \in Due(v)
    BY <1>1, <1>5 DEF Due
  <2>2. PICK n \in Nat : n = Cardinality(Due(v))
    BY DueCounts
  <2>3. PICK m \in Nat : m = Cardinality(Due(v)') /\ m = n - 1
    BY <1>3, <2>1, <2>2, DueCounts, FS_RemoveElement, FS_CardinalityType
  <2>4. cleanup[v] \in Nat /\ cleanup[v] + n <= MaxCleanups
    BY <2>2, KnowledgeAssumption DEF TypeOK, CleanupsBounded
  <2>5. cleanup'[v] = cleanup[v] + 1
    BY <1>1, <1>4, <1>5 DEF TypeOK
  <2> QED
    BY <2>3, <2>4, <2>5, KnowledgeAssumption
<1>6. CASE v # q.v
  <2>1. cleanup'[v] = cleanup[v] /\ cleanup[v] \in Nat
    BY <1>1, <1>4, <1>6, KnowledgeAssumption DEF TypeOK
  <2>2. cleanup'[v] <= cleanup[v] /\ Due(v)' \subseteq Due(v)
    BY <1>3, <2>1
  <2> QED
    BY <2>2, BoundKept
<1> QED
  BY <1>5, <1>6

-----------------------------------------------------------------------------
(* The invariant                                                           *)

\* Every step keeps the types.
LEMMA NextType ==
  ASSUME TypeOK, Inv, CleanupsBounded, [Next]_vars
  PROVE  TypeOK'
<1>1. CASE UNCHANGED vars
  BY <1>1 DEF vars, TypeOK
<1>2. ASSUME NEW w \in Requests, NEW v \in Versions, Call(w, v)
      PROVE  TypeOK'
  BY <1>2, CallSends DEF ReqSent, TypeOK, sql, srv
<1>3. ASSUME NEW w \in Requests,
             Request(w) \/ IndexFails(w) \/ RestoreFails(w) \/ RequestFails(w)
      PROVE  TypeOK'
  BY <1>3, PutType, RequestType DEF Request
<1>4. CASE (\E v \in Versions : CleanupLocks(v)) \/ Purge \/ PurgeFails \/ SettleCleanup \/ SettleFails
  BY <1>4, CleanerType
<1>5. ASSUME NEW r \in Readers,
             (\E hits \in SUBSET Versions : Search(r, hits)) \/ Diagnose(r) \/ RecordFails(r)
      PROVE  TypeOK'
  <2>1. \E pc, hits, hit : ReaderMoved(r, pc, hits, hit)
    BY <1>5, ReaderSteps DEF Diagnose
  <2> QED
    BY <2>1 DEF ReaderMoved, TypeOK, sql, srv
<1>6. CASE ProbeSucceeds \/ ProbeFails \/ Exit \/ Boot
  BY <1>6, ProcessType
<1> QED
  BY <1>1, <1>2, <1>3, <1>4, <1>5, <1>6 DEF Next

\* Every step keeps the invariant.
LEMMA NextInv ==
  ASSUME TypeOK, Inv, [Next]_vars
  PROVE  Inv'
<1>1. CASE UNCHANGED vars
  BY <1>1 DEF vars, Inv, Mutex, Busy, Reading, Writing, RequestSound, StagedSound, Staged,
              CleanerSound, OwnVersions, PublishedIsServable, ProjectionSound, Projected,
              Published, ActiveFilter, FilterSound, HitsResolve, CitesWhatIsCurrent, Live
<1>2. ASSUME NEW w \in Requests, NEW v \in Versions, Call(w, v)
      PROVE  Inv'
  BY <1>2, CallSends, ArrivalInv
<1>3. ASSUME NEW w \in Requests,
             Request(w) \/ IndexFails(w) \/ RestoreFails(w) \/ RequestFails(w)
      PROVE  Inv'
  BY <1>3, ArrivalInv, PutInv, PublishInv, TombstoneInv, RestoreInv
     DEF Request, PutDocument, DeleteDocument
<1>4. CASE (\E v \in Versions : CleanupLocks(v)) \/ Purge \/ PurgeFails \/ SettleCleanup \/ SettleFails
  BY <1>4, CleanerInv
<1>5. ASSUME NEW r \in Readers,
             (\E hits \in SUBSET Versions : Search(r, hits)) \/ Diagnose(r) \/ RecordFails(r)
      PROVE  Inv'
  BY <1>5, ReaderInv
<1>6. CASE ProbeSucceeds \/ ProbeFails \/ Exit \/ Boot
  BY <1>6, ProcessInv
<1> QED
  BY <1>1, <1>2, <1>3, <1>4, <1>5, <1>6 DEF Next

\* Every step keeps the bound.
LEMMA NextBound ==
  ASSUME TypeOK, Inv, CleanupsBounded, TypeOK', [Next]_vars
  PROVE  CleanupsBounded'
<1>1. ASSUME NEW w \in Requests, NEW v \in Versions, Call(w, v)
      PROVE  CleanupsBounded'
  BY <1>1, CallSends, SentBound
<1>2. ASSUME NEW w \in Requests, Tombstone(w)
      PROVE  CleanupsBounded'
  BY <1>2, TombstoneBound
<1>3. CASE \A v \in Versions : cleanup'[v] <= cleanup[v] /\ Due(v)' \subseteq Due(v)
  BY <1>3, BoundKept DEF CleanupsBounded
<1>4. cleanup \in [Versions -> Nat] /\ req \in [Requests -> Req]
  BY KnowledgeAssumption DEF TypeOK
<1>5. CASE cleanup' = cleanup /\ req' = req
  BY <1>3, <1>4, <1>5 DEF Due
<1>6. ASSUME NEW w \in Requests, cleanup' = cleanup,
             ReqAnswered(w) \/ (\E pc, at : ReqMoved(w, pc, at) /\ (pc = "check" => req[w].pc = "call")
                                            /\ pc # "call")
      PROVE  CleanupsBounded'
  <2>1. \A v \in Versions : Due(v)' \subseteq Due(v)
    BY <1>6 DEF Due, ReqAnswered, ReqMoved, IdleReq
  <2>2. \A v \in Versions : cleanup'[v] <= cleanup[v]
    BY <1>4, <1>6
  <2> QED
    BY <1>3, <2>1, <2>2
<1>7. ASSUME NEW w \in Requests,
             \/ Request(w) /\ ~Tombstone(w)
             \/ IndexFails(w) \/ RestoreFails(w) \/ RequestFails(w)
      PROVE  CleanupsBounded'
  <2>1. CASE PutConflict(w) \/ DeleteConflict(w) \/ Restore(w) \/ IndexFails(w) \/ RestoreFails(w)
             \/ RequestFails(w) \/ (PutKey(w) /\ ~source)
    <3>1. Answer(w) /\ cleanup' = cleanup
      BY <2>1 DEF PutConflict, DeleteConflict, Restore, IndexFails, RestoreFails, RequestFails,
                  PutKey, sql
    <3> QED
      BY <1>4, <1>6, <3>1, AnswerMoves
  <2>2. CASE Lock(w)
    <3>1. ReqMoved(w, "check", req[w].at) /\ req[w].pc = "call" /\ cleanup' = cleanup
      BY <1>4, <2>2, StepMoves DEF Lock, PCs, sql
    <3> QED
      BY <1>6, <3>1
  <2>3. ASSUME NEW pc \in {"stage", "key", "index", "restore"}, Step(w, pc), cleanup' = cleanup
        PROVE  CleanupsBounded'
    <3>1. ReqMoved(w, pc, req[w].at)
      BY <1>4, <2>3, StepMoves DEF PCs
    <3> QED
      BY <1>6, <2>3, <3>1
  <2>4. CASE PutSame(w) \/ PutBegin(w) \/ PutStage(w) \/ (PutKey(w) /\ source) \/ Publish(w)
    BY <2>3, <2>4 DEF PutSame, PutBegin, PutStage, PutKey, Publish
  <2>5. CASE IndexChunk(w)
    <3>1. req[w].at \in Chunks /\ cleanup' = cleanup
      BY <2>5 DEF IndexChunk, Inv, StagedSound, Staged
    <3>2. PICK pc \in {"publish", "index"} : ReqMoved(w, pc, req[w].at + 1)
      BY <1>4, <2>5, <3>1, ChunkMoves
    <3> QED
      BY <1>6, <3>1, <3>2
  <2> QED
    BY <1>7, <2>1, <2>2, <2>4, <2>5 DEF Request, PutDocument, DeleteDocument
<1>8. CASE SettleCleanup
  <2>1. cleaner.v \in Versions
    BY <1>8 DEF SettleCleanup, Inv, CleanerSound
  <2>2. \A v \in Versions : cleanup'[v] <= cleanup[v]
    BY <1>4, <1>8, <2>1 DEF SettleCleanup
  <2>3. \A v \in Versions : Due(v)' \subseteq Due(v)
    BY <1>8 DEF SettleCleanup, Due
  <2> QED
    BY <1>3, <2>2, <2>3
<1>9. CASE Exit
  <2>1. cleanup' = cleanup /\ \A w \in Requests : req'[w].pc = "idle"
    BY <1>9 DEF Exit, IdleReq, sql
  <2>2. \A v \in Versions : cleanup'[v] <= cleanup[v] /\ Due(v)' \subseteq Due(v)
    BY <1>4, <2>1 DEF Due
  <2> QED
    BY <1>3, <2>2
<1>10. ASSUME \/ UNCHANGED vars
              \/ \E v \in Versions : CleanupLocks(v)
              \/ Purge \/ PurgeFails \/ SettleFails
              \/ \E r \in Readers, hits \in SUBSET Versions : Search(r, hits)
              \/ \E r \in Readers : Diagnose(r) \/ RecordFails(r)
              \/ ProbeSucceeds \/ ProbeFails \/ Boot
       PROVE  cleanup' = cleanup /\ req' = req
  BY <1>10 DEF vars, CleanupLocks, Purge, PurgeFails, SettleFails, Search, Diagnose, RLock,
               Qualify, Cite, RUnlock, RecordFails, ProbeSucceeds, ProbeFails, Boot, sql, srv
<1> QED
  BY <1>1, <1>2, <1>5, <1>7, <1>8, <1>9, <1>10 DEF Next

\* Initially there is nothing.
LEMMA InitInv == Init => TypeOK /\ Inv /\ CleanupsBounded
<1> SUFFICES ASSUME Init PROVE TypeOK /\ Inv /\ CleanupsBounded
  OBVIOUS
<1>1. /\ NoDoc \in Doc /\ NoVer \in Ver /\ EmptyMem \in Mem /\ IdleCleaner \in Cleaner
      /\ IdleReader \in Reader
  BY DEF NoDoc, Doc, NoVer, Ver, EmptyMem, Mem, IdleCleaner, Cleaner, IdleReader, Reader
<1>2. IdleReq \in Req
  BY KnowledgeAssumption DEF IdleReq, Req, AllKinds, Scopes
<1>3. TypeOK
  <2>1. 0 \in 0..MaxCleanups
    BY KnowledgeAssumption
  <2>2. cleanup \in [Versions -> 0..MaxCleanups]
    BY <2>1 DEF Init
  <2>3. stale \in BOOLEAN /\ up \in BOOLEAN /\ space \in BOOLEAN /\ source \in BOOLEAN
    BY DEF Init
  <2>4. /\ doc \in [Docs -> Doc] /\ ver \in [Versions -> Ver] /\ rows \subseteq Versions
        /\ idem \in [Scopes \X KeyNames -> Versions \cup {None}]
        /\ vec \in [Versions -> SUBSET Chunks]
    BY <1>1 DEF Init
  <2>5. /\ mem \in Mem /\ req \in [Requests -> Req] /\ cleaner \in Cleaner
        /\ reader \in [Readers -> Reader]
    BY <1>1, <1>2 DEF Init
  <2> QED
    BY <2>2, <2>3, <2>4, <2>5 DEF TypeOK
<1>4. /\ \A w \in Requests : req[w].pc = "idle"
      /\ cleaner.pc = "idle"
      /\ \A r \in Readers : reader[r].pc = "idle" /\ reader[r].hits = {}
      /\ \A d \in Docs : doc[d].active = None /\ mem.active[d] = None
      /\ mem.active = [d \in Docs |-> None]
  BY DEF Init, IdleReq, IdleCleaner, IdleReader, NoDoc, EmptyMem
<1>5. \A v \in Versions : ~Live(v)
  BY <1>4, VersionParts DEF Live
<1>6. Mutex /\ CleanerSound /\ HitsResolve /\ CitesWhatIsCurrent /\ FilterSound /\ OwnVersions
  BY <1>4 DEF Mutex, Busy, Reading, CleanerSound, HitsResolve, CitesWhatIsCurrent, FilterSound,
              OwnVersions
<1>7. \A w \in Requests : RequestSound(req[w]) /\ StagedSound(req[w])
  BY <1>4 DEF RequestSound, StagedSound, Staged
<1>8. PublishedIsServable /\ Projected
  BY <1>4, <1>5 DEF PublishedIsServable, Projected, Published, ActiveFilter
<1>9. CleanupsBounded
  <2> SUFFICES ASSUME NEW v \in Versions
               PROVE  cleanup[v] + Cardinality(Due(v)) <= MaxCleanups
    BY DEF CleanupsBounded
  <2>1. Due(v) = {} /\ cleanup[v] = 0
    BY <1>4 DEF Due, Init
  <2> QED
    BY <2>1, FS_EmptySet, KnowledgeAssumption
<1> QED
  BY <1>3, <1>6, <1>7, <1>8, <1>9 DEF Inv, ProjectionSound

\* The types and the inductive invariant hold in every reachable state.
THEOREM InvProved == Spec => [](TypeOK /\ Inv /\ CleanupsBounded)
<1>1. TypeOK /\ Inv /\ CleanupsBounded /\ [Next]_vars => (TypeOK /\ Inv /\ CleanupsBounded)'
  BY NextType, NextInv, NextBound
<1> QED
  BY <1>1, InitInv, PTL DEF Spec

\* A document that is published and not deleted is complete in SQL and Qdrant, whatever
\* re-publications and cleanups were interrupted or late (PutDocument, dispatchCleanup).
THEOREM ServableProved == Spec => []PublishedIsServable
<1>1. Inv => PublishedIsServable
  BY DEF Inv
<1> QED
  BY <1>1, InvProved, PTL

\* A diagnosis cites what is active and not deleted when it commits, because it holds
\* knowledgeMu from the look to the commit (diagnose, PutDocument, DeleteDocument).
THEOREM CitesProved == Spec => []CitesWhatIsCurrent
<1>1. Inv => CitesWhatIsCurrent
  BY DEF Inv
<1> QED
  BY <1>1, InvProved, PTL

\* A hit resolves to chunk rows however old the projection it was found in
\* (RestoreProjection, eligible).
THEOREM HitsProved == Spec => []HitsResolve
<1>1. Inv => HitsResolve
  BY DEF Inv
<1> QED
  BY <1>1, InvProved, PTL

\* Whenever no writer holds knowledgeMu the projection is what SQL says, unless reading
\* SQL for it failed (restorePublishedProjection, ProbeRetrieval).
THEOREM ProjectionProved == Spec => []ProjectionFollowsSQL
<1>1. Inv => ProjectionFollowsSQL
  <2> SUFFICES ASSUME Inv, up, ~Writing, ~stale
               PROVE  mem.active = ActiveFilter(space) /\ Published(space) \subseteq mem.chunks
    BY DEF ProjectionFollowsSQL
  <2>1. \A w \in Requests : req[w].pc # "restore"
    BY DEF Writing
  <2> QED
    BY <2>1 DEF Inv, ProjectionSound, Projected
<1> QED
  BY <1>1, InvProved, PTL

-----------------------------------------------------------------------------
(* The document store                                                      *)

\* What the refinement mapping makes of the state.
Says == [d \in Docs |-> [version |-> doc[d].active, deleted |-> doc[d].deleted]]
Wishes == [w \in Requests |-> WishOf(w)]
Cites == [r \in Readers |-> IF reader[r].pc = "cite" THEN reader[r].hit ELSE None]
NoWish == [delete |-> FALSE, v |-> None, known |-> None]

\* A step that changes no document, or no diagnosis, for the store.
LEMMA SameSays ==
  ASSUME \A d \in Docs : doc'[d].active = doc[d].active /\ doc'[d].deleted = doc[d].deleted
  PROVE  Says' = Says
  BY DEF Says
LEMMA SameCites ==
  ASSUME UNCHANGED reader
  PROVE  Cites' = Cites
  BY DEF Cites
LEMMA SameWishes ==
  ASSUME UNCHANGED req
  PROVE  Wishes' = Wishes
  BY DEF Wishes, WishOf

\* A request that goes on still wishes what it wished.
LEMMA WishKept ==
  ASSUME NEW w \in Requests, NEW pc, NEW at, ReqMoved(w, pc, at),
         {req[w].pc, pc} \cap {"idle", "restore"} = {}
  PROVE  Wishes' = Wishes
<1>1. ASSUME NEW u \in Requests PROVE WishOf(u)' = WishOf(u)
  <2>1. CASE u = w
    BY <2>1 DEF ReqMoved, WishOf
  <2>2. CASE u # w
    BY <2>2 DEF ReqMoved, WishOf
  <2> QED
    BY <2>1, <2>2
<1> QED
  BY <1>1 DEF Wishes

\* A request that is answered, or is about to be, wishes nothing.
LEMMA WishGone ==
  ASSUME NEW w \in Requests,
         ReqAnswered(w) \/ \E at : ReqMoved(w, "restore", at)
  PROVE  Wishes' = [Wishes EXCEPT ![w] = NoWish]
<1>1. req'[w].pc \in {"idle", "restore"} /\ \A u \in Requests : u # w => req'[u] = req[u]
  BY DEF ReqAnswered, ReqMoved, IdleReq
<1>2. WishOf(w)' = NoWish
  BY <1>1 DEF WishOf, NoWish
<1>3. \A u \in Requests : u # w => WishOf(u)' = WishOf(u)
  BY <1>1 DEF WishOf
<1> QED
  BY <1>2, <1>3 DEF Wishes

\* Arrivals are wishes.
LEMMA CallStores ==
  ASSUME TypeOK, NEW w \in Requests, NEW v \in Versions, Call(w, v)
  PROVE  Store!StoreNext
<1>1. PICK kind \in AllKinds, expected \in Versions \cup {None} : ReqSent(w, kind, v, expected)
  BY CallSends
<1> DEFINE delete == kind = "delete"
           new == [delete |-> delete, v |-> v, known |-> expected]
<1>2. Wishes[w] = NoWish
  BY <1>1 DEF ReqSent, Wishes, WishOf, NoWish
<1>3. Wishes' = [Wishes EXCEPT ![w] = new]
  <2>1. WishOf(w)' = new
    BY <1>1 DEF ReqSent, WishOf
  <2>2. \A u \in Requests : u # w => WishOf(u)' = WishOf(u)
    BY <1>1 DEF ReqSent, WishOf
  <2> HIDE DEF new
  <2> QED
    BY <2>1, <2>2 DEF Wishes
<1>4. Says' = Says /\ Cites' = Cites
  BY <1>1, SameSays, SameCites DEF ReqSent, sql
<1>5. delete => expected = v
  BY <1>1 DEF ReqSent
<1>6. delete \in BOOLEAN
  OBVIOUS
<1> HIDE DEF delete
<1>7. Store!Ask(w, delete, v, expected)
  BY <1>2, <1>3, <1>4, <1>5 DEF Store!Ask, Store!NoWish, NoWish, Says, Wishes, Cites
<1> QED
  BY <1>6, <1>7 DEF Store!StoreNext

\* A request that goes on under its lock, or is answered, changes no document.
LEMMA RequestStores ==
  ASSUME NEW w \in Requests, Says' = Says, UNCHANGED reader,
         \/ Wishes' = Wishes
         \/ ReqAnswered(w)
         \/ \E at : ReqMoved(w, "restore", at)
  PROVE  Store!StoreNext \/ UNCHANGED <<Says, Wishes, Cites>>
<1>1. Cites' = Cites
  BY SameCites
<1>2. CASE Wishes' = Wishes
  BY <1>1, <1>2
<1>3. CASE ReqAnswered(w) \/ \E at : ReqMoved(w, "restore", at)
  <2>1. Wishes' = [Wishes EXCEPT ![w] = NoWish]
    BY <1>3, WishGone
  <2>2. Store!Answer(w)
    BY <1>1, <2>1 DEF Store!Answer, Store!NoWish, NoWish, Says, Wishes, Cites
  <2> QED
    BY <2>2 DEF Store!StoreNext
<1> QED
  BY <1>2, <1>3

\* PutDocument up to its publication, the ways it may fail, and the end of a request.
LEMMA PutStores ==
  ASSUME TypeOK, Inv, NEW w \in Requests,
         \/ Lock(w) \/ PutConflict(w) \/ PutSame(w) \/ PutBegin(w) \/ PutStage(w) \/ PutKey(w)
         \/ IndexChunk(w) \/ IndexFails(w) \/ RequestFails(w) \/ Restore(w) \/ RestoreFails(w)
         \/ DeleteConflict(w)
  PROVE  Store!StoreNext \/ UNCHANGED <<Says, Wishes, Cites>>
<1>1. req \in [Requests -> Req] /\ RequestSound(req[w]) /\ StagedSound(req[w])
  BY DEF TypeOK, Inv
<1>2. CASE PutConflict(w) \/ RequestFails(w) \/ DeleteConflict(w) \/ IndexFails(w)
           \/ Restore(w) \/ RestoreFails(w)
  <2>1. ReqAnswered(w)
    BY <1>1, <1>2, AnswerMoves
       DEF PutConflict, RequestFails, DeleteConflict, IndexFails, Restore, RestoreFails
  <2>2. UNCHANGED <<doc, reader>>
    BY <1>2
       DEF PutConflict, RequestFails, DeleteConflict, IndexFails, Restore, RestoreFails, sql
  <2> QED
    BY <2>1, <2>2, SameSays, RequestStores
<1>3. CASE PutSame(w)
  <2>1. ReqMoved(w, "restore", req[w].at) /\ UNCHANGED <<doc, reader>>
    BY <1>1, <1>3, StepMoves DEF PutSame, PCs
  <2> QED
    BY <2>1, SameSays, RequestStores
<1>4. CASE Lock(w)
  <2>1. ReqMoved(w, "check", req[w].at) /\ req[w].pc = "call" /\ UNCHANGED <<doc, reader>>
    BY <1>1, <1>4, StepMoves DEF Lock, PCs, sql
  <2>2. Wishes' = Wishes
    BY <2>1, WishKept
  <2> QED
    BY <2>1, <2>2, SameSays, RequestStores
<1>5. CASE PutBegin(w)
  <2>1. ReqMoved(w, "stage", req[w].at) /\ req[w].pc = "check" /\ UNCHANGED reader
    BY <1>1, <1>5, StepMoves DEF PutBegin, PCs
  <2>2. Wishes' = Wishes
    BY <2>1, WishKept
  <2>3. \A d \in Docs : doc'[d].active = doc[d].active /\ doc'[d].deleted = doc[d].deleted
    <3>1. req[w].v[1] \in Docs /\ doc[req[w].v[1]] \in Doc
      BY <1>1, <2>1, VersionParts DEF RequestSound, TypeOK
    <3>2. doc' = [doc EXCEPT ![req[w].v[1]] = [doc[req[w].v[1]] EXCEPT !.known = TRUE]]
      BY <1>5 DEF PutBegin
    <3> QED
      BY <3>1, <3>2 DEF TypeOK, Doc
  <2> QED
    BY <2>1, <2>2, <2>3, SameSays, RequestStores
<1>6. CASE PutStage(w)
  <2>1. ReqMoved(w, "key", req[w].at) /\ req[w].pc = "stage" /\ UNCHANGED <<doc, reader>>
    BY <1>1, <1>6, StepMoves DEF PutStage, PCs
  <2>2. Wishes' = Wishes
    BY <2>1, WishKept
  <2> QED
    BY <2>1, <2>2, SameSays, RequestStores
<1>7. CASE PutKey(w)
  <2>1. req[w].pc = "key" /\ UNCHANGED <<doc, reader>>
    BY <1>7 DEF PutKey
  <2>2. CASE source
    <3>1. ReqMoved(w, "index", req[w].at)
      BY <1>1, <1>7, <2>2, StepMoves DEF PutKey, PCs
    <3>2. Wishes' = Wishes
      BY <2>1, <3>1, WishKept
    <3> QED
      BY <2>1, <3>2, SameSays, RequestStores
  <2>3. CASE ~source
    <3>1. ReqAnswered(w)
      BY <1>1, <1>7, <2>3, AnswerMoves DEF PutKey
    <3> QED
      BY <2>1, <3>1, SameSays, RequestStores
  <2> QED
    BY <2>2, <2>3
<1>8. CASE IndexChunk(w)
  <2>1. req[w].pc = "index" /\ req[w].at \in Chunks /\ UNCHANGED <<doc, reader>>
    BY <1>1, <1>8 DEF IndexChunk, StagedSound, Staged
  <2>2. ReqMoved(w, IF req[w].at = NChunks THEN "publish" ELSE "index", req[w].at + 1)
    BY <1>1, <1>8, <2>1, ChunkMoves
  <2>3. Wishes' = Wishes
    <3>1. CASE req[w].at = NChunks
      <4>1. ReqMoved(w, "publish", req[w].at + 1)
        BY <2>2, <3>1
      <4> QED
        BY <2>1, <4>1, WishKept
    <3>2. CASE req[w].at # NChunks
      <4>1. ReqMoved(w, "index", req[w].at + 1)
        BY <2>2, <3>2
      <4> QED
        BY <2>1, <4>1, WishKept
    <3> QED
      BY <3>1, <3>2
  <2> QED
    BY <2>1, <2>3, SameSays, RequestStores
<1> QED
  BY <1>2, <1>3, <1>4, <1>5, <1>6, <1>7, <1>8

\* The transactions of Publish and Tombstone grant a wish.
LEMMA GrantStores ==
  ASSUME TypeOK, Inv, NEW w \in Requests, Publish(w) \/ Tombstone(w)
  PROVE  Store!StoreNext
<1> DEFINE q == req[w]
           d == q.v[1]
           delete == q.kind = "delete"
           new == [version |-> q.v, deleted |-> delete]
<1>1. /\ req \in [Requests -> Req] /\ RequestSound(q) /\ StagedSound(q)
      /\ q.pc \in {"check", "publish"} /\ Busy(w)
  BY DEF TypeOK, Inv, Publish, Tombstone, Busy
<1>2. q.v \in Versions /\ d \in Docs /\ doc \in [Docs -> Doc]
  BY <1>1, VersionParts DEF RequestSound, TypeOK
<1>3. Wishes[w] = [delete |-> delete, v |-> q.v, known |-> q.expected]
  BY <1>1 DEF Wishes, WishOf
<1>4. Wishes[w] # NoWish
  BY <1>2, <1>3, VersionParts DEF NoWish
<1>5. Wishes' = [Wishes EXCEPT ![w] = NoWish]
  <2>1. ReqMoved(w, "restore", q.at)
    BY <1>1, StepMoves DEF Publish, Tombstone, PCs
  <2> QED
    BY <2>1, WishGone
<1>6. Cites' = Cites /\ \A r \in Readers : Cites[r] = None
  <2>1. UNCHANGED reader
    BY DEF Publish, Tombstone
  <2>2. \A r \in Readers : reader[r].pc # "cite"
    BY <1>1, OthersWait
  <2> QED
    BY <2>1, <2>2, SameCites DEF Cites
<1>7. Says[d].version \in {q.expected, q.v}
  <2>1. doc[d].active \in {q.expected, q.v}
    BY <1>1 DEF Publish, Tombstone, StagedSound, Staged
  <2> QED
    BY <1>2, <2>1 DEF Says
<1>8. Says' = [Says EXCEPT ![d] = new]
  <2>1. CASE Publish(w)
    <3>1. ~delete
      BY <1>1, <2>1 DEF RequestSound, Publish
    <3>2. doc' = [doc EXCEPT ![d] = [known |-> TRUE, active |-> q.v, deleted |-> FALSE,
                                     index |-> "indexed"]]
      BY <2>1 DEF Publish
    <3> QED
      BY <1>2, <3>1, <3>2 DEF Says
  <2>2. CASE Tombstone(w)
    <3>1. delete /\ doc[d].active = q.v
      BY <1>1, <2>2 DEF RequestSound, Tombstone
    <3>2. doc' = [doc EXCEPT ![d] = [doc[d] EXCEPT !.deleted = TRUE,
                                                  !.index = "cleanup_pending"]]
      BY <1>2, <2>2 DEF Tombstone
    <3>3. /\ doc'[d].active = q.v /\ doc'[d].deleted = TRUE
          /\ \A x \in Docs : x # d => doc'[x] = doc[x]
      BY <1>2, <3>1, <3>2 DEF Doc
    <3> QED
      BY <1>2, <3>1, <3>3 DEF Says
  <2> QED
    BY <2>1, <2>2
<1> HIDE DEF delete
<1>9. Store!Grant(w)
  <2>1. Wishes[w].v = q.v /\ Wishes[w].known = q.expected /\ Wishes[w].delete = delete
    BY <1>3
  <2>2. Says[Wishes[w].v[1]].version \in {Wishes[w].known, Wishes[w].v}
    BY <1>7, <2>1
  <2>3. Says' = [Says EXCEPT ![Wishes[w].v[1]] =
                   [version |-> Wishes[w].v, deleted |-> Wishes[w].delete]]
    BY <1>8, <2>1
  <2> HIDE DEF q, d
  <2> QED
    BY <1>4, <1>5, <1>6, <2>2, <2>3
       DEF Store!Grant, Store!NoWish, NoWish, Says, Wishes, Cites
<1> QED
  BY <1>9 DEF Store!StoreNext

\* A diagnosis cites what is live, and otherwise nothing.
LEMMA ReaderStores ==
  ASSUME TypeOK, NEW r \in Readers,
         (\E hits \in SUBSET Versions : Search(r, hits)) \/ Diagnose(r) \/ RecordFails(r)
  PROVE  Store!StoreNext
<1>1. ASSUME NEW pc, NEW hits, NEW hit, ReaderMoved(r, pc, hits, hit)
      PROVE  /\ Says' = Says /\ Wishes' = Wishes
             /\ Cites' = [Cites EXCEPT ![r] = IF pc = "cite" THEN hit ELSE None]
  <2>1. Says' = Says /\ Wishes' = Wishes
    BY <1>1, SameSays, SameWishes DEF ReaderMoved, sql
  <2>2. /\ reader'[r].pc = pc /\ reader'[r].hit = hit
        /\ \A u \in Readers : u # r => reader'[u] = reader[u]
    BY <1>1 DEF ReaderMoved
  <2> QED
    BY <2>1, <2>2 DEF Cites
<1>2. ASSUME NEW pc, NEW hits, NEW hit, ReaderMoved(r, pc, hits, hit), pc # "cite"
      PROVE  Store!StoreNext
  <2>1. Says' = Says /\ Wishes' = Wishes /\ Cites' = [Cites EXCEPT ![r] = None]
    BY <1>1, <1>2
  <2>2. Store!Cited(r)
    BY <2>1 DEF Store!Cited, Says, Wishes, Cites
  <2> QED
    BY <2>2 DEF Store!StoreNext
<1>3. ASSUME NEW v \in Versions, Qualify(r, v), Eligible(v)
      PROVE  Store!StoreNext
  <2>1. ReaderMoved(r, "cite", reader[r].hits \ {v}, v)
    BY <1>3, ReaderSteps
  <2>2. Says' = Says /\ Wishes' = Wishes /\ Cites' = [Cites EXCEPT ![r] = v]
    BY <1>1, <2>1
  <2>3. Says[v[1]] = [version |-> v, deleted |-> FALSE]
    <3>1. v[1] \in Docs /\ doc[v[1]] \in Doc
      BY VersionParts DEF TypeOK
    <3>2. doc[v[1]].active = v /\ doc[v[1]].deleted = FALSE
      BY <1>3, <3>1 DEF Eligible, Live, Doc
    <3> QED
      BY <3>1, <3>2 DEF Says
  <2>4. Store!Cite(r, v)
    BY <2>2, <2>3 DEF Store!Cite, Store!Shown, Says, Wishes, Cites
  <2> QED
    BY <2>4 DEF Store!StoreNext
<1>4. ASSUME NEW v \in Versions, Qualify(r, v), ~Eligible(v)
      PROVE  Store!StoreNext
  <2>1. ReaderMoved(r, "qualify", reader[r].hits \ {v}, None)
    BY <1>4, ReaderSteps
  <2> QED
    BY <1>2, <2>1
<1>5. ASSUME NEW hits \in SUBSET Versions, Search(r, hits)
      PROVE  Store!StoreNext
  <2>1. ReaderMoved(r, "searched", hits, reader[r].hit)
    BY <1>5, ReaderSteps
  <2> QED
    BY <1>2, <2>1
<1>6. CASE RLock(r)
  <2>1. ReaderMoved(r, "qualify", reader[r].hits, reader[r].hit)
    BY <1>6, ReaderSteps
  <2> QED
    BY <1>2, <2>1
<1>7. CASE Cite(r)
  <2>1. ReaderMoved(r, "qualify", reader[r].hits, None)
    BY <1>7, ReaderSteps
  <2> QED
    BY <1>2, <2>1
<1>8. CASE RUnlock(r) \/ RecordFails(r)
  <2>1. ReaderMoved(r, "idle", {}, None)
    BY <1>8, ReaderSteps
  <2> QED
    BY <1>2, <2>1
<1> QED
  BY <1>3, <1>4, <1>5, <1>6, <1>7, <1>8 DEF Diagnose

\* The cleanup, probes and a boot change nothing of the store; an exit is a restart of it.
LEMMA ProcessStores ==
  ASSUME TypeOK, Inv,
         \/ \E v \in Versions : CleanupLocks(v)
         \/ Purge \/ PurgeFails \/ SettleCleanup \/ SettleFails
         \/ ProbeSucceeds \/ ProbeFails \/ Exit \/ Boot
  PROVE  Store!StoreNext \/ UNCHANGED <<Says, Wishes, Cites>>
<1>1. CASE Exit
  <2>1. Says' = Says
    BY <1>1, SameSays DEF Exit, sql
  <2>2. Wishes' = [w \in Requests |-> NoWish]
    BY <1>1 DEF Exit, Wishes, WishOf, IdleReq, NoWish
  <2>3. Cites' = [r \in Readers |-> None]
    BY <1>1 DEF Exit, Cites, IdleReader
  <2>4. Store!Restart
    BY <2>1, <2>2, <2>3 DEF Store!Restart, Store!NoWish, NoWish, Says, Wishes, Cites
  <2> QED
    BY <2>4 DEF Store!StoreNext
<1>2. CASE SettleCleanup
  <2>1. cleaner.v \in Versions /\ cleaner.v[1] \in Docs /\ UNCHANGED <<req, reader>>
    BY <1>2, VersionParts DEF SettleCleanup, Inv, CleanerSound
  <2>2. \A d \in Docs : doc'[d].active = doc[d].active /\ doc'[d].deleted = doc[d].deleted
    <3>1. doc \in [Docs -> Doc]
      BY DEF TypeOK
    <3>2. \/ doc' = doc
          \/ doc' = [doc EXCEPT ![cleaner.v[1]] = [doc[cleaner.v[1]] EXCEPT !.index = "removed"]]
      BY <1>2 DEF SettleCleanup
    <3> QED
      BY <2>1, <3>1, <3>2 DEF Doc
  <2> QED
    BY <2>1, <2>2, SameSays, SameWishes, SameCites
<1>3. CASE ~Exit /\ ~SettleCleanup
  <2>1. UNCHANGED <<doc, req, reader>>
    BY <1>3 DEF CleanupLocks, Purge, PurgeFails, SettleFails, ProbeSucceeds, ProbeFails, Boot, sql
  <2> QED
    BY <2>1, SameSays, SameWishes, SameCites
<1> QED
  BY <1>1, <1>2, <1>3

\* Every step is a step of the document store, or changes nothing of it.
LEMMA NextStores ==
  ASSUME TypeOK, Inv, [Next]_vars
  PROVE  Store!StoreNext \/ UNCHANGED <<Says, Wishes, Cites>>
<1>1. CASE UNCHANGED vars
  BY <1>1, SameSays, SameWishes, SameCites DEF vars
<1>2. ASSUME NEW w \in Requests, NEW v \in Versions, Call(w, v)
      PROVE  Store!StoreNext
  BY <1>2, CallStores
<1>3. ASSUME NEW w \in Requests,
             Request(w) \/ IndexFails(w) \/ RestoreFails(w) \/ RequestFails(w)
      PROVE  Store!StoreNext \/ UNCHANGED <<Says, Wishes, Cites>>
  BY <1>3, PutStores, GrantStores DEF Request, PutDocument, DeleteDocument
<1>4. CASE \/ \E v \in Versions : CleanupLocks(v)
           \/ Purge \/ PurgeFails \/ SettleCleanup \/ SettleFails
           \/ ProbeSucceeds \/ ProbeFails \/ Exit \/ Boot
  BY <1>4, ProcessStores
<1>5. ASSUME NEW r \in Readers,
             (\E hits \in SUBSET Versions : Search(r, hits)) \/ Diagnose(r) \/ RecordFails(r)
      PROVE  Store!StoreNext
  BY <1>5, ReaderStores
<1> QED
  BY <1>1, <1>2, <1>3, <1>4, <1>5 DEF Next

\* Knowledge implements DocumentStore: publications and deletions take effect once, at one
\* moment, on the version their client knew and never under a citation, and no failure, cleanup,
\* probe or restart changes what a document says (PutDocument, DeleteDocument, diagnose).
THEOREM StoreProved == Spec => ImplementsStore
<1>1. Init => Store!StoreInit
  <2> SUFFICES ASSUME Init PROVE Store!StoreInit
    OBVIOUS
  <2>1. Says = [d \in Docs |-> [version |-> None, deleted |-> FALSE]]
    BY DEF Init, Says, NoDoc
  <2>2. Wishes = [w \in Requests |-> NoWish]
    BY DEF Init, Wishes, WishOf, IdleReq, NoWish
  <2>3. Cites = [r \in Readers |-> None]
    BY DEF Init, Cites, IdleReader
  <2> QED
    BY <2>1, <2>2, <2>3 DEF Store!StoreInit, Store!NoWish, NoWish, Says, Wishes, Cites
<1>2. TypeOK /\ Inv /\ [Next]_vars => [Store!StoreNext]_(Store!storeVars)
  BY NextStores DEF Store!storeVars, Says, Wishes, Cites
<1> QED
  BY <1>1, <1>2, InvProved, PTL DEF Spec, ImplementsStore, Store!StoreSpec

=============================================================================
