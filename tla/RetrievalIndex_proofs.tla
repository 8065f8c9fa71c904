------------------------ MODULE RetrievalIndex_proofs ------------------------
(***************************************************************************)
(* Proofs about RetrievalIndex and BM25, for any documents, texts, models, *)
(* collections and configurations, any number of restarts and writes, and  *)
(* any number of requests of the legacy process at a time.                 *)
(***************************************************************************)
EXTENDS RetrievalIndex, FiniteSetTheorems, SequenceTheorems, TLAPS

Versions == Docs \X Bodies \X Models
Entries == [text : Seq(Terms), source : {"upload", "demo", "incident"}]

\* What the index of a process may hold: finitely many versions, or chunks of the legacy process.
Ids == Versions \cup (Docs \X Bodies)
Mirrors == UNION {[ids -> Entries] : ids \in {s \in SUBSET Ids : IsFiniteSet(s)}}

\* The indexes whose numbers are what a count from the beginning gives.
Indexes == {Recount(docs) : docs \in Mirrors}

-----------------------------------------------------------------------------
(* Counting                                                                *)

\* What a mirror is.
LEMMA MirrorIs ==
  ASSUME NEW docs
  PROVE  docs \in Mirrors <=> /\ docs \in [DOMAIN docs -> Entries]
                              /\ DOMAIN docs \subseteq Ids /\ IsFiniteSet(DOMAIN docs)
  BY DEF Mirrors

\* The entries that hold a term are finitely many, and none if the term is no term of theirs.
LEMMA HoldingType ==
  ASSUME NEW docs \in Mirrors, NEW t
  PROVE  /\ IsFiniteSet(Holders(docs, t))
         /\ Holding(docs, t) \in Nat
         /\ Holding(docs, t) <= Cardinality(DOMAIN docs)
         /\ t \in TermsOf(docs) <=> Holding(docs, t) > 0
<1>1. IsFiniteSet(DOMAIN docs)
  BY MirrorIs
<1>2. Holders(docs, t) \in SUBSET DOMAIN docs
  BY DEF Holders
<1>3. IsFiniteSet(Holders(docs, t)) /\ Holding(docs, t) <= Cardinality(DOMAIN docs)
  BY <1>1, <1>2, FS_Subset DEF Holding
<1>4. Holding(docs, t) \in Nat /\ (Holding(docs, t) = 0 <=> Holders(docs, t) = {})
  BY <1>3, FS_CardinalityType, FS_EmptySet DEF Holding
<1>5. t \in TermsOf(docs) <=> Holders(docs, t) # {}
  BY DEF TermsOf, Holders
<1> QED
  BY <1>3, <1>4, <1>5

\* The places of terms are finitely many.
LEMMA LengthType ==
  ASSUME NEW docs \in Mirrors
  PROVE  IsFiniteSet(Places(docs)) /\ Length(docs) \in Nat
<1> DEFINE P(id) == {id} \X DOMAIN docs[id].text
           all == {P(id) : id \in DOMAIN docs}
           f == [id \in DOMAIN docs |-> P(id)]
<1>1. IsFiniteSet(DOMAIN docs) /\ docs \in [DOMAIN docs -> Entries]
  BY MirrorIs
<1>2. ASSUME NEW id \in DOMAIN docs PROVE IsFiniteSet(P(id))
  <2>1. docs[id].text \in Seq(Terms)
    BY <1>1 DEF Entries
  <2>2. DOMAIN docs[id].text = 1..Len(docs[id].text) /\ Len(docs[id].text) \in Nat
    BY <2>1
  <2>3. IsFiniteSet(DOMAIN docs[id].text)
    BY <2>2, FS_Interval
  <2> QED
    BY <2>3, FS_Singleton, FS_Product
<1>3. f \in Surjection(DOMAIN docs, all)
  BY DEF Surjection
<1>4. IsFiniteSet(all)
  BY <1>1, <1>3, FS_Surjection
<1>5. \A T \in all : IsFiniteSet(T)
  BY <1>2
<1>6. IsFiniteSet(UNION all)
  BY <1>4, <1>5, FS_UNION
<1>7. Places(docs) = UNION all
  BY DEF Places
<1> QED
  BY <1>6, <1>7, FS_CardinalityType DEF Length

\* A mirror in two parts.
LEMMA PartsAreMirrors ==
  ASSUME NEW docs \in Mirrors, NEW ids
  PROVE  Part(docs, ids) \in Mirrors /\ Without(docs, ids) \in Mirrors
<1>1. docs \in [DOMAIN docs -> Entries] /\ DOMAIN docs \subseteq Ids /\ IsFiniteSet(DOMAIN docs)
  BY MirrorIs
<1>2. IsFiniteSet(DOMAIN docs \cap ids) /\ IsFiniteSet(DOMAIN docs \ ids)
  BY <1>1, FS_Intersection, FS_Difference
<1>3. Part(docs, ids) \in [DOMAIN docs \cap ids -> Entries]
  BY <1>1 DEF Part
<1>4. Without(docs, ids) \in [DOMAIN docs \ ids -> Entries]
  BY <1>1 DEF Without
<1> QED
  BY <1>1, <1>2, <1>3, <1>4 DEF Mirrors

\* Mirrors without common identifiers, as one.
LEMMA Joined ==
  ASSUME NEW a \in Mirrors, NEW b \in Mirrors
  PROVE  /\ Over(a, b) \in Mirrors
         /\ DOMAIN Over(a, b) = DOMAIN a \cup DOMAIN b
         /\ \A id \in DOMAIN a \cup DOMAIN b :
              Over(a, b)[id] = IF id \in DOMAIN a THEN a[id] ELSE b[id]
<1>1. a \in [DOMAIN a -> Entries] /\ DOMAIN a \subseteq Ids /\ IsFiniteSet(DOMAIN a)
  BY MirrorIs
<1>2. b \in [DOMAIN b -> Entries] /\ DOMAIN b \subseteq Ids /\ IsFiniteSet(DOMAIN b)
  BY MirrorIs
<1>3. IsFiniteSet(DOMAIN a \cup DOMAIN b)
  BY <1>1, <1>2, FS_Union
<1>4. Over(a, b) = [id \in DOMAIN a \cup DOMAIN b |-> IF id \in DOMAIN a THEN a[id] ELSE b[id]]
  BY DEF Over
<1>5. Over(a, b) \in [DOMAIN a \cup DOMAIN b -> Entries]
  BY <1>1, <1>2, <1>4
<1>6. Over(a, b) \in Mirrors
  BY <1>1, <1>2, <1>3, <1>5 DEF Mirrors
<1> QED
  BY <1>4, <1>6

\* Counts and lengths of mirrors without common identifiers add up.
LEMMA JoinedCounts ==
  ASSUME NEW a \in Mirrors, NEW b \in Mirrors, DOMAIN a \cap DOMAIN b = {}
  PROVE  /\ \A t : Holding(Over(a, b), t) = Holding(a, t) + Holding(b, t)
         /\ TermsOf(Over(a, b)) = TermsOf(a) \cup TermsOf(b)
         /\ Length(Over(a, b)) = Length(a) + Length(b)
<1> DEFINE c == Over(a, b)
<1>0. /\ c \in Mirrors
      /\ DOMAIN c = DOMAIN a \cup DOMAIN b
      /\ \A id \in DOMAIN a \cup DOMAIN b : c[id] = IF id \in DOMAIN a THEN a[id] ELSE b[id]
  BY Joined
<1> HIDE DEF c
<1>1. /\ DOMAIN c = DOMAIN a \cup DOMAIN b
      /\ \A id \in DOMAIN a : c[id] = a[id]
      /\ \A id \in DOMAIN b : c[id] = b[id]
  BY <1>0
<1>2. ASSUME NEW t PROVE Holding(c, t) = Holding(a, t) + Holding(b, t)
  <2>1. Holders(c, t) = Holders(a, t) \cup Holders(b, t)
    BY <1>1 DEF Holders
  <2>2. Holders(a, t) \cap Holders(b, t) = {}
    BY DEF Holders
  <2>3. IsFiniteSet(Holders(a, t)) /\ IsFiniteSet(Holders(b, t))
    BY HoldingType
  <2>4. Holding(a, t) \in Nat /\ Holding(b, t) \in Nat
    BY HoldingType
  <2>5. Cardinality(Holders(a, t) \cup Holders(b, t))
          = Cardinality(Holders(a, t)) + Cardinality(Holders(b, t)) - Cardinality({})
    BY <2>2, <2>3, FS_Union
  <2> QED
    BY <2>1, <2>4, <2>5, FS_EmptySet DEF Holding
<1>3. TermsOf(c) = TermsOf(a) \cup TermsOf(b)
  BY <1>1 DEF TermsOf
<1>4. Length(c) = Length(a) + Length(b)
  <2>1. Places(c) = Places(a) \cup Places(b)
    BY <1>1 DEF Places
  <2>2. Places(a) \cap Places(b) = {}
    BY DEF Places
  <2>3. /\ IsFiniteSet(Places(a)) /\ IsFiniteSet(Places(b))
        /\ Length(a) \in Nat /\ Length(b) \in Nat
    BY LengthType
  <2>4. Cardinality(Places(a) \cup Places(b))
          = Cardinality(Places(a)) + Cardinality(Places(b)) - Cardinality({})
    BY <2>2, <2>3, FS_Union
  <2> QED
    BY <2>1, <2>3, <2>4, FS_EmptySet DEF Length
<1> QED
  BY <1>2, <1>3, <1>4 DEF c

\* Taking entries out of the counts leaves what a count of the rest gives.
LEMMA UncountedIsRecount ==
  ASSUME NEW docs \in Mirrors, NEW ids
  PROVE  /\ Uncounted(Recount(docs).df, Part(docs, ids)) = Recount(Without(docs, ids)).df
         /\ Length(docs) - Length(Part(docs, ids)) = Length(Without(docs, ids))
<1> DEFINE a == Part(docs, ids)
           b == Without(docs, ids)
<1>1. a \in Mirrors /\ b \in Mirrors
  BY PartsAreMirrors
<1>2. Over(a, b) = docs /\ DOMAIN a \cap DOMAIN b = {}
  <2>1. docs = [id \in DOMAIN docs |-> docs[id]]
    BY MirrorIs
  <2>2. DOMAIN a = DOMAIN docs \cap ids /\ DOMAIN b = DOMAIN docs \ ids
    BY DEF Part, Without
  <2>3. DOMAIN a \cup DOMAIN b = DOMAIN docs
    BY <2>2
  <2>4. \A id \in DOMAIN docs : (IF id \in DOMAIN a THEN a[id] ELSE b[id]) = docs[id]
    BY <2>2 DEF Part, Without
  <2> QED
    BY <2>1, <2>2, <2>3, <2>4 DEF Over
<1> HIDE DEF a, b
<1>3. /\ \A t : Holding(docs, t) = Holding(a, t) + Holding(b, t)
      /\ TermsOf(docs) = TermsOf(a) \cup TermsOf(b)
      /\ Length(docs) = Length(a) + Length(b)
  BY <1>1, <1>2, JoinedCounts
<1>4. ASSUME NEW t
      PROVE  /\ Holding(a, t) \in Nat /\ Holding(b, t) \in Nat
             /\ t \in TermsOf(a) <=> Holding(a, t) > 0
             /\ t \in TermsOf(b) <=> Holding(b, t) > 0
  BY <1>1, HoldingType
<1>5. Length(docs) - Length(a) = Length(b)
  BY <1>1, <1>3, LengthType
<1> DEFINE df == [t \in TermsOf(docs) |-> Holding(docs, t)]
<1>6. {t \in DOMAIN df : Holding(a, t) = 0 \/ df[t] > Holding(a, t)} = TermsOf(b)
  BY <1>3, <1>4
<1>7. \A t \in TermsOf(b) : df[t] - Holding(a, t) = Holding(b, t)
  BY <1>3, <1>4
<1>8. Uncounted(df, a) = [t \in TermsOf(b) |-> Holding(b, t)]
  BY <1>6, <1>7 DEF Uncounted
<1> QED
  BY <1>5, <1>8 DEF Recount, a, b

\* Counting entries gives what a count of all gives.
LEMMA CountedIsRecount ==
  ASSUME NEW a \in Mirrors, NEW b \in Mirrors, DOMAIN a \cap DOMAIN b = {}
  PROVE  Counted(Recount(b).df, a) = Recount(Over(a, b)).df
<1> DEFINE c == Over(a, b)
           df == [t \in TermsOf(b) |-> Holding(b, t)]
<1>1. /\ \A t : Holding(c, t) = Holding(a, t) + Holding(b, t)
      /\ TermsOf(c) = TermsOf(a) \cup TermsOf(b)
  BY JoinedCounts
<1>2. ASSUME NEW t
      PROVE  /\ Holding(a, t) \in Nat /\ Holding(b, t) \in Nat
             /\ t \in TermsOf(b) <=> Holding(b, t) > 0
  BY HoldingType
<1> HIDE DEF c
<1>3. \A t \in TermsOf(c) : Lookup(df, t, 0) + Holding(a, t) = Holding(c, t)
  BY <1>1, <1>2 DEF Lookup
<1>4. DOMAIN df \cup TermsOf(a) = TermsOf(c)
  BY <1>1
<1>5. Counted(df, a) = [t \in TermsOf(c) |-> Holding(c, t)]
  BY <1>3, <1>4 DEF Counted
<1> QED
  BY <1>5 DEF Recount, c

\* An exact index stays exact when entries are written over others.
LEMMA UpsertIndex ==
  ASSUME NEW index \in Indexes, NEW entries \in Mirrors
  PROVE  /\ Upsert(index, entries) \in Indexes
         /\ Upsert(index, entries).docs = Over(entries, index.docs)
<1>1. PICK docs \in Mirrors : index = Recount(docs)
  BY DEF Indexes
<1> DEFINE rest == Without(docs, DOMAIN entries)
           old == Part(docs, DOMAIN entries)
           new == Over(entries, docs)
<1>2. rest \in Mirrors /\ old \in Mirrors /\ new \in Mirrors
  BY PartsAreMirrors, Joined
<1>3. DOMAIN entries \cap DOMAIN rest = {}
  BY DEF Without
<1>4. Over(entries, rest) = new
  <2>1. DOMAIN entries \cup DOMAIN rest = DOMAIN entries \cup DOMAIN docs
    BY DEF Without
  <2>2. \A id \in DOMAIN docs \ DOMAIN entries : rest[id] = docs[id]
    BY DEF Without
  <2> QED
    BY <2>1, <2>2 DEF Over
<1>5. /\ Uncounted(Recount(docs).df, old) = Recount(rest).df
      /\ Length(docs) - Length(old) = Length(rest)
  BY UncountedIsRecount
<1>6. Counted(Recount(rest).df, entries) = Recount(new).df
  BY <1>2, <1>3, <1>4, CountedIsRecount
<1>7. Length(rest) + Length(entries) = Length(new)
  <2>1. Length(Over(entries, rest)) = Length(entries) + Length(rest)
    BY <1>2, <1>3, JoinedCounts
  <2> QED
    BY <1>2, <1>4, <2>1, LengthType
<1> HIDE DEF rest, old, new
<1>8. Recount(docs).docs = docs /\ Recount(docs).totLen = Length(docs)
  BY DEF Recount
<1>9. Upsert(index, entries) = [docs |-> new, df |-> Recount(new).df, totLen |-> Length(new)]
  BY <1>1, <1>5, <1>6, <1>7, <1>8 DEF Upsert, old, new
<1>10. Upsert(index, entries) = Recount(new)
  BY <1>9 DEF Recount
<1> QED
  BY <1>1, <1>2, <1>8, <1>9, <1>10 DEF Indexes, new

\* And when entries are removed.
LEMMA RemoveIndex ==
  ASSUME NEW index \in Indexes, NEW ids
  PROVE  /\ RemoveEntries(index, ids) \in Indexes
         /\ RemoveEntries(index, ids).docs = Without(index.docs, ids)
<1>1. PICK docs \in Mirrors : index = Recount(docs)
  BY DEF Indexes
<1> DEFINE rest == Without(docs, ids)
           old == Part(docs, ids)
<1>2. rest \in Mirrors
  BY PartsAreMirrors
<1>3. /\ Uncounted(Recount(docs).df, old) = Recount(rest).df
      /\ Length(docs) - Length(old) = Length(rest)
  BY UncountedIsRecount
<1> HIDE DEF rest, old
<1>4. Recount(docs).docs = docs /\ Recount(docs).totLen = Length(docs)
  BY DEF Recount
<1>5. RemoveEntries(index, ids) = [docs |-> rest, df |-> Recount(rest).df, totLen |-> Length(rest)]
  BY <1>1, <1>3, <1>4 DEF RemoveEntries, old, rest
<1>6. RemoveEntries(index, ids) = Recount(rest)
  BY <1>5 DEF Recount
<1> QED
  BY <1>1, <1>2, <1>4, <1>5, <1>6 DEF Indexes, rest

\* An exact index has a mirror of entries.
LEMMA IndexIs ==
  ASSUME NEW index \in Indexes
  PROVE  /\ index.docs \in Mirrors
         /\ index = Recount(index.docs)
<1>1. PICK docs \in Mirrors : index = Recount(docs)
  BY DEF Indexes
<1>2. index.docs = docs
  BY <1>1 DEF Recount
<1> QED
  BY <1>1, <1>2

\* An empty index is exact.
LEMMA EmptyIsExact == EmptyIndex \in Indexes /\ DOMAIN EmptyIndex.docs = {}
<1>1. DOMAIN <<>> = {}
  OBVIOUS
<1>2. <<>> \in [{} -> Entries]
  BY <1>1
<1>3. <<>> \in Mirrors
  BY <1>2, FS_EmptySet DEF Mirrors
<1>4. TermsOf(<<>>) = {}
  BY <1>1 DEF TermsOf
<1>5. Length(<<>>) = 0
  <2>1. Places(<<>>) = {}
    BY <1>1 DEF Places
  <2> QED
    BY <2>1, FS_EmptySet DEF Length
<1>6. <<>> = [t \in {} |-> Holding(<<>>, t)]
  BY <1>1
<1>7. EmptyIndex = Recount(<<>>)
  BY <1>4, <1>5, <1>6 DEF EmptyIndex, Recount
<1> QED
  BY <1>1, <1>3, <1>7 DEF Indexes, EmptyIndex

-----------------------------------------------------------------------------
(* The invariant                                                           *)

Sources == {"upload", "demo", "incident"}
PCs == Probing \cup {"down", "idle", "index", "mirror", "publish", "restore", "forget"}

Process ==
  [pc : PCs, coll : Collections \cup {None}, model : Models \cup {None},
   space : Models \cup {Unavailable}, ok : BOOLEAN, versioned : BOOLEAN,
   chunks : SUBSET Versions, filter : [Docs -> Versions \cup {None}],
   index : Indexes, v : Versions \cup {None}]

Points == Versions \cup ((Docs \X Bodies) \X Sources)
Ops == [op : {"add"}, id : Docs \X Bodies, entry : Entries]
         \cup [op : {"doc", "source"}, value : Docs \cup {"demo"}]
Work == [pc : {"store", "mirror"}, todo : Seq(Ops) \ {<<>>}]

\* The types, and with them that the index of every process is exact.
Typed ==
  /\ fleet \in Fleets
  /\ coll \in [Collections ->
               [dim : Nat, marker : Models \cup {Unmarked}, points : SUBSET Points]]
  /\ active \in [Docs -> Versions \cup {None}]
  /\ deleted \in SUBSET Docs
  /\ pending \in SUBSET Versions
  /\ proc \in [fleet -> Process]
  /\ job \in [Jobs -> {IdleJob} \cup Work]

\* A process that runs has a configuration, and no space but the one of its model.
Configured(pr) ==
  /\ pr.pc # "down" => pr.coll \in Collections /\ pr.model \in Models
  /\ pr.versioned => pr.pc # "down"
  /\ pr.space \in {Unavailable, pr.model}
  /\ pr.ok => pr.space = pr.model
  /\ pr.pc \in {"index", "mirror", "publish", "forget"} => pr.v \in Versions

\* The index holds the chunks, and the filter, once there is one, lets through chunks of the space
\* only.
Mirrored(pr) ==
  /\ DOMAIN pr.index.docs = pr.chunks
  /\ \A v \in pr.chunks : pr.index.docs[v] = Entry(v)
Filtered(pr) ==
  \A d \in Docs : pr.filter[d] # None =>
    pr.versioned /\ pr.filter[d] \in pr.chunks /\ pr.filter[d][3] = pr.space

\* Between two writes the filter of the server is what SQL says, and the version whose chunks are
\* about to go from memory is not live.
FilterOf(space) == [d \in Docs |-> IF active[d] \in Published(space) THEN active[d] ELSE None]
Current(pr) ==
  /\ pr.versioned /\ pr.pc # "restore" => pr.filter = FilterOf(pr.space)
  /\ pr.pc = "forget" => ~Live(pr.v)

Sound(p, pr) ==
  /\ Configured(pr)
  /\ p = "legacy" => pr.pc \in {"down", "idle"} /\ ~pr.versioned
  /\ p # "legacy" => Mirrored(pr) /\ Filtered(pr)
  /\ p = "server" => Current(pr)

\* The inductive invariant.
SpaceInv == Typed /\ \A p \in fleet : Sound(p, proc[p])

-----------------------------------------------------------------------------
(* Processes                                                               *)

\* A version is none of the other values.
LEMMA VersionIs ==
  ASSUME NEW v \in Versions
  PROVE  /\ v # None
         /\ v[1] \in Docs /\ v[2] \in Bodies /\ v[3] \in Models /\ v[3] # Unavailable
         /\ v \in Ids
         /\ Entry(v) \in Entries /\ Entry(v).text # <<>>
<1>1. v[1] \in Docs /\ v[2] \in Bodies /\ v[3] \in Models /\ v = <<v[1], v[2], v[3]>>
  BY DEF Versions
<1>2. v # None
  BY <1>1 DEF None
<1>3. TextOf[v[2]] \in Seq(Terms) /\ TextOf[v[2]] # <<>>
  BY <1>1, RetrievalAssumption
<1> QED
  BY <1>1, <1>2, <1>3, RetrievalAssumption DEF Ids, Entry, Entries, Sources

\* What RestoreProjection finds: live versions of one space, finitely many.
LEMMA PublishedType ==
  ASSUME Typed, NEW space
  PROVE  /\ Published(space) \subseteq Versions /\ IsFiniteSet(Published(space))
         /\ \A v \in Published(space) : Live(v) /\ v[3] = space
         /\ \A v \in Versions : Live(v) /\ v[3] = space => v \in Published(space)
<1> DEFINE A == {active[d] : d \in Docs}
           f == [d \in Docs |-> active[d]]
<1>1. f \in Surjection(Docs, A)
  BY DEF Surjection
<1>2. IsFiniteSet(A)
  BY <1>1, RetrievalAssumption, FS_Surjection
<1>3. Published(space) \in SUBSET A
  BY DEF Published
<1>4. IsFiniteSet(Published(space))
  BY <1>2, <1>3, FS_Subset
<1>5. Published(space) \subseteq Versions
  BY DEF Published, Typed
<1>6. ASSUME NEW v \in Versions, Live(v), v[3] = space PROVE v \in Published(space)
  <2>1. v \in A /\ v # None
    BY <1>6, VersionIs DEF Live
  <2> QED
    BY <1>6, <2>1 DEF Published
<1> QED
  BY <1>4, <1>5, <1>6 DEF Published

\* The entries of versions are a mirror.
LEMMA VersionsMirror ==
  ASSUME NEW S \in SUBSET Versions, IsFiniteSet(S)
  PROVE  [v \in S |-> Entry(v)] \in Mirrors
<1>1. [v \in S |-> Entry(v)] \in [S -> Entries]
  BY VersionIs
<1>2. S \in SUBSET Ids
  BY DEF Ids
<1> QED
  BY <1>1, <1>2 DEF Mirrors

\* A process whose index gets the entries of more versions.
LEMMA MirroredMore ==
  ASSUME NEW pr \in Process, Mirrored(pr), NEW S \in SUBSET Versions, IsFiniteSet(S),
         NEW index, index = Upsert(pr.index, [v \in S |-> Entry(v)])
  PROVE  /\ index \in Indexes
         /\ DOMAIN index.docs = pr.chunks \cup S
         /\ \A v \in pr.chunks \cup S : index.docs[v] = Entry(v)
<1>1. pr.index \in Indexes
  BY DEF Process
<1>2. [v \in S |-> Entry(v)] \in Mirrors
  BY VersionsMirror
<1>3. index \in Indexes /\ index.docs = Over([v \in S |-> Entry(v)], pr.index.docs)
  BY <1>1, <1>2, UpsertIndex
<1> QED
  BY <1>3 DEF Over, Mirrored

\* RestoreProjection for the space of the process.
LEMMA RestoredIs ==
  ASSUME Typed, NEW pr \in Process, Mirrored(pr), NEW r, r = Restored(pr, pr.space)
  PROVE  /\ r \in Process /\ Mirrored(r) /\ Filtered(r)
         /\ r.pc = pr.pc /\ r.coll = pr.coll /\ r.model = pr.model /\ r.space = pr.space
         /\ r.ok = pr.ok /\ r.v = pr.v /\ r.filter = FilterOf(pr.space)
<1> DEFINE found == Published(pr.space)
           filter == FilterOf(pr.space)
           index == Upsert(pr.index, [v \in found |-> Entry(v)])
<1>1. /\ found \in SUBSET Versions /\ IsFiniteSet(found)
      /\ \A v \in found : v[3] = pr.space
  BY PublishedType
<1>2. filter \in [Docs -> Versions \cup {None}]
  BY DEF Typed, FilterOf
<1>3. \A d \in Docs : filter[d] # None => filter[d] \in found
  BY DEF FilterOf
<1> HIDE DEF found, index
<1>4. /\ index \in Indexes
      /\ DOMAIN index.docs = pr.chunks \cup found
      /\ \A v \in pr.chunks \cup found : index.docs[v] = Entry(v)
  BY <1>1, MirroredMore DEF index
<1>5. r = [pr EXCEPT !.chunks = pr.chunks \cup found, !.index = index,
                     !.filter = filter, !.versioned = TRUE]
  BY DEF Restored, FilterOf, found, index
<1> HIDE DEF filter
<1>6. /\ r.chunks = pr.chunks \cup found /\ r.index = index /\ r.filter = filter
      /\ r.versioned = TRUE
      /\ r.pc = pr.pc /\ r.coll = pr.coll /\ r.model = pr.model /\ r.space = pr.space
      /\ r.ok = pr.ok /\ r.v = pr.v
  BY <1>5 DEF Process
<1>7. r \in Process
  BY <1>1, <1>2, <1>4, <1>5 DEF Process
<1>8. Mirrored(r)
  BY <1>4, <1>6 DEF Mirrored
<1>9. Filtered(r)
  BY <1>1, <1>3, <1>6 DEF Filtered
<1> QED
  BY <1>6, <1>7, <1>8, <1>9 DEF filter

\* A process that is not there.
LEMMA DownIs ==
  ASSUME NEW p
  PROVE  Down \in Process /\ Sound(p, Down)
<1>1. Down \in Process
  BY EmptyIsExact DEF Down, Process, PCs
<1>2. Configured(Down) /\ Down.pc = "down" /\ ~Down.versioned
  BY DEF Configured, Down
<1>3. Mirrored(Down)
  BY EmptyIsExact DEF Mirrored, Down
<1>4. Filtered(Down)
  BY DEF Filtered, Down
<1> QED
  BY <1>1, <1>2, <1>3, <1>4 DEF Sound, Current

\* A step of one process, which may change what SQL says only if it is the server.
LEMMA OneProcess ==
  ASSUME SpaceInv, NEW p \in fleet, NEW r \in Process, proc' = [proc EXCEPT ![p] = r],
         fleet' = fleet, Sound(p, r)', p = "server" \/ UNCHANGED <<active, deleted>>
  PROVE  /\ proc' \in [fleet' -> Process]
         /\ (\A q \in fleet : Sound(q, proc[q]))'
<1>1. proc \in [fleet -> Process]
  BY DEF SpaceInv, Typed
<1>2. proc'[p] = r
  BY <1>1
<1>3. ASSUME NEW q \in fleet, q # p PROVE Sound(q, proc[q])'
  <2>1. proc'[q] = proc[q] /\ Sound(q, proc[q])
    BY <1>1, <1>3 DEF SpaceInv
  <2>2. CASE UNCHANGED <<active, deleted>>
    BY <2>1, <2>2
    DEF Sound, Configured, Mirrored, Filtered, Current, FilterOf, Published, Live, Entry
  <2>3. CASE p = "server"
    BY <1>3, <2>1, <2>3 DEF Sound, Configured, Mirrored, Filtered, Entry
  <2> QED
    BY <2>2, <2>3
<1> QED
  BY <1>1, <1>2, <1>3

\* A step that leaves the processes and what SQL says alone.
LEMMA NoProcess ==
  ASSUME SpaceInv, UNCHANGED <<fleet, proc, active, deleted>>
  PROVE  proc' \in [fleet' -> Process] /\ (\A q \in fleet : Sound(q, proc[q]))'
  BY DEF SpaceInv, Typed, Sound, Configured, Mirrored, Filtered, Current, FilterOf, Published, Live,
         Entry

\* A process that probes: what is known of it.
LEMMA ProbingIs ==
  ASSUME SpaceInv, NEW p \in fleet, proc[p].pc \in Probing
  PROVE  /\ proc[p] \in Process /\ Sound(p, proc[p]) /\ p # "legacy"
         /\ proc[p].coll \in Collections /\ proc[p].model \in Models
         /\ Mirrored(proc[p]) /\ Filtered(proc[p])
  BY DEF SpaceInv, Typed, Sound, Configured, Probing

\* The probe goes on.
LEMMA GoesSound ==
  ASSUME SpaceInv, NEW p \in fleet, proc[p].pc \in Probing, NEW pc \in Probing, Goes(p, pc),
         UNCHANGED <<fleet, active, deleted>>
  PROVE  proc' \in [fleet' -> Process] /\ (\A q \in fleet : Sound(q, proc[q]))'
<1> DEFINE pr == proc[p]
           r == [pr EXCEPT !.pc = pc]
<1>1. pr \in Process /\ Sound(p, pr) /\ p # "legacy"
  BY ProbingIs
<1>2. proc' = [proc EXCEPT ![p] = r]
  BY DEF Goes
<1> HIDE DEF pr
<1>3. /\ r \in Process /\ r.pc = pc /\ r.coll = pr.coll /\ r.model = pr.model /\ r.space = pr.space
      /\ r.ok = pr.ok /\ r.versioned = pr.versioned /\ r.chunks = pr.chunks /\ r.index = pr.index
      /\ r.filter = pr.filter
  BY <1>1 DEF Process, PCs
<1>4. pr.pc \in Probing
  BY DEF pr
<1> HIDE DEF r
<1>5. Configured(r) /\ Mirrored(r) /\ Filtered(r) /\ (p = "server" => Current(r))
  BY <1>1, <1>3, <1>4 DEF Sound, Configured, Mirrored, Filtered, Current, Probing
<1>6. PICK s \in Process : s = r
  BY <1>3
<1>7. Sound(p, s)'
  BY <1>1, <1>5, <1>6
  DEF Sound, Configured, Mirrored, Filtered, Current, FilterOf, Published, Live, Entry
<1> QED
  BY <1>2, <1>6, <1>7, OneProcess

\* The probe has an error.
LEMMA FailedSound ==
  ASSUME SpaceInv, NEW p \in fleet, proc[p].pc \in Probing, Failed(p),
         UNCHANGED <<fleet, active, deleted>>
  PROVE  proc' \in [fleet' -> Process] /\ (\A q \in fleet : Sound(q, proc[q]))'
<1>1. CASE p = "mcp"
  <2>1. Down \in Process /\ Sound(p, Down)'
    BY DownIs
    DEF Sound, Configured, Mirrored, Filtered, Current, Entry, Down
  <2> QED
    BY <1>1, <2>1, OneProcess DEF Failed
<1>2. CASE p # "mcp"
  <2> DEFINE pr == [proc[p] EXCEPT !.pc = "idle", !.ok = FALSE]
             r == IF pr.versioned THEN pr ELSE Restored(pr, pr.space)
  <2>1. proc' = [proc EXCEPT ![p] = r]
    BY <1>2 DEF Failed
  <2>2. /\ proc[p] \in Process /\ Sound(p, proc[p]) /\ p # "legacy"
        /\ proc[p].coll \in Collections /\ proc[p].model \in Models
    BY ProbingIs
  <2>3. /\ pr \in Process /\ pr.pc = "idle" /\ pr.ok = FALSE /\ pr.coll = proc[p].coll
        /\ pr.model = proc[p].model /\ pr.space = proc[p].space
        /\ pr.versioned = proc[p].versioned /\ pr.chunks = proc[p].chunks
        /\ pr.index = proc[p].index /\ pr.filter = proc[p].filter
    BY <2>2 DEF Process, PCs
  <2> HIDE DEF pr
  <2>4. proc[p].pc # "restore"
    BY DEF Probing
  <2>5. Configured(pr) /\ Mirrored(pr) /\ Filtered(pr) /\ (p = "server" => Current(pr))
    BY <2>2, <2>3, <2>4 DEF Sound, Configured, Mirrored, Filtered, Current
  <2>6. r \in Process /\ Configured(r) /\ Mirrored(r) /\ Filtered(r) /\ (p = "server" => Current(r))
    <3>1. CASE pr.versioned
      BY <2>3, <2>5, <3>1
    <3>2. CASE ~pr.versioned
      <4>1. r = Restored(pr, pr.space)
        BY <3>2
      <4> HIDE DEF r
      <4>2. /\ r \in Process /\ Mirrored(r) /\ Filtered(r)
            /\ r.pc = pr.pc /\ r.coll = pr.coll /\ r.model = pr.model /\ r.space = pr.space
            /\ r.ok = pr.ok /\ r.filter = FilterOf(pr.space)
        BY <2>3, <2>5, <4>1, RestoredIs DEF SpaceInv
      <4> QED
        BY <2>3, <2>5, <4>2 DEF Configured, Current
    <3> QED
      BY <3>1, <3>2
  <2> HIDE DEF r
  <2>7. PICK s \in Process : s = r
    BY <2>6
  <2>8. Sound(p, s)'
    BY <2>2, <2>6, <2>7
    DEF Sound, Configured, Mirrored, Filtered, Current, FilterOf, Published, Live, Entry
  <2> QED
    BY <2>1, <2>7, <2>8, OneProcess
<1> QED
  BY <1>1, <1>2

\* The probe is done.
LEMMA ReadySound ==
  ASSUME SpaceInv, NEW p \in fleet, proc[p].pc \in Probing, Ready(p),
         UNCHANGED <<fleet, active, deleted>>
  PROVE  proc' \in [fleet' -> Process] /\ (\A q \in fleet : Sound(q, proc[q]))'
<1> DEFINE pr == [proc[p] EXCEPT !.pc = "idle", !.ok = TRUE, !.space = proc[p].model]
           r == IF proc[p].space = proc[p].model THEN pr ELSE Restored(pr, proc[p].model)
<1>1. proc' = [proc EXCEPT ![p] = r]
  BY DEF Ready
<1>2. /\ proc[p] \in Process /\ Sound(p, proc[p]) /\ p # "legacy"
      /\ proc[p].coll \in Collections /\ proc[p].model \in Models
  BY ProbingIs
<1>3. /\ pr \in Process /\ pr.pc = "idle" /\ pr.ok = TRUE /\ pr.coll = proc[p].coll
      /\ pr.model = proc[p].model /\ pr.space = proc[p].model
      /\ pr.versioned = proc[p].versioned /\ pr.chunks = proc[p].chunks
      /\ pr.index = proc[p].index /\ pr.filter = proc[p].filter
  BY <1>2 DEF Process, PCs
<1> HIDE DEF pr
<1>4. proc[p].pc # "restore"
  BY DEF Probing
<1>5. Configured(pr) /\ Mirrored(pr)
  BY <1>2, <1>3 DEF Sound, Configured, Mirrored
<1>6. r \in Process /\ Configured(r) /\ Mirrored(r) /\ Filtered(r) /\ (p = "server" => Current(r))
  <2>1. CASE proc[p].space = proc[p].model
    BY <1>2, <1>3, <1>4, <1>5, <2>1 DEF Sound, Filtered, Current
  <2>2. CASE proc[p].space # proc[p].model
    <3>1. r = Restored(pr, pr.space)
      BY <1>3, <2>2
    <3> HIDE DEF r
    <3>2. /\ r \in Process /\ Mirrored(r) /\ Filtered(r)
          /\ r.pc = pr.pc /\ r.coll = pr.coll /\ r.model = pr.model /\ r.space = pr.space
          /\ r.ok = pr.ok /\ r.filter = FilterOf(pr.space)
      BY <1>3, <1>5, <3>1, RestoredIs DEF SpaceInv
    <3> QED
      BY <1>3, <1>5, <3>2 DEF Configured, Current
  <2> QED
    BY <2>1, <2>2
<1> HIDE DEF r
<1>7. PICK s \in Process : s = r
  BY <1>6
<1>8. Sound(p, s)'
  BY <1>2, <1>6, <1>7
  DEF Sound, Configured, Mirrored, Filtered, Current, FilterOf, Published, Live, Entry
<1> QED
  BY <1>1, <1>7, <1>8, OneProcess

\* Steps of a process that starts, ends or probes.
LEMMA ProcessStepInv ==
  ASSUME SpaceInv, NEW p \in fleet, ProcessStep(p)
  PROVE  SpaceInv'
<1>0. proc \in [fleet -> Process] /\ Sound(p, proc[p]) /\ fleet \in Fleets
  BY DEF SpaceInv, Typed
<1>1. CASE Boot(p)
  <2>1. PICK c \in Configs[p] :
          proc' = [proc EXCEPT ![p] = [Down EXCEPT !.pc = IF p = "legacy" THEN "idle" ELSE "compat",
                                             !.coll = c.coll, !.model = c.model]]
    BY <1>1 DEF Boot
  <2> DEFINE r == [Down EXCEPT !.pc = IF p = "legacy" THEN "idle" ELSE "compat",
                               !.coll = c.coll, !.model = c.model]
  <2>2. c.coll \in Collections /\ c.model \in Models
    BY <1>0, <2>1, RetrievalAssumption
  <2>3. Down \in Process /\ Sound(p, Down)
    BY DownIs
  <2>4. r \in Process
    BY <2>2, <2>3 DEF Process, PCs, Probing
  <2>5. /\ r.pc = IF p = "legacy" THEN "idle" ELSE "compat"
        /\ r.coll = c.coll /\ r.model = c.model /\ r.space = Unavailable /\ ~r.ok /\ ~r.versioned
        /\ r.chunks = Down.chunks /\ r.index = Down.index /\ r.filter = Down.filter
    BY DEF Down
  <2>6. Mirrored(Down)
    BY EmptyIsExact DEF Mirrored, Down
  <2>7. \A d \in Docs : Down.filter[d] = None
    BY DEF Down
  <2> HIDE DEF r
  <2>8. Configured(r) /\ Mirrored(r) /\ Filtered(r) /\ Current(r)
    BY <2>2, <2>5, <2>6, <2>7 DEF Configured, Mirrored, Filtered, Current
  <2>9. Sound(p, r)'
    BY <1>1, <2>5, <2>8
    DEF Boot, facts, Sound, Configured, Mirrored, Filtered, Current, FilterOf, Published, Live, Entry
  <2>10. proc' \in [fleet' -> Process] /\ (\A q \in fleet : Sound(q, proc[q]))'
    BY <1>1, <2>1, <2>4, <2>9, OneProcess DEF Boot, facts, r
  <2> QED
    BY <1>1, <2>10 DEF Boot, facts, SpaceInv, Typed
<1>2. CASE Exit(p)
  <2>1. Down \in Process
    BY DownIs
  <2>2. Sound(p, Down)'
    BY DownIs DEF Sound, Configured, Mirrored, Filtered, Current, Entry, Down
  <2>3. proc' \in [fleet' -> Process] /\ (\A q \in fleet : Sound(q, proc[q]))'
    BY <1>2, <2>1, <2>2, OneProcess DEF Exit, facts
  <2> QED
    BY <1>2, <2>3 DEF Exit, facts, SpaceInv, Typed
<1>3. CASE ProbeFails(p)
  BY <1>3, FailedSound DEF ProbeFails, facts, SpaceInv, Typed
<1>4. CASE EnsureCompatible(p)
  <2>1. proc' \in [fleet' -> Process] /\ (\A q \in fleet : Sound(q, proc[q]))'
    BY <1>4, FailedSound, GoesSound DEF EnsureCompatible, facts, Probing
  <2> QED
    BY <1>4, <2>1 DEF EnsureCompatible, facts, SpaceInv, Typed
<1>5. CASE CreateCollection(p)
  <2>1. proc' \in [fleet' -> Process] /\ (\A q \in fleet : Sound(q, proc[q]))'
    BY <1>5, FailedSound, GoesSound DEF CreateCollection, facts, Probing
  <2>2. coll' \in [Collections ->
               [dim : Nat, marker : Models \cup {Unmarked}, points : SUBSET Points]]
    <3>1. proc[p].coll \in Collections /\ Dim[proc[p].model] \in Nat
      BY <1>5, ProbingIs, RetrievalAssumption DEF CreateCollection, Probing
    <3> QED
      BY <1>5, <3>1 DEF CreateCollection, SpaceInv, Typed
  <2> QED
    BY <1>5, <2>1, <2>2 DEF CreateCollection, facts, SpaceInv, Typed
<1>6. CASE EnsureSpace(p)
  <2>1. proc' \in [fleet' -> Process] /\ (\A q \in fleet : Sound(q, proc[q]))'
    BY <1>6, FailedSound, GoesSound, ReadySound DEF EnsureSpace, facts, Probing
  <2> QED
    BY <1>6, <2>1 DEF EnsureSpace, facts, SpaceInv, Typed
<1>7. CASE CountPoints(p)
  <2>1. proc' \in [fleet' -> Process] /\ (\A q \in fleet : Sound(q, proc[q]))'
    BY <1>7, FailedSound, GoesSound DEF CountPoints, facts, Probing
  <2> QED
    BY <1>7, <2>1 DEF CountPoints, facts, SpaceInv, Typed
<1>8. CASE WriteMarker(p)
  <2>1. proc' \in [fleet' -> Process] /\ (\A q \in fleet : Sound(q, proc[q]))'
    BY <1>8, FailedSound, ReadySound DEF WriteMarker, facts, Probing
  <2>2. coll' \in [Collections ->
               [dim : Nat, marker : Models \cup {Unmarked}, points : SUBSET Points]]
    <3>1. proc[p].coll \in Collections /\ proc[p].model \in Models
      BY <1>8, ProbingIs DEF WriteMarker, Probing
    <3> QED
      BY <1>8, <3>1 DEF WriteMarker, SpaceInv, Typed
  <2> QED
    BY <1>8, <2>1, <2>2 DEF WriteMarker, facts, SpaceInv, Typed
<1> QED
  BY <1>1, <1>2, <1>3, <1>4, <1>5, <1>6, <1>7, <1>8 DEF ProcessStep

-----------------------------------------------------------------------------
(* Writes of the server                                                    *)

\* The server as the invariant knows it.
LEMMA ServerIs ==
  ASSUME SpaceInv, "server" \in fleet
  PROVE  /\ Server \in Process /\ Configured(Server) /\ Mirrored(Server) /\ Filtered(Server)
         /\ Current(Server)
  BY DEF SpaceInv, Typed, Sound, Server

\* The server goes on to another place and keeps its projection.
LEMMA ServerMoves ==
  ASSUME SpaceInv, "server" \in fleet, NEW pc \in PCs, NEW v \in Versions \cup {None},
         proc' = [proc EXCEPT !["server"] = [Server EXCEPT !.v = v, !.pc = pc]], fleet' = fleet,
         Server.pc # "down", pc # "down",
         pc \in {"index", "mirror", "publish", "forget"} => v \in Versions,
         pc = "restore" \/ (Server.pc # "restore" /\ UNCHANGED <<active, deleted>>),
         pc = "forget" => ~Live(v)
  PROVE  proc' \in [fleet' -> Process] /\ (\A q \in fleet : Sound(q, proc[q]))'
<1> DEFINE pr == Server
           r == [Server EXCEPT !.v = v, !.pc = pc]
<1>1. pr \in Process /\ Configured(pr) /\ Mirrored(pr) /\ Filtered(pr) /\ Current(pr)
  BY ServerIs
<1> HIDE DEF pr
<1>2. /\ r \in Process /\ r.pc = pc /\ r.v = v
      /\ r.coll = pr.coll /\ r.model = pr.model /\ r.space = pr.space
      /\ r.ok = pr.ok /\ r.versioned = pr.versioned /\ r.chunks = pr.chunks /\ r.index = pr.index
      /\ r.filter = pr.filter
  BY <1>1 DEF Process, pr
<1>3. PICK s \in Process : s = r
  BY <1>2
<1> HIDE DEF r
<1>4. Configured(s) /\ Mirrored(s) /\ Filtered(s)
  BY <1>1, <1>2, <1>3 DEF Configured, Mirrored, Filtered, pr
<1>5. Current(s)'
  <2>1. CASE pc = "restore"
    BY <1>2, <1>3, <2>1 DEF Current
  <2>2. CASE Server.pc # "restore" /\ UNCHANGED <<active, deleted>>
    <3>1. s.versioned => s.filter = FilterOf(s.space)
      BY <1>1, <1>2, <1>3, <2>2 DEF Current, pr
    <3> QED
      BY <1>2, <1>3, <2>2, <3>1 DEF Current, FilterOf, Published, Live
  <2> QED
    BY <2>1, <2>2
<1>6. Sound("server", s)'
  BY <1>4, <1>5 DEF Sound, Configured, Mirrored, Filtered, Entry
<1> QED
  BY <1>3, <1>6, OneProcess DEF r

\* Changes of the place alone.
LEMMA ServerGoes ==
  ASSUME SpaceInv, "server" \in fleet, NEW pc \in PCs, Goes("server", pc), fleet' = fleet,
         Server.pc # "down", pc # "down",
         pc \in {"index", "mirror", "publish"} => Server.v \in Versions,
         pc # "forget",
         pc = "restore" \/ (Server.pc # "restore" /\ UNCHANGED <<active, deleted>>)
  PROVE  proc' \in [fleet' -> Process] /\ (\A q \in fleet : Sound(q, proc[q]))'
<1>1. Server \in Process
  BY ServerIs
<1>2. PICK v \in Versions \cup {None} : v = Server.v
  BY <1>1 DEF Process
<1>3. [Server EXCEPT !.v = v, !.pc = pc] = [Server EXCEPT !.pc = pc]
  BY <1>1, <1>2 DEF Process
<1>4. proc' = [proc EXCEPT !["server"] = [Server EXCEPT !.v = v, !.pc = pc]]
  BY <1>3 DEF Goes, Server
<1> QED
  BY <1>2, <1>4, ServerMoves

LEMMA ServerWrites ==
  ASSUME SpaceInv, "server" \in fleet, NEW pc \in PCs, NEW v \in Versions \cup {None},
         Write(v, pc), fleet' = fleet,
         Server.pc # "down", pc # "down",
         pc \in {"index", "mirror", "publish", "forget"} => v \in Versions,
         pc = "restore" \/ (Server.pc # "restore" /\ UNCHANGED <<active, deleted>>),
         pc = "forget" => ~Live(v)
  PROVE  proc' \in [fleet' -> Process] /\ (\A q \in fleet : Sound(q, proc[q]))'
<1>1. Server \in Process /\ proc \in [fleet -> Process]
  BY ServerIs DEF SpaceInv, Typed
<1>2. proc' = [proc EXCEPT !["server"] = [Server EXCEPT !.v = v, !.pc = pc]]
  BY <1>1 DEF Write, Server
<1> QED
  BY <1>2, ServerMoves

\* The chunk of a version that is written goes to the index.
LEMMA MirrorVersionInv ==
  ASSUME SpaceInv, "server" \in fleet, MirrorVersion
  PROVE  SpaceInv'
<1> DEFINE pr == Server
           index == Upsert(pr.index, Single(pr.v, Entry(pr.v)))
           r == [pr EXCEPT !.pc = "publish", !.chunks = pr.chunks \cup {pr.v}, !.index = index]
<1>1. /\ pr \in Process /\ Configured(pr) /\ Mirrored(pr) /\ Filtered(pr) /\ Current(pr)
      /\ proc \in [fleet -> Process]
  BY ServerIs DEF SpaceInv, Typed
<1>2. pr.pc = "mirror" /\ pr.v \in Versions
  BY <1>1 DEF MirrorVersion, Configured
<1>3. proc' = [proc EXCEPT !["server"] = r]
  BY <1>1 DEF MirrorVersion, Server
<1> HIDE DEF pr
<1>4. Single(pr.v, Entry(pr.v)) = [v \in {pr.v} |-> Entry(v)]
  BY DEF Single
<1>5. {pr.v} \in SUBSET Versions /\ IsFiniteSet({pr.v})
  BY <1>2, FS_Singleton
<1> HIDE DEF index
<1>6. /\ index \in Indexes
      /\ DOMAIN index.docs = pr.chunks \cup {pr.v}
      /\ \A v \in pr.chunks \cup {pr.v} : index.docs[v] = Entry(v)
  BY <1>1, <1>4, <1>5, MirroredMore DEF index
<1>7. /\ r \in Process /\ r.pc = "publish" /\ r.v = pr.v
      /\ r.coll = pr.coll /\ r.model = pr.model /\ r.space = pr.space
      /\ r.ok = pr.ok /\ r.versioned = pr.versioned /\ r.filter = pr.filter
      /\ r.chunks = pr.chunks \cup {pr.v} /\ r.index = index
  BY <1>1, <1>2, <1>6 DEF Process, PCs
<1>8. PICK s \in Process : s = r
  BY <1>7
<1> HIDE DEF r
<1>9. Configured(s) /\ Mirrored(s) /\ Filtered(s) /\ Current(s)
  BY <1>1, <1>2, <1>6, <1>7, <1>8 DEF Configured, Mirrored, Filtered, Current
<1>10. Sound("server", s)'
  BY <1>9
  DEF MirrorVersion, facts, Sound, Configured, Mirrored, Filtered, Current, FilterOf, Published, Live,
      Entry
<1>11. proc' \in [fleet' -> Process] /\ (\A q \in fleet : Sound(q, proc[q]))'
  BY <1>3, <1>8, <1>10, OneProcess DEF MirrorVersion, facts
<1> QED
  BY <1>11 DEF MirrorVersion, facts, SpaceInv, Typed

\* The projection is restored.
LEMMA RestoreProjectionInv ==
  ASSUME SpaceInv, "server" \in fleet, RestoreProjection
  PROVE  SpaceInv'
<1> DEFINE pr == [Server EXCEPT !.pc = "idle"]
           r == Restored(pr, pr.space)
<1>1. Server \in Process /\ Configured(Server) /\ Mirrored(Server) /\ Server.pc = "restore"
  BY ServerIs DEF RestoreProjection
<1>2. /\ pr \in Process /\ pr.pc = "idle" /\ pr.coll = Server.coll /\ pr.model = Server.model
      /\ pr.space = Server.space /\ pr.ok = Server.ok /\ pr.chunks = Server.chunks
      /\ pr.index = Server.index
  BY <1>1 DEF Process, PCs
<1>3. proc' = [proc EXCEPT !["server"] = r]
  BY <1>2 DEF RestoreProjection
<1> HIDE DEF pr
<1>4. Configured(pr) /\ Mirrored(pr)
  BY <1>1, <1>2 DEF Configured, Mirrored
<1> HIDE DEF r
<1>5. /\ r \in Process /\ Mirrored(r) /\ Filtered(r)
      /\ r.pc = pr.pc /\ r.coll = pr.coll /\ r.model = pr.model /\ r.space = pr.space
      /\ r.ok = pr.ok /\ r.filter = FilterOf(pr.space)
  BY <1>2, <1>4, RestoredIs DEF SpaceInv, r
<1>6. PICK s \in Process : s = r
  BY <1>5
<1>7. Configured(s) /\ Mirrored(s) /\ Filtered(s) /\ Current(s)
  BY <1>2, <1>4, <1>5, <1>6 DEF Configured, Current
<1>8. Sound("server", s)'
  BY <1>7
  DEF RestoreProjection, facts, Sound, Configured, Mirrored, Filtered, Current, FilterOf, Published,
      Live, Entry
<1>9. proc' \in [fleet' -> Process] /\ (\A q \in fleet : Sound(q, proc[q]))'
  BY <1>3, <1>6, <1>8, OneProcess DEF RestoreProjection, facts
<1> QED
  BY <1>9 DEF RestoreProjection, facts, SpaceInv, Typed

\* The chunks of a version that is not live go from memory; the filter let none of them through.
LEMMA ForgetVersionInv ==
  ASSUME SpaceInv, "server" \in fleet, ForgetVersion
  PROVE  SpaceInv'
<1> DEFINE pr == Server
           index == RemoveEntries(pr.index, {pr.v})
           r == [pr EXCEPT !.pc = "idle", !.v = None, !.chunks = pr.chunks \ {pr.v}, !.index = index]
<1>1. /\ pr \in Process /\ Configured(pr) /\ Mirrored(pr) /\ Filtered(pr) /\ Current(pr)
      /\ proc \in [fleet -> Process]
  BY ServerIs DEF SpaceInv, Typed
<1>2. pr.pc = "forget" /\ ~Live(pr.v)
  BY <1>1 DEF ForgetVersion, Current
<1>3. proc' = [proc EXCEPT !["server"] = r]
  BY <1>1 DEF ForgetVersion, Server
<1> HIDE DEF pr, index
<1>4. index \in Indexes /\ index.docs = Without(pr.index.docs, {pr.v})
  BY <1>1, RemoveIndex DEF Process, index
<1>5. /\ DOMAIN index.docs = pr.chunks \ {pr.v}
      /\ \A v \in pr.chunks \ {pr.v} : index.docs[v] = Entry(v)
  BY <1>1, <1>4 DEF Without, Mirrored
<1>6. /\ r \in Process /\ r.pc = "idle"
      /\ r.coll = pr.coll /\ r.model = pr.model /\ r.space = pr.space
      /\ r.ok = pr.ok /\ r.versioned = pr.versioned /\ r.filter = pr.filter
      /\ r.chunks = pr.chunks \ {pr.v} /\ r.index = index
  BY <1>1, <1>4 DEF Process, PCs
<1> HIDE DEF r
<1>7. PICK s \in Process : s = r
  BY <1>6
<1>8. Configured(s) /\ Mirrored(s) /\ Current(s)
  BY <1>1, <1>2, <1>5, <1>6, <1>7 DEF Configured, Mirrored, Current
<1>9. Filtered(s)
  <2> SUFFICES ASSUME NEW d \in Docs, pr.filter[d] # None
               PROVE  /\ pr.versioned
                      /\ pr.filter[d] \in pr.chunks \ {pr.v} /\ pr.filter[d][3] = pr.space
    BY <1>6, <1>7 DEF Filtered
  <2>1. pr.versioned /\ pr.filter[d] \in pr.chunks /\ pr.filter[d][3] = pr.space
    BY <1>1 DEF Filtered
  <2>2. pr.filter[d] # pr.v
    <3>1. pr.filter[d] \in Published(pr.space)
      BY <1>1, <1>2, <2>1 DEF Current, FilterOf
    <3> QED
      BY <1>2, <3>1 DEF Published
  <2> QED
    BY <2>1, <2>2
<1>10. Sound("server", s)'
  BY <1>8, <1>9
  DEF ForgetVersion, Sound, Configured, Mirrored, Filtered, Current, FilterOf, Published, Live, Entry
<1>11. proc' \in [fleet' -> Process] /\ (\A q \in fleet : Sound(q, proc[q]))'
  BY <1>3, <1>7, <1>10, OneProcess DEF ForgetVersion
<1> QED
  BY <1>11 DEF ForgetVersion, SpaceInv, Typed

\* Points of a collection after a write.
LEMMA PointsType ==
  ASSUME Typed, NEW c, NEW S \in SUBSET Points, coll' = [coll EXCEPT ![c].points = S]
  PROVE  coll' \in [Collections ->
                      [dim : Nat, marker : Models \cup {Unmarked}, points : SUBSET Points]]
  BY DEF Typed

\* Every step of the server.
LEMMA ServerStepInv ==
  ASSUME SpaceInv, "server" \in fleet, ServerStep
  PROVE  SpaceInv'
<1>0. /\ Server \in Process /\ Configured(Server)
      /\ Server.v \in Versions \cup {None} /\ Server.space \in Models \cup {Unavailable}
  BY ServerIs DEF Process
<1>1. CASE Probe
  <2>1. proc' \in [fleet' -> Process] /\ (\A q \in fleet : Sound(q, proc[q]))'
    BY <1>1, ServerGoes DEF Probe, facts, Server, PCs, Probing
  <2> QED
    BY <1>1, <2>1 DEF Probe, facts, SpaceInv, Typed
<1>2. CASE IndexVersion
  <2>1. Server.v \in Versions /\ Server.coll \in Collections /\ Server.pc = "index"
    BY <1>0, <1>2 DEF IndexVersion, Configured
  <2>2. proc' \in [fleet' -> Process] /\ (\A q \in fleet : Sound(q, proc[q]))'
    <3>1. CASE Goes("server", "mirror")
      BY <1>2, <2>1, <3>1, ServerGoes DEF IndexVersion, facts, PCs
    <3>2. CASE Write(None, "idle")
      BY <1>2, <2>1, <3>2, ServerWrites DEF IndexVersion, facts, PCs
    <3> QED
      BY <1>2, <3>1, <3>2 DEF IndexVersion
  <2>3. coll[Server.coll].points \cup {Server.v} \in SUBSET Points
    BY <2>1 DEF Points, SpaceInv, Typed
  <2>4. coll' \in [Collections ->
               [dim : Nat, marker : Models \cup {Unmarked}, points : SUBSET Points]]
    BY <1>2, <2>1, <2>3, PointsType DEF IndexVersion, SpaceInv
  <2> QED
    BY <1>2, <2>2, <2>4 DEF IndexVersion, facts, SpaceInv, Typed
<1>3. CASE MirrorVersion
  BY <1>3, MirrorVersionInv
<1>4. CASE Publish
  <2>1. Server.v \in Versions /\ Server.pc = "publish" /\ Server.v[1] \in Docs
    BY <1>0, <1>4, VersionIs DEF Publish, Configured
  <2>2. proc' \in [fleet' -> Process] /\ (\A q \in fleet : Sound(q, proc[q]))'
    <3>1. CASE Write(None, "restore")
      BY <1>4, <2>1, <3>1, ServerWrites DEF Publish, PCs
    <3>2. CASE Write(None, "idle") /\ UNCHANGED <<active, deleted>>
      BY <1>4, <2>1, <3>2, ServerWrites DEF Publish, PCs
    <3> QED
      BY <1>4, <3>1, <3>2 DEF Publish
  <2>3. active' \in [Docs -> Versions \cup {None}] /\ deleted' \in SUBSET Docs
    BY <1>4, <2>1 DEF Publish, SpaceInv, Typed
  <2> QED
    BY <1>4, <2>2, <2>3 DEF Publish, SpaceInv, Typed
<1>5. CASE RestoreProjection
  BY <1>5, RestoreProjectionInv
<1>6. CASE ForgetVersion
  BY <1>6, ForgetVersionInv
<1>7. ASSUME NEW d \in Docs, DeleteDocument(d)
      PROVE  SpaceInv'
  <2>1. proc' \in [fleet' -> Process] /\ (\A q \in fleet : Sound(q, proc[q]))'
    BY <1>7, ServerGoes DEF DeleteDocument, Server, PCs
  <2>2. pending' \in SUBSET Versions /\ deleted' \in SUBSET Docs
    BY <1>7 DEF DeleteDocument, SpaceInv, Typed
  <2> QED
    BY <1>7, <2>1, <2>2 DEF DeleteDocument, SpaceInv, Typed
<1>8. ASSUME NEW d \in Docs, NEW b \in Bodies, PutSame(d, b)
      PROVE  SpaceInv'
  <2>1. proc' \in [fleet' -> Process] /\ (\A q \in fleet : Sound(q, proc[q]))'
    BY <1>8, ServerGoes DEF PutSame, facts, Server, PCs
  <2> QED
    BY <1>8, <2>1 DEF PutSame, facts, SpaceInv, Typed
<1>9. ASSUME NEW d \in Docs, NEW b \in Bodies, PutStage(d, b)
      PROVE  SpaceInv'
  <2>1. PICK v : v = <<d, b, Server.space>>
    OBVIOUS
  <2>2. Server.pc = "idle" /\ Server.space \in Models
    BY <1>0, <1>9 DEF PutStage, Configured
  <2>3. v \in Versions
    BY <2>1, <2>2 DEF Versions
  <2>4. Write(v, "index")
    BY <1>9, <2>1 DEF PutStage
  <2>5. proc' \in [fleet' -> Process] /\ (\A q \in fleet : Sound(q, proc[q]))'
    BY <1>9, <2>2, <2>3, <2>4, ServerWrites DEF PutStage, facts, PCs
  <2> QED
    BY <1>9, <2>5 DEF PutStage, facts, SpaceInv, Typed
<1>10. ASSUME NEW v \in pending, Cleanup(v)
       PROVE  SpaceInv'
  <2>1. v \in Versions /\ Server.pc = "idle" /\ Server.coll \in Collections
    BY <1>0, <1>10 DEF Cleanup, Configured, SpaceInv, Typed
  <2>2. CASE Live(v)
    <3>1. pending' = pending \ {v} /\ UNCHANGED <<fleet, coll, proc, active, deleted, job>>
      BY <1>10, <2>2 DEF Cleanup
    <3>2. proc' \in [fleet' -> Process] /\ (\A q \in fleet : Sound(q, proc[q]))'
      BY <3>1, NoProcess
    <3> QED
      BY <3>1, <3>2 DEF SpaceInv, Typed
  <2>3. CASE ~Live(v)
    <3>1. /\ coll' = [coll EXCEPT ![Server.coll].points = coll[Server.coll].points \ {v}]
          /\ Write(v, "forget") \/ UNCHANGED proc
          /\ UNCHANGED <<fleet, active, deleted, pending, job>>
      BY <1>10, <2>3 DEF Cleanup
    <3>2. proc' \in [fleet' -> Process] /\ (\A q \in fleet : Sound(q, proc[q]))'
      <4>1. CASE Write(v, "forget")
        BY <2>1, <2>3, <3>1, <4>1, ServerWrites DEF PCs
      <4>2. CASE UNCHANGED proc
        BY <3>1, <4>2, NoProcess
      <4> QED
        BY <3>1, <4>1, <4>2
    <3>3. coll[Server.coll].points \ {v} \in SUBSET Points
      BY <2>1 DEF SpaceInv, Typed
    <3>4. PICK S \in SUBSET Points : S = coll[Server.coll].points \ {v}
      BY <3>3
    <3>5. coll' = [coll EXCEPT ![Server.coll].points = S]
      BY <3>1, <3>4
    <3>6. coll' \in [Collections ->
               [dim : Nat, marker : Models \cup {Unmarked}, points : SUBSET Points]]
      BY <3>5, PointsType DEF SpaceInv
    <3> QED
      BY <3>1, <3>2, <3>6 DEF SpaceInv, Typed
  <2> QED
    BY <2>2, <2>3
<1> QED
  BY <1>1, <1>2, <1>3, <1>4, <1>5, <1>6, <1>7, <1>8, <1>9, <1>10 DEF ServerStep

-----------------------------------------------------------------------------
(* The legacy process                                                      *)

\* What a request has to do is typed.
LEMMA RequestedType ==
  ASSUME NEW d \in Docs, NEW b \in Bodies, NEW title \in Titles, NEW todo \in Requested(d, b, title)
  PROVE  todo \in Seq(Ops) \ {<<>>}
<1>1. title \o TextOf[b] \in Seq(Terms)
  BY RetrievalAssumption
<1>2. ASSUME NEW source \in Sources PROVE AddOp(d, b, title, source) \in Ops
  BY <1>1 DEF AddOp, Ops, Entries, Sources
<1>3. DeleteOp("doc", d) \in Ops /\ DeleteOp("source", "demo") \in Ops
  BY DEF DeleteOp, Ops
<1>4. \A o1 \in Ops : <<o1>> \in Seq(Ops) \ {<<>>}
  OBVIOUS
<1>5. \A o1, o2 \in Ops : <<o1, o2>> \in Seq(Ops) \ {<<>>}
  OBVIOUS
<1>6. "upload" \in Sources /\ "demo" \in Sources /\ "incident" \in Sources
  BY DEF Sources
<1> QED
  BY <1>2, <1>3, <1>4, <1>5, <1>6
     DEF Requested, Upload, Delete, Reindex, IngestIncident

\* More than one operation: some are left.
LEMMA TailType ==
  ASSUME NEW q \in Seq(Ops), q # <<>>, Len(q) # 1
  PROVE  Tail(q) \in Seq(Ops) \ {<<>>}
<1>1. Len(q) \in Nat /\ Len(q) # 0
  OBVIOUS
<1>2. PICK r \in Seq(Ops) : r = Tail(q) /\ Len(r) = Len(q) - 1
  BY <1>1, HeadTailProperties
<1>3. Len(r) # 0
  BY <1>1, <1>2
<1>4. r # <<>>
  BY <1>3
<1> QED
  BY <1>2, <1>4

\* Every step of a request.
LEMMA LegacyStepInv ==
  ASSUME SpaceInv, "legacy" \in fleet, LegacyStep
  PROVE  SpaceInv'
<1>0. /\ proc["legacy"] \in Process /\ Sound("legacy", proc["legacy"])
      /\ proc \in [fleet -> Process] /\ job \in [Jobs -> {IdleJob} \cup Work]
  BY DEF SpaceInv, Typed
<1>1. ASSUME NEW j \in Jobs, job[j].pc \in {"store", "mirror"}
      PROVE  job[j] \in Work /\ Head(job[j].todo) \in Ops
  <2>1. job[j] # IdleJob
    BY <1>1 DEF IdleJob
  <2>2. job[j] \in Work
    BY <1>0, <2>1
  <2> QED
    BY <2>2 DEF Work
<1>2. ASSUME NEW j \in Jobs, Request(j)
      PROVE  SpaceInv'
  <2>1. PICK d \in Docs, b \in Bodies, title \in Titles : \E todo \in Requested(d, b, title) :
          job' = [job EXCEPT ![j] = [pc |-> "store", todo |-> todo]]
    BY <1>2 DEF Request
  <2>2. PICK todo \in Requested(d, b, title) :
          job' = [job EXCEPT ![j] = [pc |-> "store", todo |-> todo]]
    BY <2>1
  <2>3. [pc |-> "store", todo |-> todo] \in Work
    BY RequestedType DEF Work
  <2>4. job' \in [Jobs -> {IdleJob} \cup Work]
    BY <1>0, <2>2, <2>3
  <2>5. proc' \in [fleet' -> Process] /\ (\A q \in fleet : Sound(q, proc[q]))'
    BY <1>2, NoProcess DEF Request, facts
  <2> QED
    BY <1>2, <2>4, <2>5 DEF Request, facts, SpaceInv, Typed
<1>3. ASSUME NEW j \in Jobs, StoreOp(j)
      PROVE  SpaceInv'
  <2> DEFINE o == Head(job[j].todo)
             points == Own("legacy").points
             new == IF o.op = "add"
                    THEN {pt \in points : pt[1] # o.id} \cup {<<o.id, o.entry.source>>}
                    ELSE {pt \in points : ~Matches(o, pt[1], pt[2])}
  <2>1. job[j] \in Work /\ o \in Ops
    BY <1>1, <1>3 DEF StoreOp
  <2>2. coll' = [coll EXCEPT ![proc["legacy"].coll].points = new]
    BY <1>3 DEF StoreOp
  <2>3. o.op = "add" => o.id \in Docs \X Bodies /\ o.entry.source \in Sources
    BY <2>1 DEF Ops, Entries, Sources
  <2> HIDE DEF o
  <2>4. coll' \in [Collections ->
               [dim : Nat, marker : Models \cup {Unmarked}, points : SUBSET Points]]
    <3>1. CASE proc["legacy"].coll \in Collections
      <4>1. points \in SUBSET Points
        BY <3>1 DEF Own, SpaceInv, Typed
      <4>2. o.op = "add" => <<o.id, o.entry.source>> \in Points
        BY <2>3 DEF Points
      <4> HIDE DEF points
      <4>3. new \in SUBSET Points
        BY <4>1, <4>2
      <4> QED
        BY <2>2, <4>3, PointsType DEF SpaceInv
    <3>2. CASE proc["legacy"].coll \notin Collections
      BY <2>2, <3>2 DEF SpaceInv, Typed
    <3> QED
      BY <3>1, <3>2
  <2>5. job' \in [Jobs -> {IdleJob} \cup Work]
    <3>1. [job[j] EXCEPT !.pc = "mirror"] \in Work
      BY <2>1 DEF Work
    <3> QED
      BY <1>0, <1>3, <3>1 DEF StoreOp
  <2>6. proc' \in [fleet' -> Process] /\ (\A q \in fleet : Sound(q, proc[q]))'
    BY <1>3, NoProcess DEF StoreOp, facts
  <2> QED
    BY <1>3, <2>4, <2>5, <2>6 DEF StoreOp, facts, SpaceInv, Typed
<1>4. ASSUME NEW j \in Jobs, MirrorOp(j)
      PROVE  SpaceInv'
  <2> DEFINE o == Head(job[j].todo)
             old == proc["legacy"].index
             gone == {id \in DOMAIN old.docs : Matches(o, id, old.docs[id].source)}
             new == IF o.op = "add" THEN Upsert(old, Single(o.id, o.entry))
                    ELSE RemoveEntries(old, gone)
             r == [proc["legacy"] EXCEPT !.index = new]
  <2>1. job[j] \in Work /\ o \in Ops
    BY <1>1, <1>4 DEF MirrorOp
  <2>2. proc' = [proc EXCEPT !["legacy"] = r]
    BY <1>4 DEF MirrorOp
  <2>3. new \in Indexes
    <3> HIDE DEF gone
    <3>1. old \in Indexes
      BY <1>0 DEF Process
    <3>2. CASE o.op = "add"
      <4>1. o.id \in Docs \X Bodies /\ o.entry \in Entries
        BY <2>1, <3>2 DEF Ops
      <4>2. Single(o.id, o.entry) \in [{o.id} -> Entries]
        BY <4>1 DEF Single
      <4>3. {o.id} \in SUBSET Ids /\ IsFiniteSet({o.id})
        BY <4>1, FS_Singleton DEF Ids
      <4>4. Single(o.id, o.entry) \in Mirrors
        BY <4>2, <4>3 DEF Mirrors
      <4> QED
        BY <3>1, <3>2, <4>4, UpsertIndex
    <3>3. CASE o.op # "add"
      BY <3>1, <3>3, RemoveIndex
    <3> QED
      BY <3>2, <3>3
  <2> HIDE DEF new
  <2>4. /\ r \in Process /\ r.pc = proc["legacy"].pc /\ r.coll = proc["legacy"].coll
        /\ r.model = proc["legacy"].model /\ r.space = proc["legacy"].space
        /\ r.ok = proc["legacy"].ok /\ r.versioned = proc["legacy"].versioned
        /\ r.v = proc["legacy"].v
    BY <1>0, <2>3 DEF Process
  <2> HIDE DEF r
  <2>5. PICK s \in Process : s = r
    BY <2>4
  <2>6. Sound("legacy", s)
    BY <1>0, <2>4, <2>5 DEF Sound, Configured
  <2>7. Sound("legacy", s)'
    BY <2>6 DEF Sound, Configured
  <2>8. proc' \in [fleet' -> Process] /\ (\A q \in fleet : Sound(q, proc[q]))'
    BY <1>4, <2>2, <2>5, <2>7, OneProcess DEF MirrorOp, facts
  <2>9. job' \in [Jobs -> {IdleJob} \cup Work]
    <3>1. job[j].todo \in Seq(Ops) /\ job[j].todo # <<>>
      BY <2>1 DEF Work
    <3>2. Len(job[j].todo) # 1 => Tail(job[j].todo) \in Seq(Ops) \ {<<>>}
      BY <3>1, TailType
    <3>3. Len(job[j].todo) # 1 => [pc |-> "store", todo |-> Tail(job[j].todo)] \in Work
      BY <3>2 DEF Work
    <3> QED
      BY <1>0, <1>4, <3>3 DEF MirrorOp
  <2> QED
    BY <1>4, <2>8, <2>9 DEF MirrorOp, facts, SpaceInv, Typed
<1> QED
  BY <1>2, <1>3, <1>4 DEF LegacyStep

-----------------------------------------------------------------------------
(* Theorems                                                                *)

\* The invariant is inductive: in any fleet, with any configurations of the processes, each index
\* is exact, each filter lets through versions of one space that the index holds, and the filter of
\* a server that is not in a write is the one SQL gives.
THEOREM SpaceInvProved == Spec => []SpaceInv
<1>1. Init => SpaceInv
  <2> SUFFICES ASSUME Init PROVE SpaceInv
    OBVIOUS
  <2>1. \A p : Down \in Process /\ Sound(p, Down)
    BY DownIs
  <2>2. proc \in [fleet -> Process] /\ \A p \in fleet : Sound(p, proc[p])
    BY <2>1 DEF Init
  <2> QED
    BY <2>2 DEF Init, SpaceInv, Typed
<1>2. SpaceInv /\ [Next]_vars => SpaceInv'
  <2> SUFFICES ASSUME SpaceInv, [Next]_vars PROVE SpaceInv'
    OBVIOUS
  <2>1. CASE UNCHANGED vars
    <3>1. proc' \in [fleet' -> Process] /\ (\A q \in fleet : Sound(q, proc[q]))'
      BY <2>1, NoProcess DEF vars
    <3> QED
      BY <2>1, <3>1 DEF vars, SpaceInv, Typed
  <2>2. CASE Next
    BY <2>2, ProcessStepInv, ServerStepInv, LegacyStepInv DEF Next
  <2> QED
    BY <2>1, <2>2
<1> QED
  BY <1>1, <1>2, PTL DEF Spec

\* The counts and lengths that upsert and removeLocked keep by adding and subtracting are, in every
\* process and after any sequence of uploads, deletions and restored projections, what a count of
\* the entries from the beginning gives.
THEOREM StatisticsProved == Spec => []StatisticsAreExact
<1>1. SpaceInv => StatisticsAreExact
  BY IndexIs DEF SpaceInv, Typed, Process, StatisticsAreExact
<1> QED
  BY <1>1, SpaceInvProved, PTL

\* An exact index with an entry that holds a term: no score of the term is negative, and the
\* average length is not zero.
LEMMA TermScores ==
  ASSUME NEW index \in Indexes, NEW id \in DOMAIN index.docs, NEW t,
         t \in ToSet(index.docs[id].text)
  PROVE  index.totLen # 0 /\ PositiveIdf(index, t)
<1> DEFINE docs == index.docs
<1>1. docs \in Mirrors /\ index = Recount(docs)
  BY IndexIs
<1>2. t \in TermsOf(docs)
  BY DEF TermsOf
<1> HIDE DEF docs
<1>3. index.df = [u \in TermsOf(docs) |-> Holding(docs, u)] /\ index.totLen = Length(docs)
  BY <1>1 DEF Recount
<1>4. Holding(docs, t) <= Cardinality(DOMAIN docs)
  BY <1>1, HoldingType
<1>5. PositiveIdf(index, t)
  BY <1>2, <1>3, <1>4 DEF PositiveIdf, Lookup, docs
<1>6. Places(docs) # {}
  <2>1. docs[id] \in Entries
    BY <1>1, MirrorIs DEF docs
  <2>2. PICK k \in DOMAIN docs[id].text : docs[id].text[k] = t
    BY DEF ToSet, docs
  <2>3. <<id, k>> \in {id} \X DOMAIN docs[id].text
    OBVIOUS
  <2> QED
    BY <2>3 DEF Places, docs
<1>7. Length(docs) # 0
  BY <1>1, <1>6, LengthType, FS_EmptySet DEF Length
<1> QED
  BY <1>3, <1>5, <1>7

\* What the two routes of a search find in a process whose filter is sound.
LEMMA SearchFindsFiltered ==
  ASSUME SpaceInv, NEW p \in fleet, p # "legacy", proc[p].versioned, NEW t
  PROVE  /\ \A v \in Dense(p) \cup Sparse(p, {t}) :
              v \in Versions /\ v \in proc[p].chunks /\ proc[p].filter[v[1]] = v
         /\ \A v \in Sparse(p, {t}) : t \in ToSet(TextOf[v[2]])
         /\ \A v \in proc[p].chunks : proc[p].filter[v[1]] = v /\ t \in ToSet(TextOf[v[2]])
              => v \in Sparse(p, {t})
<1> DEFINE pr == proc[p]
<1>1. pr \in Process /\ Mirrored(pr) /\ Filtered(pr) /\ Configured(pr)
  BY DEF SpaceInv, Typed, Sound
<1>2. pr.index \in Indexes /\ pr.chunks \in SUBSET Versions
      /\ pr.filter \in [Docs -> Versions \cup {None}]
  BY <1>1 DEF Process
<1>3. ASSUME NEW v \in Dense(p)
      PROVE  v \in Versions /\ v \in pr.chunks /\ pr.filter[v[1]] = v
  <2>1. v \in Own(p).points /\ v[1] \in Docs /\ pr.filter[v[1]] = v
    BY <1>3 DEF Dense, InFilter
  <2>2. v \in Points
    BY <1>1, <2>1 DEF Configured, Own, SpaceInv, Typed
  <2>3. v # None
    BY <2>2, VersionIs DEF Points, None
  <2> QED
    BY <1>1, <1>2, <2>1, <2>3 DEF Filtered
<1>4. ASSUME NEW v \in Sparse(p, {t})
      PROVE  /\ v \in pr.chunks /\ pr.filter[v[1]] = v
             /\ t \in ToSet(TextOf[v[2]])
  <2>1. /\ v \in DOMAIN pr.index.docs /\ Eligible(p, v)
        /\ {t} \cap ToSet(pr.index.docs[v].text) # {}
    BY <1>4 DEF Sparse, Found
  <2>2. v \in pr.chunks /\ pr.filter[v[1]] = v
    BY <2>1 DEF Eligible, InFilter
  <2>3. pr.index.docs[v] = Entry(v)
    BY <1>1, <2>2 DEF Mirrored
  <2> QED
    BY <2>1, <2>2, <2>3 DEF Entry
<1>5. ASSUME NEW v \in pr.chunks, pr.filter[v[1]] = v, t \in ToSet(TextOf[v[2]])
      PROVE  v \in Sparse(p, {t})
  <2>0. v \in DOMAIN pr.index.docs /\ pr.index.docs[v] = Entry(v)
    BY <1>1 DEF Mirrored
  <2>1. v \in DOMAIN pr.index.docs /\ pr.index.docs[v].text = TextOf[v[2]]
    BY <2>0 DEF Entry
  <2>2. Eligible(p, v)
    BY <1>2, <1>5, VersionIs DEF Eligible, InFilter
  <2>3. pr.index.totLen # 0 /\ PositiveIdf(pr.index, t)
    BY <1>2, <1>5, <2>1, TermScores
  <2> QED
    BY <1>5, <2>1, <2>2, <2>3 DEF Sparse, Found
<1> QED
  BY <1>2, <1>3, <1>4, <1>5

\* A search finds only versions of the model that embeds the query, and nothing before the space is
\* validated; between two writes the server finds by terms exactly the active versions of its space
\* that hold one.  For any fleet, configurations, restarts and orders of the markers.
THEOREM SpaceProved == Spec => []SearchStaysInSpace
<1>1. SpaceInv => SearchStaysInSpace
  <2> SUFFICES ASSUME SpaceInv, NEW p \in Searching,
                      NEW t \in UNION {ToSet(TextOf[b]) : b \in Bodies}
               PROVE  LET hits == Search(p, {t})
                          live == {v \in {active[d] : d \in Docs} \ {None} :
                                     Live(v) /\ v[3] = proc[p].model}
                      IN /\ \A v \in hits : v[3] = proc[p].model /\ proc[p].space = proc[p].model
                         /\ p = "server" /\ Server.pc = "idle" /\ Server.space = Server.model
                              /\ ~SearchFails(p)
                              => /\ Sparse(p, {t}) = {v \in live : t \in ToSet(TextOf[v[2]])}
                                 /\ Dense(p) \subseteq live
    BY DEF SearchStaysInSpace
  <2> DEFINE pr == proc[p]
             live == {v \in {active[d] : d \in Docs} \ {None} : Live(v) /\ v[3] = pr.model}
  <2>1. p \in fleet /\ pr.versioned /\ p # "legacy"
    BY DEF Searching, SpaceInv, Sound
  <2>2. pr \in Process /\ Configured(pr) /\ Filtered(pr) /\ (p = "server" => Current(pr))
    BY <2>1 DEF SpaceInv, Typed, Sound
  <2>3. /\ \A v \in Dense(p) \cup Sparse(p, {t}) :
             v \in Versions /\ v \in pr.chunks /\ pr.filter[v[1]] = v
        /\ \A v \in Sparse(p, {t}) : t \in ToSet(TextOf[v[2]])
        /\ \A v \in pr.chunks : pr.filter[v[1]] = v /\ t \in ToSet(TextOf[v[2]])
             => v \in Sparse(p, {t})
    BY <2>1, SearchFindsFiltered
  <2>4. \A v \in Search(p, {t}) : v[3] = pr.model /\ pr.space = pr.model
    <3> SUFFICES ASSUME NEW v \in Dense(p) \cup Sparse(p, {t})
                 PROVE  v[3] = pr.model /\ pr.space = pr.model
      BY DEF Search
    <3>1. v \in Versions /\ v[1] \in Docs /\ v[3] # Unavailable /\ v # None /\ pr.filter[v[1]] = v
      BY <2>3, VersionIs
    <3>2. v[3] = pr.space
      BY <2>2, <3>1 DEF Filtered
    <3> QED
      BY <2>2, <3>1, <3>2 DEF Configured
  <2>5. ASSUME p = "server", Server.pc = "idle", Server.space = Server.model
        PROVE  /\ Sparse(p, {t}) = {v \in live : t \in ToSet(TextOf[v[2]])}
               /\ Dense(p) \subseteq live
    <3>1. pr.filter = FilterOf(pr.model)
      BY <2>1, <2>2, <2>5 DEF Current, Server
    <3>2. live = Published(pr.model)
      BY DEF Published
    <3>3. /\ Published(pr.model) \subseteq Versions
          /\ \A v \in Published(pr.model) : Live(v)
      BY PublishedType DEF SpaceInv
    <3>4. ASSUME NEW v \in Versions, pr.filter[v[1]] = v PROVE v \in live
      <4>1. v # None /\ v[1] \in Docs
        BY VersionIs
      <4> QED
        BY <3>1, <3>2, <3>4, <4>1 DEF FilterOf
    <3>5. ASSUME NEW v \in live PROVE pr.filter[v[1]] = v /\ v \in pr.chunks
      <4>1. v \in Published(pr.model) /\ v \in Versions /\ active[v[1]] = v
        BY <3>2, <3>3 DEF Live
      <4>2. v[1] \in Docs /\ v # None
        BY <4>1, VersionIs
      <4>3. pr.filter[v[1]] = v
        BY <3>1, <4>1, <4>2 DEF FilterOf
      <4> QED
        BY <2>2, <4>2, <4>3 DEF Filtered
    <3> HIDE DEF live, pr
    <3> QED
      BY <2>3, <3>4, <3>5
  <2> QED
    BY <2>4, <2>5
<1> QED
  BY <1>1, SpaceInvProved, PTL

=============================================================================
