--------------------------------- MODULE BM25 ---------------------------------
(***************************************************************************)
(* The in-memory BM25 index (internal/rag/bm25.go).  The numbers that the  *)
(* scores are computed from, how many entries hold a term and how long all *)
(* entries are, are kept up to date by adding and subtracting.             *)
(*                                                                         *)
(* An index is a record: its entries by identifier, each with the sequence *)
(* of its terms and its source; the counts of the terms; and the total     *)
(* length.  A loop over entries is one step, of all of them at once: it    *)
(* runs under the lock of the index, or under projectionMu, which every    *)
(* search of the index holds too.                                          *)
(***************************************************************************)
EXTENDS Integers, Sequences, FiniteSets, SequencesExt, TLC

EmptyIndex == [docs |-> <<>>, df |-> <<>>, totLen |-> 0]

Lookup(f, x, none) == IF x \in DOMAIN f THEN f[x] ELSE none

\* The entries that hold a term, how many they are, and the terms that entries hold.
Holders(entries, t) == {id \in DOMAIN entries : t \in ToSet(entries[id].text)}
Holding(entries, t) == Cardinality(Holders(entries, t))
TermsOf(entries) == UNION {ToSet(entries[id].text) : id \in DOMAIN entries}

\* How long entries are: the number of the places of terms.
Places(entries) == UNION {{id} \X DOMAIN entries[id].text : id \in DOMAIN entries}
Length(entries) == Cardinality(Places(entries))

\* One less for each entry that holds a term; a count that would fall to zero is deleted.
Uncounted(df, entries) ==
  LET kept == {t \in DOMAIN df : Holding(entries, t) = 0 \/ df[t] > Holding(entries, t)}
  IN [t \in kept |-> df[t] - Holding(entries, t)]

\* One more for each entry that holds a term.
Counted(df, entries) ==
  [t \in DOMAIN df \cup TermsOf(entries) |-> Lookup(df, t, 0) + Holding(entries, t)]

\* Entries written over others; some of the entries, and the rest; a single entry.
Over(entries, docs) ==
  [id \in DOMAIN entries \cup DOMAIN docs |->
     IF id \in DOMAIN entries THEN entries[id] ELSE docs[id]]
Part(docs, ids) == [id \in DOMAIN docs \cap ids |-> docs[id]]
Without(docs, ids) == [id \in DOMAIN docs \ ids |-> docs[id]]
Single(id, entry) == [i \in {id} |-> entry]

\* Mutant: the entries that are replaced stay counted.
UpsertOnTop(index, entries) ==
  [docs |-> Over(entries, index.docs),
   df |-> Counted(index.df, entries),
   totLen |-> index.totLen + Length(entries)]

\* upsert, for one entry or for the entries of the loop of RestoreChunks: they replace the ones
\* with their identifiers.
Upsert(index, entries) ==
  LET old == Part(index.docs, DOMAIN entries)
  IN [docs |-> Over(entries, index.docs),
      df |-> Counted(Uncounted(index.df, old), entries),
      totLen |-> index.totLen - Length(old) + Length(entries)]

\* removeLocked, in the loops of deleteDoc, deleteSource and DeleteVersion.
RemoveEntries(index, ids) ==
  LET old == Part(index.docs, ids)
  IN [docs |-> Without(index.docs, ids),
      df |-> Uncounted(index.df, old),
      totLen |-> index.totLen - Length(old)]

\* idf is the logarithm of 1 + (n - df + 0.5) / (df + 0.5): more than zero if the count is
\* at most the number of entries.
PositiveIdf(index, t) == Lookup(index.df, t, 0) <= Cardinality(DOMAIN index.docs)

\* searchFiltered with a limit that nothing falls under: the eligible entries with a score above
\* zero.  An index whose entries have no terms at all finds nothing.
Found(index, query, eligible) ==
  IF index.totLen = 0 THEN {}
  ELSE {id \in eligible \cap DOMAIN index.docs :
          LET common == query \cap ToSet(index.docs[id].text)
          IN common # {} /\ \A t \in common : PositiveIdf(index, t)}

\* What a count of the entries from the beginning gives.
Recount(docs) ==
  [docs |-> docs,
   df |-> [t \in TermsOf(docs) |-> Holding(docs, t)],
   totLen |-> Length(docs)]

===============================================================================
