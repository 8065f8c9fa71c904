-------------------------------- MODULE Paging --------------------------------
(***************************************************************************)
(* The lists of the workspace API that a client reads piece by piece while *)
(* they change: pages of incidents, documents or versions behind a cursor  *)
(* (pageItems and decodeCursor of internal/handler/workspace.go), and the  *)
(* timeline of a run polled by sequence number (Events).                   *)
(*                                                                         *)
(* A row is its identifier, the stamp it is sorted by and whether it       *)
(* matches the filter of the walk.  Identifiers are hashes, so that their  *)
(* order has nothing to do with the order of insertion, and a row may be   *)
(* committed after rows with later stamps.  Stamps never change; what the  *)
(* filter looks at may.  Rows are never deleted.                           *)
(***************************************************************************)
EXTENDS Naturals, Sequences, FiniteSets, SequencesExt, Tables

CONSTANTS
  RowIds,    \* identifiers, as numbers in their order
  Stamps,    \* instants with the resolution of the stamps
  Limits,    \* values of the limit parameter
  MaxFlips,  \* bound: changes of a row that a filter may see
  MaxEvents  \* bound: events of the run

ASSUME PagingAssumption ==
  /\ RowIds \subseteq Nat \ {0} /\ Stamps \subseteq Nat \ {0}
  /\ Limits \subseteq Nat \ {0}
  /\ {MaxFlips, MaxEvents} \subseteq Nat

VARIABLES
  rows,    \* the table: stamp, and whether the filter accepts the row
  flips,   \* changes so far
  walk,    \* the client's walk over the pages
  stayed,  \* the rows that have matched since the walk began (history)
  events,  \* number of events of the run; their sequence numbers are 1..events
  poll     \* the client's polling, and the events there were at its last poll (history)

pageVars == <<rows, flips, walk, stayed>>
pollVars == <<events, poll>>

NoCursor == [at |-> 0, id |-> 0]

PagingInit ==
  /\ rows = <<>>
  /\ flips = 0
  /\ walk = [pc |-> "idle", cursor |-> NoCursor, got |-> <<>>]
  /\ stayed = {}
  /\ events = 0
  /\ poll = [after |-> 0, got |-> <<>>, more |-> FALSE, seen |-> 0]

-----------------------------------------------------------------------------
(* The writers                                                             *)

Insert(id) ==
  /\ id \notin DOMAIN rows
  /\ \E at \in Stamps, match \in BOOLEAN : rows' = With(rows, id, [at |-> at, match |-> match])
  /\ UNCHANGED <<flips, walk, stayed>>

\* The incident is resolved or fires again, the document gets another title.
Flip(id) ==
  /\ id \in DOMAIN rows /\ flips < MaxFlips
  /\ rows' = [rows EXCEPT ![id].match = ~@]
  /\ stayed' = stayed \ {id}
  /\ flips' = flips + 1
  /\ UNCHANGED walk

-----------------------------------------------------------------------------
(* Pages                                                                   *)

\* The order of the lists: the newest first, equal stamps by identifier.
Before(a, b) == rows[a].at > rows[b].at \/ (rows[a].at = rows[b].at /\ a > b)

Matching == {id \in DOMAIN rows : rows[id].match}

\* Mutant: rows with the stamp of the cursor count as seen.
AfterStamp(id, cur) == cur = NoCursor \/ rows[id].at < cur.at

\* The row comes after the cursor.
AfterCursor(id, cur) ==
  cur = NoCursor \/ rows[id].at < cur.at \/ (rows[id].at = cur.at /\ id < cur.id)

\* The rows as sort.Slice leaves them; no two are equal in the order.
Sorted(ids) ==
  CHOOSE s \in [1..Cardinality(ids) -> ids] : \A i, j \in DOMAIN s : i < j => Before(s[i], s[j])

\* The identifiers of the matching rows after the cursor.
Rest(cur) == Sorted({id \in Matching : AfterCursor(id, cur)})

BeginWalk ==
  /\ walk.pc = "idle"
  /\ walk' = [walk EXCEPT !.pc = "walking"]
  /\ stayed' = Matching
  /\ UNCHANGED <<rows, flips>>

\* One request: the rows are read, filtered, sorted and cut; there is a cursor for the next
\* page if there is a next page.
Page ==
  /\ walk.pc = "walking"
  /\ \E limit \in Limits :
       LET rest == Rest(walk.cursor)
           page == SubSeq(rest, 1, IF Len(rest) > limit THEN limit ELSE Len(rest))
           more == Len(rest) > limit
       IN walk' = [pc |-> IF more THEN "walking" ELSE "done",
                   cursor |-> IF more THEN [at |-> rows[Last(page)].at, id |-> Last(page)]
                              ELSE NoCursor,
                   got |-> walk.got \o page]
  /\ UNCHANGED <<rows, flips, stayed>>

PageStep == BeginWalk \/ Page \/ \E id \in RowIds : Insert(id) \/ Flip(id)

-----------------------------------------------------------------------------
(* Polling                                                                 *)

AddEvent ==
  /\ events < MaxEvents
  /\ events' = events + 1
  /\ UNCHANGED poll

\* Mutant: the next sequence number is taken before the extra row is cut off.
NextOfRead(after, limit) ==
  IF events > after + limit THEN after + limit + 1 ELSE IF events > after THEN events ELSE after

\* One more event than the limit is read to know whether there are more; the client goes on
\* after the last one it was given.
NextSequence(after, limit) ==
  IF events > after + limit THEN after + limit ELSE IF events > after THEN events ELSE after

Poll ==
  /\ \E limit \in Limits :
       LET last == IF events > poll.after + limit THEN poll.after + limit ELSE events
       IN poll' = [after |-> NextSequence(poll.after, limit),
                   got |-> poll.got \o [n \in 1..(last - poll.after) |-> poll.after + n],
                   more |-> events > poll.after + limit,
                   seen |-> events]
  /\ UNCHANGED events

PollStep == AddEvent \/ Poll

-----------------------------------------------------------------------------
(* Properties                                                              *)

\* Cursor pages over a changing list (pageItems): no row comes twice, the pages are in the order
\* of the list, and a finished walk has returned every row that matched from its beginning to
\* its end, however many rows share a stamp and whatever was inserted or changed between pages.
PagesAreExact ==
  /\ \A i, j \in DOMAIN walk.got : i < j => Before(walk.got[i], walk.got[j])
  /\ walk.pc = "done" => stayed \subseteq ToSet(walk.got)

\* Polling with next_after_sequence (Events): the client has exactly the first events, each once
\* and in order, and has_more tells whether it was left any.
PollsAreComplete ==
  /\ poll.got = [n \in 1..poll.after |-> n]
  /\ poll.more <=> poll.after < poll.seen

===============================================================================
