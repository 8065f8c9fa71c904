--------------------------- MODULE ReadModel_proofs ---------------------------
(***************************************************************************)
(* Proofs about what a client reads: the lists of ReadModel that it reads  *)
(* piece by piece, for any number of rows, stamps, changes, limits and     *)
(* events, the evidence graph, for any evidence and any limits, and the    *)
(* topology, for any configuration.                                        *)
(***************************************************************************)
EXTENDS ReadModel, FiniteSetTheorems, SequenceTheorems, TLAPS

-----------------------------------------------------------------------------
(* Polling                                                                 *)

\* The client is not ahead of the run.
PollInv ==
  /\ events \in Nat /\ poll.after \in Nat /\ poll.seen \in Nat
  /\ poll.after <= events
  /\ PollsAreComplete

\* The numbers up to a and the c numbers after it are the numbers up to a + c.
LEMMA CountsOn ==
  ASSUME NEW a \in Nat, NEW c \in Nat
  PROVE  [n \in 1..a |-> n] \o [n \in 1..c |-> a + n] = [n \in 1..(a + c) |-> n]
<1>1. PICK s : s = [n \in 1..a |-> n]
  OBVIOUS
<1>2. s \in Seq(Nat) /\ Len(s) = a /\ \A n \in 1..a : s[n] = n
  BY <1>1
<1>3. PICK t : t = [n \in 1..c |-> a + n]
  OBVIOUS
<1>4. t \in Seq(Nat) /\ Len(t) = c /\ \A n \in 1..c : t[n] = a + n
  BY <1>3
<1>5. Len(s \o t) = a + c /\ s \o t \in Seq(Nat)
  BY <1>2, <1>4
<1>6. \A n \in 1..(a + c) : (s \o t)[n] = n
  <2> SUFFICES ASSUME NEW n \in 1..(a + c) PROVE (s \o t)[n] = n
    OBVIOUS
  <2>1. CASE n <= a
    BY <1>2, <1>4, <2>1
  <2>2. CASE ~(n <= a)
    <3>1. PICK m \in 1..c : n = a + m
      <4>1. n - a \in 1..c /\ n = a + (n - a)
        BY <2>2
      <4> QED
        BY <4>1
    <3>2. (s \o t)[n] = t[n - Len(s)]
      BY <1>2, <1>4, <2>2
    <3>3. n - Len(s) = m
      BY <1>2, <3>1
    <3> QED
      BY <1>4, <3>1, <3>2, <3>3
  <2> QED
    BY <2>1, <2>2
<1>7. DOMAIN (s \o t) = 1..(a + c)
  BY <1>5
<1>8. s \o t = [n \in 1..(a + c) |-> n]
  <2>1. PICK u \in Seq(Nat) : u = s \o t
    BY <1>5
  <2>2. DOMAIN u = 1..(a + c) /\ \A n \in 1..(a + c) : u[n] = n
    BY <1>6, <1>7, <2>1
  <2>3. PICK v : v = [n \in 1..(a + c) |-> n]
    OBVIOUS
  <2>4. v \in Seq(Nat) /\ Len(v) = a + c /\ \A n \in 1..(a + c) : v[n] = n
    BY <2>3
  <2>5. u = v
    BY <1>5, <2>1, <2>2, <2>4, SeqEqual
  <2> QED
    BY <2>1, <2>3, <2>5
<1> QED
  BY <1>1, <1>3, <1>8

\* An event or a poll.
LEMMA PollStepInv ==
  ASSUME PollInv, PollStep
  PROVE  PollInv'
<1>1. /\ events \in Nat /\ poll.after \in Nat /\ poll.after <= events
      /\ poll.got = [n \in 1..poll.after |-> n]
  BY DEF PollInv, PollsAreComplete
<1>2. CASE AddEvent
  <2>1. events' = events + 1 /\ UNCHANGED poll
    BY <1>2 DEF AddEvent
  <2> QED
    BY <1>1, <2>1 DEF PollInv, PollsAreComplete
<1>3. CASE Poll
  <2>1. PICK limit \in Limits :
          LET last == IF events > poll.after + limit THEN poll.after + limit ELSE events
          IN poll' = [after |-> NextSequence(poll.after, limit),
                      got |-> poll.got \o [n \in 1..(last - poll.after) |-> poll.after + n],
                      more |-> events > poll.after + limit,
                      seen |-> events]
    BY <1>3 DEF Poll
  <2>2. limit \in Nat /\ limit >= 1
    BY PagingAssumption
  <2>3. PICK a \in Nat, b \in Nat :
          /\ a = poll.after
          /\ b = IF events > poll.after + limit THEN poll.after + limit ELSE events
    BY <1>1, <2>2
  <2>4. a <= b /\ b <= events /\ NextSequence(poll.after, limit) = b
    BY <1>1, <2>2, <2>3 DEF NextSequence
  <2>5. PICK c \in Nat : c = b - a
    BY <2>4
  <2>6. poll.got \o [n \in 1..c |-> a + n] = [n \in 1..b |-> n]
    <3>1. b = a + c
      BY <2>5
    <3>2. poll.got = [n \in 1..a |-> n]
      BY <1>1, <2>3
    <3> QED
      BY <3>1, <3>2, CountsOn
  <2>7. /\ poll'.after = b /\ poll'.got = [n \in 1..b |-> n] /\ poll'.seen = events
        /\ poll'.more <=> events > a + limit
    BY <2>1, <2>3, <2>4, <2>5, <2>6
  <2>8. poll'.more <=> b < events
    BY <1>1, <2>2, <2>3, <2>7
  <2>9. UNCHANGED events
    BY <1>3 DEF Poll
  <2> QED
    BY <1>1, <2>4, <2>7, <2>8, <2>9 DEF PollInv, PollsAreComplete
<1> QED
  BY <1>2, <1>3 DEF PollStep

-----------------------------------------------------------------------------
(* The order of the lists                                                  *)

Row == [at : Nat \ {0}, match : BOOLEAN]

\* The table is finite, and identifiers and stamps are numbers.
RowsSound ==
  /\ IsFiniteSet(DOMAIN rows)
  /\ \A id \in DOMAIN rows : id \in Nat \ {0} /\ rows[id] \in Row

\* The newest first, equal stamps by identifier: a strict total order.
LEMMA BeforeIsTotal ==
  ASSUME RowsSound, NEW a \in DOMAIN rows, NEW b \in DOMAIN rows
  PROVE  (a = b \/ Before(a, b) \/ Before(b, a)) /\ ~Before(a, a)
<1>1. a \in Nat /\ b \in Nat /\ rows[a].at \in Nat /\ rows[b].at \in Nat
  BY DEF RowsSound, Row
<1> QED
  BY <1>1 DEF Before

\* What comes before a row that comes before another comes before that one too.
LEMMA BeforeIsTransitive ==
  ASSUME RowsSound, NEW a \in DOMAIN rows, NEW b \in DOMAIN rows, NEW c \in DOMAIN rows,
         Before(a, b), Before(b, c)
  PROVE  Before(a, c)
<1>1. /\ a \in Nat /\ b \in Nat /\ c \in Nat
      /\ rows[a].at \in Nat /\ rows[b].at \in Nat /\ rows[c].at \in Nat
  BY DEF RowsSound, Row
<1> QED
  BY <1>1 DEF Before

\* m is the last of the rows in A.
IsLast(m, A) == m \in A /\ \A x \in A : x # m => Before(x, m)

\* A property of sets that every finite set inherits from its proper subsets: a family of
\* finite sets that is not empty has a member with no proper subset in the family.
LEMMA Smallest ==
  ASSUME NEW D, IsFiniteSet(D), NEW F \in SUBSET (SUBSET D), F # {}
  PROVE  \E A \in F : \A B \in SUBSET A : B # A => B \notin F
<1>1. F \subseteq FiniteSubsetsOf(D)
  BY FS_Subset DEF FiniteSubsetsOf
<1>2. PICK R, S : R = StrictSubsetOrdering(D) /\ S = FiniteSubsetsOf(D)
  OBVIOUS
<1>3. IsWellFoundedOn(R, S)
  BY <1>2, FS_StrictSubsetOrderingWellFounded
<1>4. PICK A \in F : \A B \in F : ~(<<B, A>> \in R)
  BY <1>1, <1>2, <1>3, WFMin
<1>5. ASSUME NEW B \in SUBSET A, B # A PROVE B \notin F
  <2>1. A \in SUBSET D /\ B \in SUBSET D
    OBVIOUS
  <2>2. <<B, A>> \in R
    BY <1>2, <1>5, <2>1 DEF StrictSubsetOrdering
  <2> QED
    BY <1>4, <2>2
<1> QED
  BY <1>5

\* Finitely many rows have a last one.
LEMMA LastExists ==
  ASSUME RowsSound, NEW C \in SUBSET (DOMAIN rows), C # {}
  PROVE  \E m : IsLast(m, C)
<1>1. PICK D : D = DOMAIN rows /\ IsFiniteSet(D)
  BY DEF RowsSound
<1>2. PICK F : F = {A \in SUBSET D : A # {} /\ ~\E m : IsLast(m, A)}
  OBVIOUS
<1>3. F \in SUBSET (SUBSET D)
  BY <1>2
<1>4. F = {}
  <2> SUFFICES ASSUME F # {} PROVE FALSE
    OBVIOUS
  <2>1. PICK A \in F : \A B \in SUBSET A : B # A => B \notin F
    BY <1>1, <1>3, Smallest
  <2>2. A \in SUBSET D /\ A # {} /\ ~\E m : IsLast(m, A)
    BY <1>2
  <2>3. PICK x : x \in A
    BY <2>2
  <2>4. PICK B : B = A \ {x}
    OBVIOUS
  <2>5. CASE B = {}
    <3>1. IsLast(x, A)
      BY <2>3, <2>4, <2>5 DEF IsLast
    <3> QED
      BY <2>2, <3>1
  <2>6. CASE B # {}
    <3>1. B \in SUBSET A /\ B # A /\ B \in SUBSET D
      BY <2>2, <2>3, <2>4
    <3>2. B \notin F
      BY <2>1, <3>1
    <3>3. PICK m : IsLast(m, B)
      BY <1>2, <2>6, <3>1, <3>2
    <3>4. m \in DOMAIN rows /\ x \in DOMAIN rows /\ x # m /\ m \in A
      BY <1>1, <2>2, <2>3, <2>4, <3>3 DEF IsLast
    <3>5. CASE Before(x, m)
      <4>1. IsLast(m, A)
        BY <2>4, <3>3, <3>4, <3>5 DEF IsLast
      <4> QED
        BY <2>2, <4>1
    <3>6. CASE Before(m, x)
      <4>1. ASSUME NEW y \in A, y # x PROVE Before(y, x)
        <5>1. y \in B /\ y \in DOMAIN rows
          BY <1>1, <2>2, <2>4, <4>1
        <5>2. y = m \/ Before(y, m)
          BY <3>3, <5>1 DEF IsLast
        <5> QED
          BY <3>4, <3>6, <5>1, <5>2, BeforeIsTransitive
      <4>2. IsLast(x, A)
        BY <2>3, <4>1 DEF IsLast
      <4> QED
        BY <2>2, <4>2
    <3> QED
      BY <3>4, <3>5, <3>6, BeforeIsTotal
  <2> QED
    BY <2>5, <2>6
<1>5. C \in SUBSET D /\ C \notin F
  BY <1>1, <1>4
<1> QED
  BY <1>2, <1>5

\* s lists the rows of A, in order.
Ordered(s) == \A i, j \in DOMAIN s : i < j => Before(s[i], s[j])
Lists(s, A) == s \in [1..Cardinality(A) -> A] /\ Ordered(s)

\* Finitely many rows can be listed in order.
LEMMA ListExists ==
  ASSUME RowsSound, NEW C \in SUBSET (DOMAIN rows)
  PROVE  \E s : Lists(s, C)
<1>1. PICK D : D = DOMAIN rows /\ IsFiniteSet(D)
  BY DEF RowsSound
<1>2. PICK F : F = {A \in SUBSET D : ~\E s : Lists(s, A)}
  OBVIOUS
<1>3. F \in SUBSET (SUBSET D)
  BY <1>2
<1>4. F = {}
  <2> SUFFICES ASSUME F # {} PROVE FALSE
    OBVIOUS
  <2>1. PICK A \in F : \A B \in SUBSET A : B # A => B \notin F
    BY <1>1, <1>3, Smallest
  <2>2. A \in SUBSET D /\ ~\E s : Lists(s, A)
    BY <1>2
  <2>3. CASE A = {}
    <3>1. PICK s : s = [i \in 1..0 |-> i]
      OBVIOUS
    <3>2. Cardinality(A) = 0
      BY <2>3, FS_EmptySet
    <3>3. s \in [1..Cardinality(A) -> A] /\ DOMAIN s = {}
      BY <3>1, <3>2
    <3>4. Lists(s, A)
      BY <3>3 DEF Lists, Ordered
    <3> QED
      BY <2>2, <3>4
  <2>4. CASE A # {}
    <3>1. PICK m : IsLast(m, A)
      BY <1>1, <2>2, <2>4, LastExists
    <3>2. PICK B : B = A \ {m}
      OBVIOUS
    <3>3. B \in SUBSET A /\ B # A /\ B \in SUBSET D /\ m \in A
      BY <2>2, <3>1, <3>2 DEF IsLast
    <3>4. B \notin F
      BY <2>1, <3>3
    <3>5. PICK s : Lists(s, B)
      BY <1>2, <3>3, <3>4
    <3>6. IsFiniteSet(A) /\ IsFiniteSet(B)
      BY <1>1, <2>2, <3>3, FS_Subset
    <3>7. PICK n \in Nat : n = Cardinality(B) /\ Cardinality(A) = n + 1
      <4>1. Cardinality(B) = Cardinality(A) - 1
        BY <3>2, <3>3, <3>6, FS_RemoveElement
      <4>2. Cardinality(A) \in Nat /\ Cardinality(B) \in Nat
        BY <3>6, FS_CardinalityType
      <4> QED
        BY <4>1, <4>2
    <3>8. s \in [1..n -> B] /\ \A i, j \in 1..n : i < j => Before(s[i], s[j])
      BY <3>5, <3>7 DEF Lists, Ordered
    <3>9. PICK t : t = [i \in 1..(n + 1) |-> IF i = n + 1 THEN m ELSE s[i]]
      OBVIOUS
    <3>10. /\ DOMAIN t = 1..(n + 1) /\ t[n + 1] = m
           /\ \A i \in 1..n : t[i] = s[i] /\ t[i] \in B
           /\ \A i \in 1..(n + 1) : i \in 1..n \/ i = n + 1
      BY <3>8, <3>9
    <3>11. t \in [1..Cardinality(A) -> A]
      BY <3>3, <3>7, <3>9, <3>10
    <3>12. ASSUME NEW i \in 1..(n + 1), NEW j \in 1..(n + 1), i < j PROVE Before(t[i], t[j])
      <4>1. i \in 1..n
        BY <3>12
      <4>2. CASE j \in 1..n
        BY <3>8, <3>10, <3>12, <4>1, <4>2
      <4>3. CASE j = n + 1
        <5>1. t[i] \in A /\ t[i] # m /\ t[j] = m
          BY <3>2, <3>3, <3>10, <4>1, <4>3
        <5> QED
          BY <3>1, <5>1 DEF IsLast
      <4> QED
        BY <3>10, <4>2, <4>3
    <3>13. Lists(t, A)
      BY <3>10, <3>11, <3>12 DEF Lists, Ordered
    <3> QED
      BY <2>2, <3>13
  <2> QED
    BY <2>3, <2>4
<1> QED
  BY <1>1, <1>2, <1>4

\* s has all the rows of C, in order.
ListsAll(s, C) ==
  /\ s \in Seq(C) /\ Len(s) \in Nat
  /\ \A i, j \in 1..Len(s) : i < j => Before(s[i], s[j])
  /\ \A x \in C : \E i \in 1..Len(s) : s[i] = x

\* What sort.Slice returns: all the rows, once, in order.
LEMMA SortedLists ==
  ASSUME RowsSound, NEW C \in SUBSET (DOMAIN rows)
  PROVE  ListsAll(Sorted(C), C)
<1> DEFINE s == Sorted(C)
<1> HIDE DEF s
<1>1. IsFiniteSet(C)
  BY FS_Subset DEF RowsSound
<1>2. PICK n \in Nat : n = Cardinality(C)
  BY <1>1, FS_CardinalityType
<1>3. PICK t : Lists(t, C)
  BY ListExists
<1>4. t \in [1..Cardinality(C) -> C] /\ \A i, j \in DOMAIN t : i < j => Before(t[i], t[j])
  BY <1>3 DEF Lists, Ordered
<1>5. s \in [1..Cardinality(C) -> C] /\ \A i, j \in DOMAIN s : i < j => Before(s[i], s[j])
  BY <1>4 DEF Sorted, s
<1>6. s \in [1..n -> C] /\ \A i, j \in 1..n : i < j => Before(s[i], s[j])
  BY <1>2, <1>5
<1>7. s \in Seq(C) /\ Len(s) = n
  BY <1>6
<1>8. s \in Injection(1..n, C)
  <2>1. ASSUME NEW i \in 1..n, NEW j \in 1..n, s[i] = s[j] PROVE i = j
    <3>1. s[i] \in DOMAIN rows
      BY <1>6
    <3>2. ~Before(s[i], s[j]) /\ ~Before(s[j], s[i])
      BY <2>1, <3>1, BeforeIsTotal
    <3> QED
      BY <1>6, <3>2
  <2> QED
    BY <1>6, <2>1 DEF Injection, IsInjective
<1>9. \A x \in C : \E i \in 1..n : s[i] = x
  <2>1. PICK N : N = 1..n
    OBVIOUS
  <2>2. IsFiniteSet(N) /\ Cardinality(N) = n
    BY <2>1, FS_Interval
  <2>3. s \in Surjection(N, C)
    BY <1>1, <1>2, <1>8, <2>1, <2>2, FS_Injection
  <2> QED
    BY <2>1, <2>3 DEF Surjection
<1>10. ListsAll(s, C)
  BY <1>2, <1>6, <1>7, <1>9 DEF ListsAll
<1> QED
  BY <1>10 DEF s

-----------------------------------------------------------------------------
(* The walk                                                                *)

\* The cursor is the last row that was returned, whose stamp has not changed.
CursorSound ==
  IF walk.got = <<>> THEN walk.cursor = NoCursor
  ELSE walk.cursor = [at |-> rows[Last(walk.got)].at, id |-> Last(walk.got)]

\* A walk under way has returned the rows that stayed, or they come after its cursor.
PageInv ==
  /\ RowsSound
  /\ walk.got \in Seq(DOMAIN rows)
  /\ Ordered(walk.got)
  /\ walk.pc = "idle" => walk.got = <<>> /\ walk.cursor = NoCursor
  /\ walk.pc = "walking" =>
       /\ CursorSound
       /\ stayed \subseteq Matching
       /\ \A id \in stayed : id \in ToSet(walk.got) \/ AfterCursor(id, walk.cursor)
  /\ walk.pc = "done" => stayed \subseteq ToSet(walk.got)

\* A row after the cursor comes after all rows that were returned.
LEMMA AfterAll ==
  ASSUME PageInv, CursorSound, NEW x \in DOMAIN rows, AfterCursor(x, walk.cursor),
         NEW i \in DOMAIN walk.got
  PROVE  Before(walk.got[i], x)
<1>1. RowsSound /\ walk.got \in Seq(DOMAIN rows) /\ Ordered(walk.got)
  BY DEF PageInv
<1>2. PICK n \in Nat : n = Len(walk.got) /\ i \in 1..n /\ n \in DOMAIN walk.got
  BY <1>1
<1>3. PICK l \in DOMAIN rows : l = walk.got[n]
  BY <1>1, <1>2
<1>4. walk.got # <<>> /\ Last(walk.got) = l
  BY <1>1, <1>2, <1>3 DEF Last
<1>5. walk.cursor = [at |-> rows[l].at, id |-> l]
  BY <1>4 DEF CursorSound
<1>6. /\ l \in Nat \ {0} /\ x \in Nat /\ rows[l].at \in Nat /\ rows[x].at \in Nat
  BY <1>1 DEF RowsSound, Row
<1>7. walk.cursor # NoCursor /\ walk.cursor.at = rows[l].at /\ walk.cursor.id = l
  BY <1>5, <1>6 DEF NoCursor
<1>8. Before(l, x)
  BY <1>6, <1>7 DEF AfterCursor, Before
<1>9. CASE i = n
  BY <1>3, <1>8, <1>9
<1>10. CASE i # n
  <2>1. i < n
    BY <1>2, <1>10
  <2>2. Before(walk.got[i], l) /\ walk.got[i] \in DOMAIN rows
    BY <1>1, <1>2, <1>3, <2>1 DEF Ordered
  <2> QED
    BY <1>1, <1>8, <2>2, BeforeIsTransitive
<1> QED
  BY <1>9, <1>10

\* One request of a walk.
LEMMA PageKeeps ==
  ASSUME PageInv, Page
  PROVE  PageInv'
<1>1. /\ RowsSound /\ walk.got \in Seq(DOMAIN rows) /\ Ordered(walk.got)
      /\ CursorSound /\ stayed \subseteq Matching
      /\ \A id \in stayed : id \in ToSet(walk.got) \/ AfterCursor(id, walk.cursor)
  BY DEF PageInv, Page
<1>2. PICK C, rest : /\ C = {id \in Matching : AfterCursor(id, walk.cursor)}
                     /\ rest = Rest(walk.cursor)
  OBVIOUS
<1>3. C \in SUBSET (DOMAIN rows) /\ \A x \in C : AfterCursor(x, walk.cursor)
  BY <1>2 DEF Matching
<1>4. rest = Sorted(C)
  BY <1>2 DEF Rest
<1>5. /\ rest \in Seq(C) /\ Len(rest) \in Nat
      /\ \A i, j \in 1..Len(rest) : i < j => Before(rest[i], rest[j])
      /\ \A x \in C : \E i \in 1..Len(rest) : rest[i] = x
  <2>1. ListsAll(rest, C)
    BY <1>1, <1>3, <1>4, SortedLists
  <2> QED
    BY <2>1 DEF ListsAll
<1>6. PICK limit \in Limits :
        LET page == SubSeq(rest, 1, IF Len(rest) > limit THEN limit ELSE Len(rest))
            more == Len(rest) > limit
        IN walk' = [pc |-> IF more THEN "walking" ELSE "done",
                    cursor |-> IF more THEN [at |-> rows[Last(page)].at, id |-> Last(page)]
                               ELSE NoCursor,
                    got |-> walk.got \o page]
  BY <1>2 DEF Page
<1>7. limit \in Nat /\ limit >= 1
  BY PagingAssumption
<1>8. PICK k \in Nat : /\ k = (IF Len(rest) > limit THEN limit ELSE Len(rest))
                       /\ k <= Len(rest) /\ (Len(rest) > limit => k = limit)
                       /\ (~(Len(rest) > limit) => k = Len(rest))
  BY <1>5, <1>7
<1>9. PICK page : page = SubSeq(rest, 1, k)
  OBVIOUS
<1>10. page \in Seq(C) /\ Len(page) = k /\ \A i \in 1..k : page[i] = rest[i]
  BY <1>5, <1>8, <1>9
<1>11. PICK got : got = walk.got \o page
  OBVIOUS
<1>12. /\ walk'.got = got
       /\ Len(rest) > limit => /\ walk'.pc = "walking"
                               /\ walk'.cursor = [at |-> rows[Last(page)].at, id |-> Last(page)]
       /\ ~(Len(rest) > limit) => walk'.pc = "done"
  BY <1>6, <1>8, <1>9, <1>11
<1>13. UNCHANGED <<rows, stayed>>
  BY DEF Page
<1>14. PICK n \in Nat : n = Len(walk.got)
  BY <1>1
<1>15. /\ got \in Seq(DOMAIN rows) /\ Len(got) = n + k
       /\ \A i \in 1..n : got[i] = walk.got[i]
       /\ \A i \in 1..k : got[n + i] = rest[i]
  <2>1. page \in Seq(DOMAIN rows)
    BY <1>3, <1>10
  <2>2. got \in Seq(DOMAIN rows) /\ Len(got) = n + k
    <3>1. PICK g \in Seq(DOMAIN rows) : g = walk.got
      BY <1>1
    <3>2. g \o page \in Seq(DOMAIN rows)
      BY <2>1, <3>1, ConcatProperties
    <3>3. Len(g \o page) = Len(g) + Len(page)
      BY <2>1, <3>1, ConcatProperties
    <3> QED
      BY <1>10, <1>11, <1>14, <3>1, <3>2, <3>3
  <2>3. \A i \in 1..n : got[i] = walk.got[i]
    BY <1>1, <1>11, <1>14, <2>1
  <2>4. ASSUME NEW i \in 1..k PROVE got[n + i] = rest[i]
    <3>1. n + i \in 1..(n + k) /\ n + i > n /\ (n + i) - n = i
      OBVIOUS
    <3>2. got[n + i] = page[(n + i) - n]
      BY <1>1, <1>10, <1>11, <1>14, <2>1, <3>1
    <3> QED
      BY <1>10, <3>1, <3>2
  <2> QED
    BY <2>2, <2>3, <2>4
<1>16. \A i \in 1..k : rest[i] \in C /\ i \in 1..Len(rest)
  BY <1>5, <1>8
<1>17. \A x \in C : x \in ToSet(got) \/ (Len(rest) > limit /\ Before(rest[limit], x))
  <2> SUFFICES ASSUME NEW x \in C
               PROVE  x \in ToSet(got) \/ (Len(rest) > limit /\ Before(rest[limit], x))
    OBVIOUS
  <2>1. PICK i \in 1..Len(rest) : rest[i] = x
    BY <1>5
  <2>2. CASE i <= k
    <3>1. i \in 1..k /\ n + i \in 1..(n + k)
      BY <1>5, <2>2
    <3>2. got[n + i] = x /\ n + i \in DOMAIN got
      BY <1>15, <2>1, <3>1
    <3> QED
      BY <3>2 DEF ToSet
  <2>3. CASE ~(i <= k)
    <3>1. Len(rest) > limit /\ limit \in 1..Len(rest) /\ limit < i
      BY <1>5, <1>7, <1>8, <2>3
    <3> QED
      BY <1>5, <2>1, <3>1
  <2> QED
    BY <2>2, <2>3
<1>18. Ordered(got)
  <2> SUFFICES ASSUME NEW i \in 1..(n + k), NEW j \in 1..(n + k), i < j
               PROVE  Before(got[i], got[j])
    BY <1>15 DEF Ordered
  <2>1. CASE j <= n
    <3>1. i \in 1..n /\ j \in 1..n /\ i \in DOMAIN walk.got /\ j \in DOMAIN walk.got
      BY <1>1, <1>14, <2>1
    <3> QED
      BY <1>1, <1>15, <3>1 DEF Ordered
  <2>2. CASE ~(j <= n)
    <3>1. PICK b \in 1..k : j = n + b
      <4>1. j - n \in 1..k /\ j = n + (j - n)
        BY <2>2
      <4> QED
        BY <4>1
    <3>2. got[j] = rest[b] /\ rest[b] \in C /\ b \in 1..Len(rest)
      BY <1>15, <1>16, <3>1
    <3>3. CASE i <= n
      <4>1. i \in DOMAIN walk.got /\ got[i] = walk.got[i]
        BY <1>1, <1>14, <1>15, <3>3
      <4>2. PICK x \in DOMAIN rows : x = got[j] /\ AfterCursor(x, walk.cursor)
        BY <1>3, <3>2
      <4> QED
        BY <1>1, <4>1, <4>2, AfterAll
    <3>4. CASE ~(i <= n)
      <4>1. PICK a \in 1..k : i = n + a
        <5>1. i - n \in 1..k /\ i = n + (i - n)
          BY <3>4
        <5> QED
          BY <5>1
      <4>2. a < b
        BY <3>1, <4>1
      <4>3. got[i] = rest[a] /\ a \in 1..Len(rest)
        BY <1>15, <1>16, <4>1
      <4> QED
        BY <1>5, <3>2, <4>2, <4>3
    <3> QED
      BY <3>3, <3>4
  <2> QED
    BY <2>1, <2>2
<1>19. \A x \in stayed : x \in ToSet(walk.got) => x \in ToSet(got)
  <2> SUFFICES ASSUME NEW x \in ToSet(walk.got) PROVE x \in ToSet(got)
    OBVIOUS
  <2>1. PICK i \in 1..n : walk.got[i] = x
    BY <1>1, <1>14 DEF ToSet
  <2>2. i \in DOMAIN got /\ got[i] = x
    BY <1>15, <2>1
  <2> QED
    BY <2>2 DEF ToSet
<1>20. \A x \in stayed : x \in ToSet(got) \/ (Len(rest) > limit /\ Before(rest[limit], x))
  <2> SUFFICES ASSUME NEW x \in stayed, x \notin ToSet(walk.got)
               PROVE  x \in C
    BY <1>17, <1>19
  <2> QED
    BY <1>1, <1>2
<1>21. RowsSound' /\ Matching' = Matching
  BY <1>1, <1>13 DEF RowsSound, Matching
<1>22. walk'.got \in Seq(DOMAIN rows') /\ Ordered(walk.got)'
  <2>1. Ordered(got)'
    BY <1>13, <1>18 DEF Ordered, Before
  <2> QED
    BY <1>12, <1>13, <1>15, <2>1 DEF Ordered
<1>23. CASE Len(rest) > limit
  <2>1. PICK l \in DOMAIN rows : l = rest[limit] /\ limit \in 1..k /\ k = limit
    BY <1>3, <1>7, <1>8, <1>16, <1>23
  <2>2. Last(page) = l /\ Last(got) = l /\ got # <<>>
    BY <1>7, <1>10, <1>15, <2>1 DEF Last
  <2>3. walk'.pc = "walking" /\ walk'.cursor = [at |-> rows[l].at, id |-> l]
    BY <1>12, <1>23, <2>2
  <2>4. CursorSound'
    BY <1>12, <1>13, <2>2, <2>3 DEF CursorSound
  <2>5. ASSUME NEW x \in stayed PROVE x \in ToSet(got) \/ AfterCursor(x, walk.cursor)'
    <3>1. CASE Before(l, x)
      <4>1. x \in DOMAIN rows
        BY <1>1 DEF Matching
      <4>2. x \in Nat /\ l \in Nat /\ rows[l].at \in Nat /\ rows[x].at \in Nat
        BY <1>1, <4>1 DEF RowsSound, Row
      <4>3. walk'.cursor.at = rows[l].at /\ walk'.cursor.id = l
        BY <2>3
      <4> QED
        BY <1>13, <3>1, <4>2, <4>3 DEF AfterCursor, Before
    <3> QED
      BY <1>20, <2>1, <3>1
  <2>6. \A x \in stayed' : x \in ToSet(walk'.got) \/ AfterCursor(x, walk.cursor)'
    BY <1>12, <1>13, <2>5
  <2>7. (\A id \in stayed : id \in ToSet(walk.got) \/ AfterCursor(id, walk.cursor))'
    BY <2>6 DEF ToSet, AfterCursor
  <2>8. stayed' \subseteq Matching'
    BY <1>1, <1>13, <1>21
  <2> QED
    BY <1>21, <1>22, <2>3, <2>4, <2>7, <2>8 DEF PageInv
<1>24. CASE ~(Len(rest) > limit)
  <2>1. walk'.pc = "done" /\ stayed' \subseteq ToSet(walk'.got)
    BY <1>12, <1>13, <1>20, <1>24
  <2> QED
    BY <1>21, <1>22, <2>1 DEF PageInv, ToSet
<1> QED
  BY <1>23, <1>24

\* A step that adds rows and changes no stamp, and after which what stayed is no more than
\* before, disturbs no walk.
LEMMA WritersKeep ==
  ASSUME PageInv, RowsSound', DOMAIN rows \subseteq DOMAIN rows',
         \A id \in DOMAIN rows : rows'[id].at = rows[id].at,
         stayed' \subseteq stayed, UNCHANGED walk,
         \A id \in stayed' : id \in Matching => id \in Matching'
  PROVE  PageInv'
<1>1. /\ walk.got \in Seq(DOMAIN rows) /\ Ordered(walk.got)
  BY DEF PageInv
<1>2. walk'.got \in Seq(DOMAIN rows')
  BY <1>1
<1>3. Ordered(walk.got)'
  <2>1. \A i \in DOMAIN walk.got : walk.got[i] \in DOMAIN rows
    BY <1>1
  <2> QED
    BY <1>1, <2>1 DEF Ordered, Before
<1>4. ASSUME walk.pc = "walking"
      PROVE  /\ CursorSound' /\ stayed' \subseteq Matching'
             /\ \A id \in stayed' : id \in ToSet(walk.got) \/ AfterCursor(id, walk.cursor)'
  <2>1. /\ CursorSound /\ stayed \subseteq Matching
        /\ \A id \in stayed : id \in ToSet(walk.got) \/ AfterCursor(id, walk.cursor)
    BY <1>4 DEF PageInv
  <2>2. CursorSound'
    <3>1. walk.got # <<>> => Last(walk.got) \in DOMAIN rows
      BY <1>1 DEF Last
    <3> QED
      BY <2>1, <3>1 DEF CursorSound
  <2>3. stayed \subseteq DOMAIN rows
    BY <2>1 DEF Matching
  <2>4. \A id \in stayed' : AfterCursor(id, walk.cursor) => AfterCursor(id, walk.cursor)'
    BY <2>3 DEF AfterCursor
  <2> QED
    BY <2>1, <2>2, <2>4
<1>5. walk'.pc = "walking" => (\A id \in stayed : id \in ToSet(walk.got) \/ AfterCursor(id, walk.cursor))'
  BY <1>4 DEF AfterCursor, ToSet
<1>6. walk.pc = "done" => stayed' \subseteq ToSet(walk'.got)
  BY DEF PageInv
<1>7. walk'.pc = "idle" => walk'.got = <<>> /\ walk'.cursor = NoCursor
  BY DEF PageInv
<1>8. walk'.pc = "walking" => CursorSound' /\ stayed' \subseteq Matching'
  BY <1>4
<1>9. (walk.pc = "done" => stayed \subseteq ToSet(walk.got))'
  BY <1>6 DEF ToSet
<1> QED
  BY <1>2, <1>3, <1>5, <1>7, <1>8, <1>9 DEF PageInv, NoCursor

\* The writers, the beginning of a walk and its pages.
LEMMA PageStepInv ==
  ASSUME PageInv, PageStep
  PROVE  PageInv'
<1>1. RowsSound
  BY DEF PageInv
<1>2. CASE BeginWalk
  <2>1. /\ walk.pc = "idle" /\ walk.got = <<>> /\ walk.cursor = NoCursor
        /\ walk' = [walk EXCEPT !.pc = "walking"] /\ stayed' = Matching /\ UNCHANGED rows
    BY <1>2 DEF BeginWalk, PageInv
  <2>2. walk'.got = <<>> /\ walk'.cursor = NoCursor
    BY <2>1
  <2>3. walk'.pc \notin {"idle", "done"}
    BY <2>1
  <2>4. RowsSound' /\ Matching' = Matching
    BY <1>1, <2>1 DEF RowsSound, Matching
  <2>5. walk'.got \in Seq(DOMAIN rows') /\ Ordered(walk.got)'
    BY <2>2 DEF Ordered
  <2>6. CursorSound' /\ stayed' \subseteq Matching'
    BY <2>1, <2>2, <2>4 DEF CursorSound, NoCursor
  <2>7. (\A id \in stayed : id \in ToSet(walk.got) \/ AfterCursor(id, walk.cursor))'
    BY <2>2 DEF AfterCursor, NoCursor
  <2> QED
    BY <2>3, <2>4, <2>5, <2>6, <2>7 DEF PageInv
<1>3. ASSUME NEW id \in RowIds, Insert(id) PROVE PageInv'
  <2>1. PICK at \in Stamps, match \in BOOLEAN : rows' = With(rows, id, [at |-> at, match |-> match])
    BY <1>3 DEF Insert
  <2>2. PICK row \in Row : row = [at |-> at, match |-> match]
    BY PagingAssumption DEF Row
  <2>3. /\ DOMAIN rows' = DOMAIN rows \cup {id} /\ rows'[id] = row /\ id \notin DOMAIN rows
        /\ \A x \in DOMAIN rows : rows'[x] = rows[x]
    BY <1>3, <2>1, <2>2 DEF With, Insert
  <2>4. IsFiniteSet(DOMAIN rows')
    <3>1. PICK D : D = DOMAIN rows /\ IsFiniteSet(D)
      BY <1>1 DEF RowsSound
    <3>2. IsFiniteSet(D \cup {id})
      BY <3>1, FS_AddElement
    <3> QED
      BY <2>3, <3>1, <3>2
  <2>5. RowsSound'
    BY <1>1, <2>2, <2>3, <2>4, PagingAssumption DEF RowsSound
  <2>6. \A x : x \in Matching => x \in Matching'
    BY <2>3 DEF Matching
  <2> QED
    BY <1>3, <2>3, <2>5, <2>6, WritersKeep DEF Insert
<1>4. ASSUME NEW id \in RowIds, Flip(id) PROVE PageInv'
  <2>1. /\ id \in DOMAIN rows /\ rows' = [rows EXCEPT ![id].match = ~@]
        /\ stayed' = stayed \ {id} /\ UNCHANGED walk
    BY <1>4 DEF Flip
  <2>2. PICK row \in Row : row = rows[id]
    BY <1>1, <2>1 DEF RowsSound
  <2>3. PICK new : new = [row EXCEPT !.match = ~@]
    OBVIOUS
  <2>4. new \in Row /\ new.at = row.at
    BY <2>2, <2>3 DEF Row
  <2>5. /\ DOMAIN rows' = DOMAIN rows /\ rows'[id] = new
        /\ \A x \in DOMAIN rows : x # id => rows'[x] = rows[x]
    BY <2>1, <2>2, <2>3
  <2>6. RowsSound'
    BY <1>1, <2>4, <2>5 DEF RowsSound
  <2>7. \A x \in DOMAIN rows : rows'[x].at = rows[x].at
    BY <2>2, <2>4, <2>5
  <2>8. \A x \in stayed' : x \in Matching => x \in Matching'
    BY <2>1, <2>5 DEF Matching
  <2> QED
    BY <2>1, <2>5, <2>6, <2>7, <2>8, WritersKeep
<1> QED
  BY <1>2, <1>3, <1>4, PageKeeps DEF PageStep

-----------------------------------------------------------------------------
(* The topology                                                            *)

\* What is in a sequence without its head, and with one element more.
LEMMA ToSetTail ==
  ASSUME NEW S, NEW q \in Seq(S), q # <<>>
  PROVE  Head(q) \in S /\ Tail(q) \in Seq(S) /\ ToSet(q) = {Head(q)} \cup ToSet(Tail(q))
<1>1. PICK n \in Nat : n = Len(q) /\ n >= 1
  BY EmptySeq
<1>2. PICK t \in Seq(S) : t = Tail(q) /\ Len(t) = n - 1 /\ \A i \in 1..(n - 1) : t[i] = q[i + 1]
  <2>1. Tail(q) \in Seq(S) /\ Len(Tail(q)) = n - 1
    BY <1>1, HeadTailProperties
  <2>2. \A i \in 1..Len(Tail(q)) : Tail(q)[i] = q[i + 1]
    BY HeadTailProperties
  <2> QED
    BY <2>1, <2>2
<1>3. Head(q) = q[1] /\ Head(q) \in S
  BY <1>1
<1>4. ASSUME NEW x \in ToSet(q) PROVE x = Head(q) \/ x \in ToSet(t)
  <2>1. PICK i \in 1..n : x = q[i]
    BY <1>1, <1>4 DEF ToSet
  <2>2. CASE i # 1
    <3>1. i - 1 \in 1..(n - 1) /\ (i - 1) + 1 = i
      BY <2>2
    <3>2. t[i - 1] = x /\ i - 1 \in DOMAIN t
      BY <1>2, <2>1, <3>1
    <3> QED
      BY <3>2 DEF ToSet
  <2> QED
    BY <1>3, <2>1, <2>2
<1>5. ASSUME NEW x \in ToSet(t) PROVE x \in ToSet(q)
  <2>1. PICK i \in 1..(n - 1) : x = t[i]
    BY <1>1, <1>2, <1>5 DEF ToSet
  <2>2. i + 1 \in DOMAIN q /\ q[i + 1] = x
    BY <1>1, <1>2, <2>1
  <2> QED
    BY <2>2 DEF ToSet
<1>6. Head(q) \in ToSet(q)
  BY <1>1, <1>3 DEF ToSet
<1> QED
  BY <1>2, <1>3, <1>4, <1>5, <1>6

\* What is in a sequence with one element more.
LEMMA ToSetAppend ==
  ASSUME NEW S, NEW q \in Seq(S), NEW x \in S
  PROVE  Append(q, x) \in Seq(S) /\ ToSet(Append(q, x)) = ToSet(q) \cup {x}
<1>1. PICK n \in Nat : n = Len(q)
  OBVIOUS
<1>2. PICK t \in Seq(S) : /\ t = Append(q, x) /\ Len(t) = n + 1 /\ t[n + 1] = x
                          /\ \A i \in 1..n : t[i] = q[i]
  <2>1. /\ Append(q, x) \in Seq(S) /\ Len(Append(q, x)) = n + 1
        /\ \A i \in 1..n : Append(q, x)[i] = q[i]
    BY <1>1, AppendProperties
  <2>2. Append(q, x)[n + 1] = x
    BY <1>1, AppendProperties
  <2> QED
    BY <2>1, <2>2
<1>3. DOMAIN t = 1..(n + 1) /\ DOMAIN q = 1..n /\ \A i \in 1..(n + 1) : i \in 1..n \/ i = n + 1
  BY <1>1, <1>2
<1>4. n + 1 \in 1..(n + 1) /\ \A i \in 1..n : i \in 1..(n + 1)
  OBVIOUS
<1>5. ToSet(t) = ToSet(q) \cup {x}
  BY <1>2, <1>3, <1>4 DEF ToSet
<1> QED
  BY <1>2, <1>5

\* What a search follows: links from either end, or from their target.
Pairs(kind) ==
  IF kind = "both" THEN ActiveSet \cup Reversed(ActiveSet) ELSE Reversed(ActiveSet)
PairsOf(n, kind) ==
  {p \in {Declarable[n], <<Declarable[n][2], Declarable[n][1]>>} :
     /\ Active(Declarable[n])
     /\ kind = "both" \/ p = <<Declarable[n][2], Declarable[n][1]>>}

\* A search that has found V: all of V is reached, and from every service in it that is not
\* waiting in the queue the links were followed, from the one in hand those looked at.
Searched(V, kind) ==
  /\ Focus \in V /\ search.id \in V /\ ToSet(search.queue) \subseteq V
  /\ \A T : Focus \in T /\ Closed(T, Pairs(kind)) => V \subseteq T
  /\ \A s \in V \ ToSet(search.queue) : \A n \in 1..Len(Declarable) :
       s # search.id \/ n < search.link => \A p \in PairsOf(n, kind) : p[1] = s => p[2] \in V

\* The declared links are pairs of services.
LEMMA LinksAreDeclared ==
  /\ Len(Declarable) \in Nat
  /\ \A n \in 1..Len(Declarable) :
       /\ Declarable[n] \in ToSet(Declarable) /\ Declarable[n] \in Services \X Services
       /\ Declarable[n] = <<Declarable[n][1], Declarable[n][2]>>
       /\ Declarable[n][1] \in Services /\ Declarable[n][2] \in Services
  /\ \A e \in ToSet(Declarable) : \E n \in 1..Len(Declarable) : e = Declarable[n]
<1>1. PICK q \in Seq(Services \X Services) : q = Declarable
  BY TopologyAssumption
<1>2. \A n \in 1..Len(q) : q[n] \in Services \X Services /\ q[n] \in ToSet(q)
  BY DEF ToSet
<1>3. \A e \in ToSet(q) : \E n \in 1..Len(q) : e = q[n]
  BY DEF ToSet
<1>4. Len(q) \in Nat
  OBVIOUS
<1> QED
  BY <1>1, <1>2, <1>3, <1>4

\* The pairs are those of the links.
LEMMA PairsAreOfLinks ==
  ASSUME NEW kind \in {"both", "reverse"}
  PROVE  /\ \A n \in 1..Len(Declarable) : PairsOf(n, kind) \subseteq Pairs(kind)
         /\ \A p \in Pairs(kind) : \E n \in 1..Len(Declarable) : p \in PairsOf(n, kind)
<1>1. ASSUME NEW n \in 1..Len(Declarable), NEW p \in PairsOf(n, kind) PROVE p \in Pairs(kind)
  <2>1. Declarable[n] \in ActiveSet
    BY <1>1, LinksAreDeclared DEF PairsOf, ActiveSet
  <2>2. <<Declarable[n][2], Declarable[n][1]>> \in Reversed(ActiveSet)
    BY <2>1 DEF Reversed
  <2> QED
    BY <1>1, <2>1, <2>2 DEF PairsOf, Pairs
<1>2. ASSUME NEW e \in ActiveSet
      PROVE  \E n \in 1..Len(Declarable) : /\ <<e[2], e[1]>> \in PairsOf(n, kind)
                                           /\ kind = "both" => e \in PairsOf(n, kind)
  <2>1. PICK n \in 1..Len(Declarable) : e = Declarable[n]
    BY LinksAreDeclared DEF ActiveSet
  <2>2. Active(Declarable[n])
    BY <2>1 DEF ActiveSet
  <2>3. <<e[2], e[1]>> \in PairsOf(n, kind) /\ (kind = "both" => e \in PairsOf(n, kind))
    BY <2>1, <2>2 DEF PairsOf
  <2> QED
    BY <2>3
<1>3. ASSUME NEW p \in Pairs(kind) PROVE \E n \in 1..Len(Declarable) : p \in PairsOf(n, kind)
  <2>1. CASE kind = "both" /\ p \in ActiveSet
    <3>1. PICK e \in ActiveSet : e = p
      BY <2>1
    <3>2. PICK n \in 1..Len(Declarable) : /\ <<e[2], e[1]>> \in PairsOf(n, kind)
                                          /\ kind = "both" => e \in PairsOf(n, kind)
      BY <1>2
    <3> QED
      BY <2>1, <3>1, <3>2
  <2>2. CASE p \in Reversed(ActiveSet)
    <3>1. PICK e \in ActiveSet : p = <<e[2], e[1]>>
      BY <2>2 DEF Reversed
    <3>2. PICK n \in 1..Len(Declarable) : /\ <<e[2], e[1]>> \in PairsOf(n, kind)
                                          /\ kind = "both" => e \in PairsOf(n, kind)
      BY <1>2
    <3> QED
      BY <3>1, <3>2
  <2> QED
    BY <1>3, <2>1, <2>2 DEF Pairs
<1> QED
  BY <1>1, <1>3

\* Which links are active is settled when a request begins.
LEMMA SameActive ==
  ASSUME UNCHANGED config, search'.at = search.at
  PROVE  /\ ActiveSet' = ActiveSet
         /\ \A n, kind : PairsOf(n, kind)' = PairsOf(n, kind)
         /\ \A kind : Pairs(kind)' = Pairs(kind)
<1>1. \A e : Active(e)' <=> Active(e)
  BY DEF Active, Covers
<1>2. ActiveSet' = ActiveSet
  BY <1>1 DEF ActiveSet
<1>3. \A n, kind : PairsOf(n, kind)' = PairsOf(n, kind)
  BY <1>1 DEF PairsOf
<1>4. \A kind : Pairs(kind)' = Pairs(kind)
  BY <1>2 DEF Pairs, Reversed
<1> QED
  BY <1>2, <1>3, <1>4

\* Taking a service from the queue.
LEMMA TakeSearched ==
  ASSUME NEW V, NEW kind, Searched(V, kind), UNCHANGED config, search'.at = search.at,
         search.queue \in Seq(Services), search.queue # <<>>, search.link \in Nat, LinksDone,
         search'.id = Head(search.queue), search'.queue = Tail(search.queue), search'.link = 1
  PROVE  Searched(V, kind)'
<1>1. PICK q, t : q = search.queue /\ t = search'.queue
  OBVIOUS
<1>2. ToSet(q) = {search'.id} \cup ToSet(t)
  BY <1>1, ToSetTail
<1>3. \A s \in V \ ToSet(t) : \A n \in 1..Len(Declarable) :
        s # search'.id \/ n < 1 => \A p \in PairsOf(n, kind) : p[1] = s => p[2] \in V
  <2> SUFFICES ASSUME NEW s \in V \ ToSet(t), NEW n \in 1..Len(Declarable), s # search'.id \/ n < 1,
                      NEW p \in PairsOf(n, kind), p[1] = s
               PROVE  p[2] \in V
    OBVIOUS
  <2>1. s \notin ToSet(q)
    BY <1>2, LinksAreDeclared
  <2>2. n < search.link
    BY LinksAreDeclared DEF LinksDone
  <2> QED
    BY <1>1, <2>1, <2>2 DEF Searched
<1>4. Pairs(kind)' = Pairs(kind) /\ \A n : PairsOf(n, kind)' = PairsOf(n, kind)
  BY SameActive
<1>5. \A T : Focus \in T /\ Closed(T, Pairs(kind)') => V \subseteq T
  BY <1>4 DEF Searched
<1>6. Focus \in V /\ search'.id \in V /\ ToSet(t) \subseteq V
  BY <1>1, <1>2 DEF Searched
<1>7. \A s \in V \ ToSet(t) : \A n \in 1..Len(Declarable) :
        s # search'.id \/ n < search'.link => \A p \in PairsOf(n, kind)' : p[1] = s => p[2] \in V
  BY <1>3, <1>4
<1> QED
  BY <1>1, <1>5, <1>6, <1>7 DEF Searched, Closed

\* Looking at a link from the service in hand, which leads to the services in N.
LEMMA LookSearched ==
  ASSUME NEW V, NEW kind \in {"both", "reverse"}, NEW W, NEW n \in 1..Len(Declarable),
         Searched(V, kind), UNCHANGED config, search'.at = search.at,
         search.link = n, search'.link = n + 1, search'.id = search.id,
         W = V \cup {p[2] : p \in {d \in PairsOf(n, kind) : d[1] = search.id}},
         ToSet(search'.queue) = ToSet(search.queue) \cup (W \ V)
  PROVE  Searched(W, kind)'
<1>1. \A m, k : PairsOf(m, k)' = PairsOf(m, k) /\ Pairs(k)' = Pairs(k)
  BY SameActive
<1>2. ASSUME NEW T, Focus \in T, Closed(T, Pairs(kind)) PROVE W \subseteq T
  <2>1. V \subseteq T /\ search.id \in T
    BY <1>2 DEF Searched
  <2>2. \A p \in PairsOf(n, kind) : p[1] = search.id => p[2] \in T
    BY <1>2, <2>1, PairsAreOfLinks DEF Closed
  <2> QED
    BY <2>1, <2>2
<1>3. ASSUME NEW s \in W \ ToSet(search'.queue), NEW m \in 1..Len(Declarable),
             s # search.id \/ m < n + 1, NEW p \in PairsOf(m, kind), p[1] = s
      PROVE  p[2] \in W
  <2>1. s \in V \ ToSet(search.queue)
    BY <1>3
  <2>2. CASE s # search.id \/ m < n
    <3>1. p[2] \in V
      BY <1>3, <2>1, <2>2 DEF Searched
    <3> QED
      BY <3>1
  <2>3. CASE s = search.id /\ m = n
    BY <1>3, <2>3
  <2> QED
    BY <1>3, <2>2, <2>3, LinksAreDeclared
<1>4. Focus \in W /\ search'.id \in W /\ ToSet(search'.queue) \subseteq W
  BY DEF Searched
<1>5. \A T : Focus \in T /\ Closed(T, Pairs(kind)') => W \subseteq T
  BY <1>1, <1>2
<1>6. \A s \in W \ ToSet(search'.queue) : \A m \in 1..Len(Declarable) :
        s # search'.id \/ m < search'.link => \A p \in PairsOf(m, kind)' : p[1] = s => p[2] \in W
  BY <1>1, <1>3
<1> QED
  BY <1>4, <1>5, <1>6 DEF Searched, Closed, ToSet

\* The queue is empty: what was found is what can be reached.
LEMMA EndSearched ==
  ASSUME NEW V, NEW kind \in {"both", "reverse"}, Searched(V, kind), search.queue = <<>>,
         search.link \in Nat, LinksDone
  PROVE  IsReach(V, Pairs(kind))
<1>1. Closed(V, Pairs(kind))
  <2> SUFFICES ASSUME NEW p \in Pairs(kind), p[1] \in V PROVE p[2] \in V
    BY DEF Closed
  <2>1. PICK n \in 1..Len(Declarable) : p \in PairsOf(n, kind)
    BY PairsAreOfLinks
  <2>2. n < search.link
    BY LinksAreDeclared DEF LinksDone
  <2>3. ToSet(search.queue) = {}
    BY DEF ToSet
  <2> QED
    BY <2>1, <2>2, <2>3 DEF Searched
<1> QED
  BY <1>1 DEF IsReach, Searched

\* A request has the fields of a request, a queue of services and a place among the links.
IsSearch(f) ==
  /\ f = [pc |-> f.pc, at |-> f.at, queue |-> f.queue, id |-> f.id, link |-> f.link,
          visible |-> f.visible, impact |-> f.impact]
  /\ f.queue \in Seq(Services) /\ f.link \in Nat

\* The links given for a service form a path.
PathsSound ==
  \A s \in DOMAIN search.impact : search.impact[s] \in Seq(ActiveSet) /\ IsPath(search.impact[s], s)

TopoInv ==
  /\ IsSearch(search)
  /\ search.pc # "none" => config # Nothing
  /\ search.pc \in {"both", "reverse"} => search.link >= 1
  /\ search.pc = "both" =>
       Searched(search.visible, "both") /\ search.impact = [s \in {Focus} |-> <<>>]
  /\ search.pc = "reverse" =>
       /\ IsReach(search.visible, Pairs("both"))
       /\ Searched(DOMAIN search.impact, "reverse") /\ PathsSound
  /\ TopologyIsReachability

\* One end of a link.
LEMMA ShowFinds ==
  ASSUME NEW f, IsSearch(f), NEW here, NEW there \in Services, NEW g, g = Show(f, here, there)
  PROVE  /\ IsSearch(g) /\ g.pc = f.pc /\ g.at = f.at /\ g.id = f.id /\ g.link = f.link
         /\ g.impact = f.impact
         /\ g.visible = f.visible \cup {x \in {there} : here = search.id}
         /\ ToSet(g.queue) = ToSet(f.queue) \cup (g.visible \ f.visible)
<1>1. CASE here = search.id /\ there \notin f.visible
  <2>1. PICK q \in Seq(Services) : q = Append(f.queue, there) /\ ToSet(q) = ToSet(f.queue) \cup {there}
    <3>1. PICK o \in Seq(Services) : o = f.queue
      BY DEF IsSearch
    <3>2. Append(o, there) \in Seq(Services) /\ ToSet(Append(o, there)) = ToSet(o) \cup {there}
      BY ToSetAppend
    <3> QED
      BY <3>1, <3>2
  <2>2. g = [f EXCEPT !.visible = f.visible \cup {there}, !.queue = q]
    BY <1>1, <2>1 DEF Show
  <2>3. g = [pc |-> f.pc, at |-> f.at, queue |-> q, id |-> f.id, link |-> f.link,
             visible |-> f.visible \cup {there}, impact |-> f.impact]
    BY <2>2 DEF IsSearch
  <2>4. IsSearch(g)
    BY <2>1, <2>3 DEF IsSearch
  <2>5. /\ g.pc = f.pc /\ g.at = f.at /\ g.id = f.id /\ g.link = f.link /\ g.impact = f.impact
        /\ g.visible = f.visible \cup {there} /\ g.queue = q
    BY <2>3
  <2>6. g.visible \ f.visible = {there}
    BY <1>1, <2>5
  <2>7. {x \in {there} : here = search.id} = {there}
    BY <1>1
  <2> QED
    BY <2>1, <2>4, <2>5, <2>6, <2>7
<1>2. CASE ~(here = search.id /\ there \notin f.visible)
  BY <1>2 DEF Show
<1> QED
  BY <1>1, <1>2

\* The first loop looks at a link.
LEMMA ShowLinkInv ==
  ASSUME TopoInv, ShowLink
  PROVE  TopoInv'
<1>1. /\ search.pc = "both" /\ IsSearch(search) /\ config # Nothing /\ UNCHANGED config
      /\ Searched(search.visible, "both") /\ search.impact = [s \in {Focus} |-> <<>>]
  BY DEF TopoInv, ShowLink
<1>2. PICK n \in 1..Len(Declarable) : n = search.link
  BY LinksAreDeclared DEF TopoInv, ShowLink, LinksDone, IsSearch
<1>3. PICK e : e = Declarable[n] /\ e[1] \in Services /\ e[2] \in Services /\ e = <<e[1], e[2]>>
  BY LinksAreDeclared
<1>4. PICK next : next = [search EXCEPT !.link = n + 1]
  OBVIOUS
<1>5. next = [pc |-> search.pc, at |-> search.at, queue |-> search.queue, id |-> search.id,
              link |-> n + 1, visible |-> search.visible, impact |-> search.impact]
  BY <1>1, <1>4 DEF IsSearch
<1>6. IsSearch(next) /\ n + 1 >= 1
  BY <1>1, <1>5 DEF IsSearch
<1>7. search' = IF Active(e) THEN Show(Show(next, e[1], e[2]), e[2], e[1]) ELSE next
  BY <1>2, <1>3, <1>4 DEF ShowLink
<1>8. PICK P : P = {p[2] : p \in {d \in PairsOf(n, "both") : d[1] = search.id}}
  OBVIOUS
<1>9. /\ IsSearch(search') /\ search'.pc = "both" /\ search'.at = search.at
      /\ search'.id = search.id /\ search'.link = n + 1 /\ search'.impact = search.impact
      /\ search'.visible = search.visible \cup P
      /\ ToSet(search'.queue) = ToSet(search.queue) \cup (search'.visible \ search.visible)
  <2>1. CASE Active(e)
    <3>1. PICK a : a = Show(next, e[1], e[2])
      OBVIOUS
    <3>2. PICK b : b = Show(a, e[2], e[1])
      OBVIOUS
    <3>3. /\ IsSearch(a) /\ a.pc = next.pc /\ a.at = next.at /\ a.id = next.id
          /\ a.link = next.link /\ a.impact = next.impact
          /\ a.visible = next.visible \cup {x \in {e[2]} : e[1] = search.id}
          /\ ToSet(a.queue) = ToSet(next.queue) \cup (a.visible \ next.visible)
      BY <1>3, <1>6, <3>1, ShowFinds
    <3>4. /\ IsSearch(b) /\ b.pc = a.pc /\ b.at = a.at /\ b.id = a.id
          /\ b.link = a.link /\ b.impact = a.impact
          /\ b.visible = a.visible \cup {x \in {e[1]} : e[2] = search.id}
          /\ ToSet(b.queue) = ToSet(a.queue) \cup (b.visible \ a.visible)
      BY <1>3, <3>2, <3>3, ShowFinds
    <3>5. search' = b
      BY <1>7, <2>1, <3>1, <3>2
    <3>6. PairsOf(n, "both") = {e, <<e[2], e[1]>>}
      BY <1>3, <2>1 DEF PairsOf
    <3>7. P = {x \in {e[2]} : e[1] = search.id} \cup {x \in {e[1]} : e[2] = search.id}
      <4>0. PICK f : f = <<e[2], e[1]>>
        OBVIOUS
      <4>1. f = <<e[2], e[1]>> /\ f[1] = e[2] /\ f[2] = e[1]
        BY <4>0
      <4>2. P = {p[2] : p \in {d \in {e, f} : d[1] = search.id}}
        BY <1>8, <3>6, <4>1
      <4>3. \A x : x \in P <=> (x = e[2] /\ e[1] = search.id) \/ (x = f[2] /\ f[1] = search.id)
        BY <4>2
      <4> QED
        BY <4>1, <4>3
    <3>8. /\ next.visible = search.visible /\ next.queue = search.queue /\ next.pc = "both"
          /\ next.at = search.at /\ next.id = search.id /\ next.link = n + 1
          /\ next.impact = search.impact
      BY <1>1, <1>5
    <3>9. b.visible = search.visible \cup P
      BY <3>3, <3>4, <3>7, <3>8
    <3>10. ToSet(b.queue) = ToSet(search.queue) \cup (b.visible \ search.visible)
      BY <3>3, <3>4, <3>8
    <3> QED
      BY <3>3, <3>4, <3>5, <3>8, <3>9, <3>10
  <2>2. CASE ~Active(e)
    <3>1. search' = next
      BY <1>7, <2>2
    <3>2. PairsOf(n, "both") = {}
      BY <1>3, <2>2 DEF PairsOf
    <3>3. P = {}
      BY <1>8, <3>2
    <3> QED
      BY <1>1, <1>5, <1>6, <3>1, <3>3
  <2> QED
    BY <2>1, <2>2
<1>10. PICK V, W : V = search.visible /\ W = search'.visible
  OBVIOUS
<1>11. Searched(W, "both")'
  BY <1>1, <1>2, <1>8, <1>9, <1>10, LookSearched
<1>12. Searched(search.visible, "both")'
  BY <1>10, <1>11 DEF Searched
<1> QED
  BY <1>1, <1>6, <1>9, <1>12 DEF TopoInv, TopologyIsReachability, IsSearch

\* A path is longer by a link.
LEMMA LongerPath ==
  ASSUME NEW p \in Seq(ActiveSet), NEW s, IsPath(p, s), NEW e \in ActiveSet, e[2] = s
  PROVE  Append(p, e) \in Seq(ActiveSet) /\ IsPath(Append(p, e), e[1])
<1>1. PICK n \in Nat : n = Len(p)
  OBVIOUS
<1>2. PICK q \in Seq(ActiveSet) : /\ q = Append(p, e) /\ Len(q) = n + 1 /\ q # <<>>
                                  /\ \A i \in 1..n : q[i] = p[i]
  <2>1. PICK S, o, x : S = ActiveSet /\ o = p /\ x = e /\ o \in Seq(S) /\ x \in S
    OBVIOUS
  <2>2. /\ Append(o, x) \in Seq(S) /\ Append(o, x) # <<>> /\ Len(Append(o, x)) = Len(o) + 1
        /\ \A i \in 1..Len(o) : Append(o, x)[i] = o[i]
    BY <2>1, AppendProperties
  <2> QED
    BY <1>1, <2>1, <2>2
<1>3. q[n + 1] = e
  BY <1>1, <1>2, AppendProperties
<1>4. ToSet(q) \subseteq ActiveSet
  BY DEF ToSet
<1>5. Last(q) = e
  BY <1>2, <1>3 DEF Last
<1>6. q[1][2] = Focus
  <2>1. CASE n = 0
    <3>1. p = <<>>
      BY <1>1, <2>1, EmptySeq
    <3> QED
      BY <1>3, <2>1, <3>1 DEF IsPath
  <2>2. CASE n # 0
    <3>1. p # <<>> /\ q[1] = p[1]
      BY <1>1, <1>2, <2>2
    <3> QED
      BY <3>1 DEF IsPath
  <2> QED
    BY <2>1, <2>2
<1>7. ASSUME NEW i \in 1..(Len(q) - 1) PROVE q[i + 1][2] = q[i][1]
  <2>1. i \in 1..n /\ p # <<>>
    BY <1>1, <1>2
  <2>2. CASE i = n
    <3>1. Last(p)[1] = s /\ Last(p) = p[n]
      BY <1>1, <2>1 DEF IsPath, Last
    <3> QED
      BY <1>2, <1>3, <2>1, <2>2, <3>1
  <2>3. CASE i # n
    <3>1. i \in 1..(Len(p) - 1) /\ i + 1 \in 1..n
      BY <1>1, <2>1, <2>3
    <3>2. p[i + 1][2] = p[i][1]
      BY <2>1, <3>1 DEF IsPath
    <3> QED
      BY <1>2, <2>1, <3>1, <3>2
  <2> QED
    BY <2>2, <2>3
<1>8. IsPath(q, e[1])
  BY <1>2, <1>4, <1>5, <1>6, <1>7 DEF IsPath
<1> QED
  BY <1>2, <1>8

\* The second loop looks at a link.
LEMMA ReverseLinkInv ==
  ASSUME TopoInv, ReverseLink
  PROVE  TopoInv'
<1>1. /\ search.pc = "reverse" /\ IsSearch(search) /\ config # Nothing /\ UNCHANGED config
      /\ IsReach(search.visible, Pairs("both"))
      /\ Searched(DOMAIN search.impact, "reverse") /\ PathsSound
  BY DEF TopoInv, ReverseLink
<1>2. PICK n \in 1..Len(Declarable) : n = search.link
  BY LinksAreDeclared DEF TopoInv, ReverseLink, LinksDone, IsSearch
<1>3. PICK e : e = Declarable[n] /\ e[1] \in Services /\ e[2] \in Services /\ e = <<e[1], e[2]>>
               /\ e \in ToSet(Declarable)
  BY LinksAreDeclared
<1>4. PICK next : next = [search EXCEPT !.link = n + 1]
  OBVIOUS
<1>5. next = [pc |-> search.pc, at |-> search.at, queue |-> search.queue, id |-> search.id,
              link |-> n + 1, visible |-> search.visible, impact |-> search.impact]
  BY <1>1, <1>4 DEF IsSearch
<1>6. IsSearch(next) /\ n + 1 >= 1
  BY <1>1, <1>5 DEF IsSearch
<1>7. search' = IF Active(e) THEN Affects(next, e) ELSE next
  BY <1>2, <1>3, <1>4 DEF ReverseLink
<1>8. PICK V, P : /\ V = DOMAIN search.impact
                  /\ P = {p[2] : p \in {d \in PairsOf(n, "reverse") : d[1] = search.id}}
  OBVIOUS
<1>9. P = {x \in {e[1]} : Active(e) /\ e[2] = search.id}
  <2>0. PICK f : f = <<e[2], e[1]>>
    OBVIOUS
  <2>1. f = <<e[2], e[1]>> /\ f[1] = e[2] /\ f[2] = e[1]
    BY <2>0
  <2>2. PairsOf(n, "reverse") = {x \in {f} : Active(e)}
    BY <1>3, <2>1 DEF PairsOf
  <2>3. {d \in PairsOf(n, "reverse") : d[1] = search.id} = {x \in {f} : Active(e) /\ e[2] = search.id}
    BY <2>1, <2>2
  <2> QED
    BY <1>8, <2>1, <2>3
<1>10. /\ IsSearch(search') /\ search'.pc = "reverse" /\ search'.at = search.at
       /\ search'.id = search.id /\ search'.link = n + 1 /\ search'.visible = search.visible
       /\ DOMAIN search'.impact = V \cup P
       /\ ToSet(search'.queue) = ToSet(search.queue) \cup (P \ V)
       /\ \A s \in V : search'.impact[s] = search.impact[s]
       /\ \A s \in P \ V : e \in ActiveSet /\ e[2] = search.id /\ s = e[1]
                           /\ search'.impact[s] = Append(search.impact[search.id], e)
  <2>1. CASE Active(e) /\ e[2] = search.id /\ e[1] \notin V
    <3>1. PICK o \in Seq(Services) : o = search.queue
      BY <1>1 DEF IsSearch
    <3>2. PICK q : q = Append(o, e[1]) /\ q \in Seq(Services) /\ ToSet(q) = ToSet(o) \cup {e[1]}
      <4>1. PICK x \in Services : x = e[1]
        BY <1>3
      <4>2. Append(o, x) \in Seq(Services) /\ ToSet(Append(o, x)) = ToSet(o) \cup {x}
        BY ToSetAppend
      <4> QED
        BY <4>1, <4>2
    <3>3. PICK i : i = With(search.impact, e[1], Append(search.impact[search.id], e))
      OBVIOUS
    <3>4. /\ DOMAIN i = V \cup {e[1]} /\ i[e[1]] = Append(search.impact[search.id], e)
          /\ \A s \in V : i[s] = search.impact[s]
      BY <1>8, <2>1, <3>3 DEF With
    <3>5. next.impact = search.impact /\ next.queue = o
      BY <1>5, <3>1
    <3>6. search' = [next EXCEPT !.impact = i, !.queue = q]
      BY <1>7, <1>8, <2>1, <3>2, <3>3, <3>5 DEF Affects
    <3>7. search' = [pc |-> search.pc, at |-> search.at, queue |-> q, id |-> search.id,
                     link |-> n + 1, visible |-> search.visible, impact |-> i]
      BY <1>5, <3>6
    <3>8. IsSearch(search')
      BY <3>2, <3>7 DEF IsSearch
    <3>9. P = {e[1]} /\ P \ V = {e[1]} /\ e \in ActiveSet
      BY <1>3, <1>9, <2>1 DEF ActiveSet
    <3>10. /\ search'.pc = "reverse" /\ search'.at = search.at /\ search'.id = search.id
           /\ search'.link = n + 1 /\ search'.visible = search.visible /\ search'.impact = i
           /\ search'.queue = q
      BY <1>1, <3>7
    <3> QED
      BY <2>1, <3>1, <3>2, <3>4, <3>8, <3>9, <3>10
  <2>2. CASE ~(Active(e) /\ e[2] = search.id /\ e[1] \notin V)
    <3>1. search' = next
      BY <1>5, <1>7, <1>8, <2>2 DEF Affects
    <3>2. P \subseteq V
      BY <1>9, <2>2
    <3> QED
      BY <1>1, <1>5, <1>6, <1>8, <3>1, <3>2
  <2> QED
    BY <2>1, <2>2
<1>11. PICK W : W = V \cup P
  OBVIOUS
<1>12. Searched(W, "reverse")'
  <2>1. W \ V = P \ V
    BY <1>11
  <2> QED
    BY <1>1, <1>2, <1>8, <1>10, <1>11, <2>1, LookSearched
<1>13. Searched(DOMAIN search.impact, "reverse")'
  BY <1>10, <1>11, <1>12 DEF Searched
<1>14. ActiveSet' = ActiveSet /\ Pairs("both")' = Pairs("both")
  BY <1>1, <1>10, SameActive
<1>15. ASSUME NEW s \in V \cup P
       PROVE  search'.impact[s] \in Seq(ActiveSet) /\ IsPath(search'.impact[s], s)
  <2>1. CASE s \in V
    BY <1>1, <1>8, <1>10, <2>1 DEF PathsSound
  <2>2. CASE s \in P \ V
    <3>1. PICK p, i : p = search.impact[search.id] /\ i = search.id
      OBVIOUS
    <3>2. p \in Seq(ActiveSet) /\ IsPath(p, i)
      BY <1>1, <3>1 DEF PathsSound, Searched
    <3>3. e \in ActiveSet /\ e[2] = i /\ s = e[1] /\ search'.impact[s] = Append(p, e)
      BY <1>10, <2>2, <3>1
    <3> QED
      BY <3>2, <3>3, LongerPath
  <2> QED
    BY <1>15, <2>1, <2>2
<1>16. PathsSound'
  <2>1. \A p, s : IsPath(p, s) => IsPath(p, s)'
    BY <1>14 DEF IsPath, ToSet, Last
  <2>2. \A s \in DOMAIN search'.impact : search'.impact[s] \in Seq(ActiveSet') /\ IsPath(search'.impact[s], s)
    BY <1>10, <1>14, <1>15
  <2> QED
    BY <1>14, <2>2 DEF PathsSound, IsPath
<1>17. IsReach(search.visible, Pairs("both"))'
  BY <1>1, <1>10, <1>14 DEF IsReach, Closed
<1> QED
  BY <1>1, <1>6, <1>10, <1>13, <1>16, <1>17 DEF TopoInv, TopologyIsReachability, IsSearch

\* Loading, both loops, and the end of the request.
LEMMA TopologyStepInv ==
  ASSUME TopoInv, TopologyStep
  PROVE  TopoInv'
<1>1. IsSearch(search) /\ TopologyIsReachability
  BY DEF TopoInv
<1>2. CASE Load
  <2>1. search.pc = "none" /\ UNCHANGED search
    BY <1>2 DEF Load, TopoInv
  <2> QED
    BY <1>1, <2>1 DEF TopoInv, TopologyIsReachability, IsSearch
<1>3. CASE Begin
  <2>1. PICK t \in Instants :
          search' = [pc |-> "both", at |-> t, queue |-> <<Focus>>, id |-> Focus,
                     link |-> Len(Declarable) + 1, visible |-> {Focus},
                     impact |-> [s \in {Focus} |-> <<>>]]
    BY <1>3 DEF Begin
  <2>2. config' = config /\ config # Nothing
    BY <1>3 DEF Begin
  <2>3. /\ search'.pc = "both" /\ search'.queue = <<Focus>> /\ search'.id = Focus
        /\ search'.link = Len(Declarable) + 1 /\ search'.visible = {Focus}
        /\ search'.impact = [s \in {Focus} |-> <<>>]
    BY <2>1
  <2>4. <<Focus>> \in Seq(Services) /\ ToSet(<<Focus>>) = {Focus} /\ Len(Declarable) + 1 \in Nat
        /\ Len(Declarable) + 1 >= 1
    BY TopologyAssumption, LinksAreDeclared DEF ToSet
  <2>5. IsSearch(search')
    BY <2>1, <2>4 DEF IsSearch
  <2>6. Searched({Focus}, "both")'
    BY <2>3, <2>4 DEF Searched, ToSet
  <2>7. Searched(search.visible, "both")'
    BY <2>3, <2>6 DEF Searched
  <2> QED
    BY <2>2, <2>3, <2>4, <2>5, <2>7 DEF TopoInv, TopologyIsReachability, IsSearch
<1>4. CASE TakeService
  <2>1. /\ search.pc \in {"both", "reverse"} /\ LinksDone /\ search.queue # <<>> /\ UNCHANGED config
        /\ search' = [search EXCEPT !.id = Head(search.queue), !.queue = Tail(search.queue), !.link = 1]
    BY <1>4 DEF TakeService
  <2>2. PICK q \in Seq(Services) : q = search.queue
    BY <1>1 DEF IsSearch
  <2>3. Head(q) \in Services /\ Tail(q) \in Seq(Services)
    BY <2>1, <2>2, ToSetTail
  <2>4. search' = [pc |-> search.pc, at |-> search.at, queue |-> Tail(q), id |-> Head(q),
                   link |-> 1, visible |-> search.visible, impact |-> search.impact]
    BY <1>1, <2>1, <2>2 DEF IsSearch
  <2>5. /\ IsSearch(search') /\ search'.pc = search.pc /\ search'.at = search.at /\ search'.link = 1
        /\ search'.visible = search.visible /\ search'.impact = search.impact
        /\ search'.id = Head(search.queue) /\ search'.queue = Tail(search.queue)
    BY <2>2, <2>3, <2>4 DEF IsSearch
  <2>6. ASSUME NEW V, NEW kind, Searched(V, kind) PROVE Searched(V, kind)'
    BY <1>1, <2>1, <2>5, <2>6, TakeSearched DEF IsSearch
  <2>7. ActiveSet' = ActiveSet /\ Pairs("both")' = Pairs("both")
    BY <2>1, <2>5, SameActive
  <2>8. search.pc = "both" => Searched(search.visible, "both")'
    <3>1. PICK V : V = search.visible
      OBVIOUS
    <3>2. search.pc = "both" => Searched(V, "both")'
      BY <2>6, <3>1 DEF TopoInv
    <3> QED
      BY <2>5, <3>1, <3>2 DEF Searched
  <2>9. search.pc = "reverse" => Searched(DOMAIN search.impact, "reverse")'
    <3>1. PICK V : V = DOMAIN search.impact
      OBVIOUS
    <3>2. search.pc = "reverse" => Searched(V, "reverse")'
      BY <2>6, <3>1 DEF TopoInv
    <3> QED
      BY <2>5, <3>1, <3>2 DEF Searched
  <2>10. search.pc = "reverse" => IsReach(search.visible, Pairs("both"))' /\ PathsSound'
    BY <2>5, <2>7 DEF TopoInv, IsReach, Closed, PathsSound, IsPath
  <2>11. /\ config' # Nothing
         /\ search.pc = "both" => search.impact = [s \in {Focus} |-> <<>>]
    BY <2>1 DEF TopoInv
  <2> QED
    BY <2>1, <2>5, <2>8, <2>9, <2>10, <2>11 DEF TopoInv, TopologyIsReachability, IsSearch, Nothing
<1>5. CASE ShowLink
  BY <1>5, ShowLinkInv
<1>6. CASE ShowEnds
  <2>1. /\ search.pc = "both" /\ LinksDone /\ search.queue = <<>> /\ UNCHANGED config
        /\ search' = [search EXCEPT !.pc = "reverse", !.queue = <<Focus>>, !.id = Focus]
    BY <1>6 DEF ShowEnds
  <2>2. search' = [pc |-> "reverse", at |-> search.at, queue |-> <<Focus>>, id |-> Focus,
                   link |-> search.link, visible |-> search.visible, impact |-> search.impact]
    BY <1>1, <2>1 DEF IsSearch
  <2>3. <<Focus>> \in Seq(Services) /\ ToSet(<<Focus>>) = {Focus}
    BY TopologyAssumption DEF ToSet
  <2>4. /\ IsSearch(search') /\ search'.pc = "reverse" /\ search'.at = search.at
        /\ search'.link = search.link /\ search'.visible = search.visible
        /\ search'.impact = search.impact /\ search'.queue = <<Focus>> /\ search'.id = Focus
    BY <1>1, <2>2, <2>3 DEF IsSearch
  <2>5. /\ Searched(search.visible, "both") /\ search.impact = [s \in {Focus} |-> <<>>]
        /\ config # Nothing /\ search.link >= 1
    BY <2>1 DEF TopoInv
  <2>6. ActiveSet' = ActiveSet /\ Pairs("both")' = Pairs("both")
    BY <2>1, <2>4, SameActive
  <2>7. IsReach(search.visible, Pairs("both"))
    BY <1>1, <2>1, <2>5, EndSearched DEF IsSearch
  <2>8. IsReach(search.visible, Pairs("both"))'
    BY <2>4, <2>6, <2>7 DEF IsReach, Closed
  <2>9. DOMAIN search'.impact = {Focus} /\ search'.impact[Focus] = <<>>
    BY <2>4, <2>5
  <2>10. PathsSound'
    <3>1. <<>> \in Seq(ActiveSet') /\ ToSet(<<>>) = {}
      BY DEF ToSet
    <3>2. IsPath(<<>>, Focus)'
      BY <3>1 DEF IsPath, ToSet
    <3>3. \A s \in DOMAIN search'.impact : s = Focus /\ search'.impact[s] = <<>>
      BY <2>9
    <3> QED
      BY <3>1, <3>2, <3>3 DEF PathsSound, IsPath
  <2>11. Searched({Focus}, "reverse")'
    BY <2>3, <2>4 DEF Searched, ToSet
  <2>12. Searched(DOMAIN search.impact, "reverse")'
    BY <2>9, <2>11 DEF Searched
  <2> QED
    BY <2>1, <2>4, <2>5, <2>8, <2>10, <2>12 DEF TopoInv, TopologyIsReachability, IsSearch
<1>7. CASE ReverseLink
  BY <1>7, ReverseLinkInv
<1>8. CASE ReverseEnds
  <2>1. /\ search.pc = "reverse" /\ LinksDone /\ search.queue = <<>> /\ UNCHANGED config
        /\ search' = [search EXCEPT !.pc = "done"]
    BY <1>8 DEF ReverseEnds
  <2>2. search' = [pc |-> "done", at |-> search.at, queue |-> search.queue, id |-> search.id,
                   link |-> search.link, visible |-> search.visible, impact |-> search.impact]
    BY <1>1, <2>1 DEF IsSearch
  <2>3. /\ IsSearch(search') /\ search'.pc = "done" /\ search'.at = search.at
        /\ search'.visible = search.visible /\ search'.impact = search.impact
    BY <1>1, <2>2 DEF IsSearch
  <2>4. /\ IsReach(search.visible, Pairs("both")) /\ Searched(DOMAIN search.impact, "reverse")
        /\ PathsSound /\ config # Nothing
    BY <2>1 DEF TopoInv
  <2>5. PICK V : V = DOMAIN search.impact
    OBVIOUS
  <2>6. IsReach(V, Pairs("reverse"))
    BY <1>1, <2>1, <2>4, <2>5, EndSearched DEF IsSearch
  <2>7. ActiveSet' = ActiveSet
    BY <2>1, <2>3, SameActive
  <2>8. TopologyIsReachability'
    <3>1. /\ IsReach(search.visible, ActiveSet \cup Reversed(ActiveSet))
          /\ IsReach(DOMAIN search.impact, Reversed(ActiveSet))
      BY <2>4, <2>5, <2>6 DEF Pairs
    <3>2. \A s \in DOMAIN search.impact : IsPath(search.impact[s], s)
      BY <2>4 DEF PathsSound
    <3> QED
      BY <2>3, <2>7, <3>1, <3>2 DEF TopologyIsReachability, IsReach, Closed, Reversed, IsPath
  <2> QED
    BY <2>1, <2>3, <2>4, <2>8 DEF TopoInv
<1>9. CASE Cancelled
  <2>1. search' = [NoSearch EXCEPT !.pc = "cancelled"] /\ UNCHANGED config /\ config # Nothing
    BY <1>9 DEF Cancelled, TopoInv
  <2>2. search' = [pc |-> "cancelled", at |-> 0, queue |-> <<>>, id |-> Focus, link |-> 0,
                   visible |-> {}, impact |-> <<>>]
    BY <2>1 DEF NoSearch
  <2>3. IsSearch(search')
    BY <2>2 DEF IsSearch
  <2> QED
    BY <2>1, <2>2, <2>3 DEF TopoInv, TopologyIsReachability
<1> QED
  BY <1>2, <1>3, <1>4, <1>5, <1>6, <1>7, <1>8, <1>9 DEF TopologyStep

-----------------------------------------------------------------------------
(* Lists without duplicates                                                *)

IsList(s, X) ==
  /\ s \in Seq(X)
  /\ \A i, j \in 1..Len(s) : s[i] = s[j] => i = j

\* A list has as many members as it is long.
LEMMA ListCount ==
  ASSUME NEW X, NEW s, IsList(s, X)
  PROVE  /\ IsFiniteSet(ToSet(s)) /\ Cardinality(ToSet(s)) = Len(s) /\ Len(s) \in Nat
         /\ ToSet(s) \subseteq X
<1>1. Len(s) \in Nat /\ DOMAIN s = 1..Len(s) /\ s \in [1..Len(s) -> X]
  BY DEF IsList
<1>2. PICK N : N = 1..Len(s)
  OBVIOUS
<1>3. IsFiniteSet(N) /\ Cardinality(N) = Len(s)
  <2>1. PICK n \in Nat : n = Len(s)
    BY <1>1
  <2>2. IsFiniteSet(1..n) /\ Cardinality(1..n) = n
    BY FS_Interval
  <2> QED
    BY <1>2, <2>1, <2>2
<1>4. ToSet(s) = {s[k] : k \in N}
  BY <1>1, <1>2 DEF ToSet
<1>5. s \in Surjection(N, ToSet(s)) /\ s \in Injection(N, ToSet(s))
  BY <1>1, <1>2, <1>4 DEF Surjection, Injection, IsInjective, IsList
<1>6. IsFiniteSet(ToSet(s)) /\ Cardinality(ToSet(s)) = Cardinality(N)
  BY <1>3, <1>5, FS_Surjection
<1> QED
  BY <1>1, <1>2, <1>3, <1>4, <1>6

\* A list of some of the members is not longer, and has all of them if it is as long.
LEMMA SubList ==
  ASSUME NEW X, NEW s, NEW t, IsList(s, X), IsList(t, X), ToSet(s) \subseteq ToSet(t)
  PROVE  Len(s) <= Len(t) /\ (Len(s) = Len(t) => ToSet(s) = ToSet(t))
<1>1. /\ IsFiniteSet(ToSet(t)) /\ Cardinality(ToSet(t)) = Len(t)
      /\ Cardinality(ToSet(s)) = Len(s)
  BY ListCount
<1> QED
  BY <1>1, FS_Subset

\* The first part of a list.
LEMMA FirstIsList ==
  ASSUME NEW X, NEW s, IsList(s, X), NEW n \in Nat
  PROVE  IsList(First(s, n), X) /\ ToSet(First(s, n)) \subseteq ToSet(s)
<1>1. PICK m \in Nat : m <= Len(s) /\ First(s, n) = SubSeq(s, 1, m)
  BY DEF First, IsList
<1>2. s \in Seq(X) /\ Len(s) \in Nat /\ DOMAIN s = 1..Len(s)
  BY DEF IsList
<1>3. PICK t : t = SubSeq(s, 1, m)
  OBVIOUS
<1>4. t \in Seq(X) /\ Len(t) = m /\ \A k \in 1..m : t[k] = s[k]
  BY <1>1, <1>2, <1>3
<1>5. DOMAIN t = 1..m
  BY <1>4
<1>6. ToSet(t) \subseteq ToSet(s)
  BY <1>1, <1>2, <1>4, <1>5 DEF ToSet
<1>7. IsList(t, X)
  BY <1>1, <1>2, <1>4 DEF IsList
<1> QED
  BY <1>1, <1>3, <1>6, <1>7

\* Every member of a finite set of numbers is the k-th for one k, and there is a k-th for every k.
LEMMA NthIs ==
  ASSUME NEW P \in SUBSET Nat, IsFiniteSet(P)
  PROVE  /\ Cardinality(P) \in Nat
         /\ \A k \in 1..Cardinality(P) : Nth(P, k) \in P
         /\ \A j, k \in 1..Cardinality(P) : Nth(P, j) = Nth(P, k) => j = k
         /\ \A n \in P : \E k \in 1..Cardinality(P) : Nth(P, k) = n
<1> DEFINE below(n) == {m \in P : m <= n}
           rank == [n \in P |-> Cardinality(below(n))]
<1>1. PICK c \in Nat : c = Cardinality(P)
  BY FS_CardinalityType
<1>2. PICK C : C = 1..c
  OBVIOUS
<1>3. IsFiniteSet(C) /\ Cardinality(C) = c
  BY <1>2, FS_Interval
<1>4. ASSUME NEW n \in P
      PROVE  /\ IsFiniteSet(below(n)) /\ Cardinality(below(n)) \in C
  <2>1. below(n) \in SUBSET P
    OBVIOUS
  <2>2. IsFiniteSet(below(n)) /\ Cardinality(below(n)) <= c
    BY <1>1, <2>1, FS_Subset
  <2>3. n \in below(n)
    OBVIOUS
  <2> HIDE DEF below
  <2>4. Cardinality(below(n)) \in Nat /\ Cardinality(below(n)) # 0
    BY <2>2, <2>3, FS_CardinalityType, FS_EmptySet
  <2> QED
    BY <1>2, <2>2, <2>4
<1>5. rank \in [P -> C]
  BY <1>4
<1>6. ASSUME NEW n \in P, NEW m \in P, n < m
      PROVE  rank[n] # rank[m]
  <2>1. below(n) \in SUBSET below(m)
    <3>1. ASSUME NEW k \in P, k <= n PROVE k <= m
      <4>1. k \in Nat /\ n \in Nat /\ m \in Nat
        OBVIOUS
      <4> QED
        BY <1>6, <3>1, <4>1
    <3> QED
      BY <3>1
  <2>2. m \in below(m) /\ m \notin below(n)
    BY <1>6
  <2> HIDE DEF below
  <2>3. Cardinality(below(m)) # Cardinality(below(n))
    BY <1>4, <2>1, <2>2, FS_Subset
  <2> QED
    BY <2>3
<1>7. ASSUME NEW n \in P, NEW m \in P, rank[n] = rank[m]
      PROVE  n = m
  <2>1. n \in Nat /\ m \in Nat
    OBVIOUS
  <2>2. n < m \/ m < n \/ n = m
    BY <2>1
  <2> QED
    BY <1>6, <1>7, <2>2
<1>8. rank \in Injection(P, C)
  BY <1>5, <1>7 DEF Injection, IsInjective
<1>9. rank \in Surjection(P, C)
  BY <1>1, <1>3, <1>8, FS_Injection
<1>10. \A k \in C : \E n \in P : Cardinality(below(n)) = k
  BY <1>9 DEF Surjection
<1>11. \A k : Nth(P, k) = CHOOSE n \in P : Cardinality(below(n)) = k
  BY DEF Nth
<1> HIDE DEF below
<1>12. \A k \in C : Nth(P, k) \in P /\ rank[Nth(P, k)] = k
  BY <1>10, <1>11
<1>13. \A n \in P : rank[n] \in C /\ Nth(P, rank[n]) = n
  BY <1>5, <1>7, <1>12
<1> HIDE DEF rank
<1>14. /\ \A k \in C : Nth(P, k) \in P
       /\ \A j, k \in C : Nth(P, j) = Nth(P, k) => j = k
       /\ \A n \in P : \E k \in C : Nth(P, k) = n
  BY <1>12, <1>13
<1> QED
  BY <1>1, <1>2, <1>14

\* What is kept of a list.
LEMMA KeptIsList ==
  ASSUME NEW X, NEW s, IsList(s, X), NEW P \in SUBSET DOMAIN s
  PROVE  /\ IsList(Kept(s, P), X)
         /\ ToSet(Kept(s, P)) = {s[n] : n \in P}
         /\ Len(Kept(s, P)) = Cardinality(P) /\ IsFiniteSet(P)
<1>1. s \in Seq(X) /\ Len(s) \in Nat /\ DOMAIN s = 1..Len(s) /\ \A n \in 1..Len(s) : s[n] \in X
  BY DEF IsList
<1>2. IsFiniteSet(P)
  <2>1. PICK N : N = 1..Len(s)
    OBVIOUS
  <2>2. IsFiniteSet(N)
    BY <1>1, <2>1, FS_Interval
  <2> QED
    BY <1>1, <2>1, <2>2, FS_Subset
<1>3. P \in SUBSET Nat
  BY <1>1
<1>4. PICK c \in Nat : c = Cardinality(P)
  BY <1>2, FS_CardinalityType
<1>5. /\ \A k \in 1..c : Nth(P, k) \in P
      /\ \A j, k \in 1..c : Nth(P, j) = Nth(P, k) => j = k
      /\ \A n \in P : \E k \in 1..c : Nth(P, k) = n
  BY <1>2, <1>3, <1>4, NthIs
<1>6. PICK t : t = Kept(s, P)
  OBVIOUS
<1>7. t = [k \in 1..c |-> s[Nth(P, k)]]
  BY <1>4, <1>6 DEF Kept
<1>8. t \in [1..c -> X]
  BY <1>1, <1>5, <1>7
<1>9. t \in Seq(X) /\ Len(t) = c /\ DOMAIN t = 1..c /\ \A k \in 1..c : t[k] = s[Nth(P, k)]
  BY <1>7, <1>8
<1>10. IsList(t, X)
  <2> SUFFICES ASSUME NEW i \in 1..c, NEW j \in 1..c, t[i] = t[j] PROVE i = j
    BY <1>9 DEF IsList
  <2>1. Nth(P, i) \in DOMAIN s /\ Nth(P, j) \in DOMAIN s /\ s[Nth(P, i)] = s[Nth(P, j)]
    BY <1>5, <1>9
  <2>2. Nth(P, i) = Nth(P, j)
    BY <1>1, <2>1 DEF IsList
  <2> QED
    BY <1>5, <2>2
<1>11. ToSet(t) = {s[n] : n \in P}
  <2>1. ToSet(t) = {t[k] : k \in 1..c}
    BY <1>9 DEF ToSet
  <2>2. \A k \in 1..c : t[k] \in {s[n] : n \in P}
    BY <1>5, <1>9
  <2>3. \A n \in P : s[n] \in {t[k] : k \in 1..c}
    BY <1>5, <1>9
  <2> QED
    BY <2>1, <2>2, <2>3
<1> QED
  BY <1>2, <1>4, <1>6, <1>9, <1>10, <1>11

\* A list after another.
LEMMA Concat ==
  ASSUME NEW X, NEW s \in Seq(X), NEW t \in Seq(X), NEW u, u = s \o t
  PROVE  /\ u \in Seq(X) /\ Len(u) = Len(s) + Len(t)
         /\ \A k \in 1..Len(s) : u[k] = s[k]
         /\ \A k \in 1..Len(t) : u[Len(s) + k] = t[k]
<1>1. s \o t \in Seq(X) /\ Len(s \o t) = Len(s) + Len(t)
  OBVIOUS
<1>2. \A k \in 1..Len(s) : (s \o t)[k] = s[k]
  OBVIOUS
<1>3. ASSUME NEW k \in 1..Len(t) PROVE (s \o t)[Len(s) + k] = t[k]
  <2>1. Len(s) \in Nat /\ Len(t) \in Nat
    OBVIOUS
  <2>2. Len(s) + k \in 1..(Len(s) + Len(t)) /\ ~(Len(s) + k <= Len(s)) /\ (Len(s) + k) - Len(s) = k
    BY <2>1
  <2> QED
    BY <2>1, <2>2
<1> QED
  BY <1>1, <1>2, <1>3

-----------------------------------------------------------------------------
(* The evidence graph                                                      *)

Kinds == {"incident", "alert", "report", "retrieval", "chunk"}
Nodes == Kinds \X Nat
Links == Nodes \X Nodes

EvidenceRow == [kind : {"retrieval", "chunk"}, attempt : Nat, from : Nat]

\* Rows are retrievals and chunks, and a chunk comes from a row.
GraphInv ==
  /\ report \in BOOLEAN
  /\ evidence \in Seq(EvidenceRow)
  /\ \A n \in DOMAIN evidence : evidence[n].kind = "chunk" => evidence[n].from \in DOMAIN evidence
  /\ attempt \in Nat

\* What is known of the rows.
LEMMA EvidenceIs ==
  ASSUME GraphInv
  PROVE  /\ Len(evidence) \in Nat /\ DOMAIN evidence = 1..Len(evidence)
         /\ \A n \in 1..Len(evidence) : /\ evidence[n] \in EvidenceRow
                                       /\ evidence[n].kind \in {"retrieval", "chunk"}
<1>1. Len(evidence) \in Nat /\ DOMAIN evidence = 1..Len(evidence)
  BY DEF GraphInv
<1>2. \A n \in 1..Len(evidence) : evidence[n] \in EvidenceRow
  BY <1>1 DEF GraphInv
<1>3. \A row \in EvidenceRow : row.kind \in {"retrieval", "chunk"}
  BY DEF EvidenceRow
<1> QED
  BY <1>1, <1>2, <1>3

\* The attempts keep that.
LEMMA RunStepInv ==
  ASSUME GraphInv, RunStep
  PROVE  GraphInv'
<1> DEFINE n == Len(evidence)
<1>1. /\ evidence \in Seq(EvidenceRow) /\ n \in Nat /\ DOMAIN evidence = 1..n /\ attempt \in Nat
      /\ \A k \in 1..n : evidence[k] \in EvidenceRow
      /\ \A k \in 1..n : evidence[k].kind = "chunk" => evidence[k].from \in 1..n
  BY EvidenceIs DEF GraphInv
<1>2. ASSUME NEW row \in EvidenceRow, evidence' = Append(evidence, row), attempt' = attempt,
             report' \in BOOLEAN, row.kind = "chunk" => row.from \in 1..n
      PROVE  GraphInv'
  <2>1. PICK e : e = Append(evidence, row)
    OBVIOUS
  <2>2. /\ e \in Seq(EvidenceRow) /\ Len(e) = n + 1 /\ DOMAIN e = 1..(n + 1) /\ e[n + 1] = row
        /\ \A k \in 1..n : e[k] = evidence[k]
    BY <1>1, <2>1
  <2>3. \A k \in 1..(n + 1) : e[k].kind = "chunk" => e[k].from \in 1..(n + 1)
    <3> SUFFICES ASSUME NEW k \in 1..(n + 1), e[k].kind = "chunk" PROVE e[k].from \in 1..(n + 1)
      OBVIOUS
    <3>1. CASE k = n + 1
      BY <1>1, <1>2, <2>2, <3>1
    <3>2. CASE k # n + 1
      <4>1. k \in 1..n
        BY <1>1, <3>2
      <4>2. evidence[k].from \in 1..n /\ e[k] = evidence[k]
        BY <1>1, <2>2, <4>1
      <4> QED
        BY <1>1, <4>2
    <3> QED
      BY <3>1, <3>2
  <2> HIDE DEF n
  <2> QED
    BY <1>1, <1>2, <2>1, <2>2, <2>3 DEF GraphInv
<1>3. CASE Retrieve
  <2>1. [kind |-> "retrieval", attempt |-> attempt, from |-> 0] \in EvidenceRow
    BY <1>1 DEF EvidenceRow
  <2> QED
    BY <1>2, <1>3, <2>1 DEF Retrieve, GraphInv
<1>4. CASE Cite
  <2> DEFINE last == Last(evidence)
             from == IF last.kind = "retrieval" THEN n ELSE last.from
  <2>1. n # 0 /\ evidence # <<>>
    BY <1>1, <1>4 DEF Cite
  <2>2. last = evidence[n] /\ n \in 1..n
    BY <1>1, <2>1 DEF Last
  <2>3. from \in 1..n /\ from \in Nat
    <3>2. last.kind \in {"retrieval", "chunk"}
      BY <1>1, <2>2, EvidenceIs
    <3>3. last.kind = "chunk" => last.from \in 1..n
      BY <1>1, <2>2
    <3> HIDE DEF last, n
    <3> QED
      BY <1>1, <2>2, <3>2, <3>3
  <2>4. evidence' = Append(evidence, [kind |-> "chunk", attempt |-> attempt, from |-> from])
    BY <1>4 DEF Cite
  <2> HIDE DEF from
  <2>5. [kind |-> "chunk", attempt |-> attempt, from |-> from] \in EvidenceRow
    BY <1>1, <2>3 DEF EvidenceRow
  <2> QED
    BY <1>2, <1>4, <2>3, <2>4, <2>5 DEF Cite, GraphInv
<1>5. CASE Finish
  BY <1>5 DEF Finish, GraphInv
<1>6. CASE Retry
  BY <1>6 DEF Retry, GraphInv
<1> QED
  BY <1>3, <1>4, <1>5, <1>6 DEF RunStep

\* The rows of the current attempt, in order.
LEMMA RowsAreList ==
  ASSUME GraphInv
  PROVE  /\ IsList(CurrentRows, Nat) /\ ToSet(CurrentRows) = Mine
         /\ Len(CurrentRows) = Cardinality(Mine) /\ Mine \subseteq DOMAIN evidence
<1> DEFINE all == [n \in DOMAIN evidence |-> n]
<1>1. Len(evidence) \in Nat /\ DOMAIN evidence = 1..Len(evidence)
  BY DEF GraphInv
<1>2. all \in [1..Len(evidence) -> Nat] /\ \A n \in 1..Len(evidence) : all[n] = n
  BY <1>1
<1>3. all \in Seq(Nat) /\ Len(all) = Len(evidence) /\ DOMAIN all = DOMAIN evidence
  BY <1>1, <1>2
<1>4. IsList(all, Nat)
  BY <1>2, <1>3 DEF IsList
<1>5. Mine \in SUBSET DOMAIN all
  BY <1>3 DEF Mine
<1>6. CurrentRows = Kept(all, Mine)
  BY DEF CurrentRows, Mine
<1>7. {all[n] : n \in Mine} = Mine
  BY <1>5
<1> HIDE DEF all
<1>8. /\ IsList(CurrentRows, Nat) /\ Len(CurrentRows) = Cardinality(Mine)
      /\ ToSet(CurrentRows) = {all[n] : n \in Mine}
  BY <1>4, <1>5, <1>6, KeptIsList
<1> QED
  BY <1>3, <1>5, <1>7, <1>8

\* The node of a row is none of the others.
LEMMA NodeIs ==
  ASSUME GraphInv, NEW n \in DOMAIN evidence
  PROVE  /\ NodeOf(n) \in Nodes /\ NodeOf(n) \notin {Incident, Alert, Report}
         /\ NodeOf(n)[2] = n
         /\ evidence[n].kind \in {"retrieval", "chunk"}
<1>1. n \in Nat /\ evidence[n].kind \in {"retrieval", "chunk"}
  BY EvidenceIs
<1> QED
  BY <1>1 DEF NodeOf, Nodes, Kinds, Incident, Alert, Report

\* The nodes are a list: the incident, the alert, the report if there is one, and the rows.
LEMMA NodesAreList ==
  ASSUME GraphInv
  PROVE  /\ IsList(GraphNodes, Nodes)
         /\ ToSet(GraphNodes) \subseteq {Incident, Alert, Report} \cup {NodeOf(n) : n \in Mine}
         /\ Len(GraphNodes) = Total.nodes
<1> DEFINE c == Len(CurrentRows)
           rest == [k \in 1..c |-> NodeOf(CurrentRows[k])]
           r == IF report THEN 1 ELSE 0
           top == <<Incident, Alert>> \o (IF report THEN <<Report>> ELSE <<>>)
<1>1. /\ CurrentRows \in Seq(Nat) /\ c \in Nat /\ DOMAIN CurrentRows = 1..c
      /\ \A i, j \in 1..c : CurrentRows[i] = CurrentRows[j] => i = j
      /\ c = Cardinality(Mine) /\ Mine \subseteq DOMAIN evidence
      /\ \A k \in 1..c : CurrentRows[k] \in Mine
  BY RowsAreList DEF IsList, ToSet
<1>2. report \in BOOLEAN
  BY DEF GraphInv
<1>3. Incident \in Nodes /\ Alert \in Nodes /\ Report \in Nodes
  BY DEF Incident, Alert, Report, Nodes, Kinds
<1>4. Incident # Alert /\ Incident # Report /\ Alert # Report
  BY DEF Incident, Alert, Report
<1>5. GraphNodes = top \o rest
  BY <1>1 DEF GraphNodes
<1> HIDE DEF c
<1>6. /\ top \in Seq(Nodes) /\ Len(top) = 2 + r /\ top[1] = Incident /\ top[2] = Alert
      /\ r = 1 => top[3] = Report
  <2>1. CASE report
    BY <1>3, <2>1
  <2>2. CASE ~report
    BY <1>3, <2>2
  <2> QED
    BY <2>1, <2>2
<1>7. \A k \in 1..c : /\ NodeOf(CurrentRows[k]) \in Nodes
                      /\ NodeOf(CurrentRows[k]) \notin {Incident, Alert, Report}
                      /\ NodeOf(CurrentRows[k])[2] = CurrentRows[k]
  BY <1>1, NodeIs
<1>8. rest \in [1..c -> Nodes]
  BY <1>7
<1>9. rest \in Seq(Nodes) /\ Len(rest) = c /\ \A k \in 1..c : rest[k] = NodeOf(CurrentRows[k])
  BY <1>1, <1>8
<1>10. r \in 0..1
  OBVIOUS
<1> HIDE DEF rest, r, top
<1>11. PICK s : s = top \o rest
  OBVIOUS
<1>19. /\ s \in Seq(Nodes) /\ Len(s) = Len(top) + Len(rest)
       /\ \A k \in 1..Len(top) : s[k] = top[k]
       /\ \A k \in 1..Len(rest) : s[Len(top) + k] = rest[k]
  <2>1. top \in Seq(Nodes)
    BY <1>6
  <2>2. rest \in Seq(Nodes)
    BY <1>9
  <2>3. PICK t \in Seq(Nodes) : t = top
    BY <2>1
  <2>4. PICK w \in Seq(Nodes) : w = rest
    BY <2>2
  <2>5. s = t \o w
    BY <1>11, <2>3, <2>4
  <2>6. /\ s \in Seq(Nodes) /\ Len(s) = Len(t) + Len(w)
        /\ \A k \in 1..Len(t) : s[k] = t[k]
        /\ \A k \in 1..Len(w) : s[Len(t) + k] = w[k]
    BY <2>5, Concat
  <2> QED
    BY <2>3, <2>4, <2>6
<1>12. /\ s \in Seq(Nodes) /\ Len(s) = 2 + r + c /\ s[1] = Incident /\ s[2] = Alert
       /\ r = 1 => s[3] = Report
  <2>1. s \in Seq(Nodes) /\ Len(s) = 2 + r + c
    BY <1>19, <1>6, <1>9
  <2>2. \A k \in 1..(2 + r) : s[k] = top[k]
    BY <1>19, <1>6
  <2>3. 1 \in 1..(2 + r) /\ 2 \in 1..(2 + r) /\ (r = 1 => 3 \in 1..(2 + r))
    BY <1>10
  <2> QED
    BY <1>6, <2>1, <2>2, <2>3
<1>13. \A k \in 1..c : s[2 + r + k] = NodeOf(CurrentRows[k])
  BY <1>19, <1>6, <1>9
<1>14. ASSUME NEW i \in 1..Len(s)
       PROVE  \/ i = 1 /\ s[i] = Incident
              \/ i = 2 /\ s[i] = Alert
              \/ i = 3 /\ r = 1 /\ s[i] = Report
              \/ \E k \in 1..c : i = 2 + r + k /\ s[i] = NodeOf(CurrentRows[k])
  <2>1. CASE i > 2 + r
    <3>1. i - (2 + r) \in 1..c /\ i = 2 + r + (i - (2 + r))
      BY <1>1, <1>10, <1>12, <2>1
    <3> QED
      BY <1>13, <3>1
  <2>2. CASE ~(i > 2 + r)
    BY <1>10, <1>12, <2>2
  <2> QED
    BY <2>1, <2>2
<1>15. ASSUME NEW i \in 1..Len(s), NEW j \in 1..Len(s), s[i] = s[j] PROVE i = j
  <2> DEFINE IsTop(x) == \/ x = 1 /\ s[x] = Incident
                         \/ x = 2 /\ s[x] = Alert
                         \/ x = 3 /\ r = 1 /\ s[x] = Report
             IsRow(x) == \E k \in 1..c : x = 2 + r + k /\ s[x] = NodeOf(CurrentRows[k])
  <2>1. (IsTop(i) \/ IsRow(i)) /\ (IsTop(j) \/ IsRow(j))
    BY <1>14
  <2>2. CASE IsTop(i) /\ IsTop(j)
    BY <1>4, <1>15, <2>2
  <2>3. CASE IsRow(i) /\ IsRow(j)
    <3>1. PICK k \in 1..c : i = 2 + r + k /\ s[i] = NodeOf(CurrentRows[k])
      BY <2>3
    <3>2. PICK l \in 1..c : j = 2 + r + l /\ s[j] = NodeOf(CurrentRows[l])
      BY <2>3
    <3>3. CurrentRows[k] = CurrentRows[l]
      BY <1>7, <1>15, <3>1, <3>2
    <3>4. k = l
      BY <1>1, <3>3
    <3> QED
      BY <3>1, <3>2, <3>4
  <2>4. \A x : (IsTop(x) => s[x] \in {Incident, Alert, Report})
               /\ (IsRow(x) => s[x] \notin {Incident, Alert, Report})
    BY <1>7
  <2> QED
    BY <1>15, <2>1, <2>2, <2>3, <2>4
<1>16. IsList(s, Nodes)
  BY <1>12, <1>15 DEF IsList
<1>17. ToSet(s) \subseteq {Incident, Alert, Report} \cup {NodeOf(n) : n \in Mine}
  <2>1. DOMAIN s = 1..Len(s)
    BY <1>12
  <2> QED
    BY <1>1, <1>14, <2>1 DEF ToSet
<1>18. Len(s) = Total.nodes
  BY <1>1, <1>12 DEF Total, r
<1> QED
  BY <1>5, <1>11, <1>16, <1>17, <1>18

\* The edge of a row: its ends, by which it is told from every other.
LEMMA EdgeIs ==
  ASSUME GraphInv, NEW n \in DOMAIN evidence, NEW i \in 1..2
  PROVE  /\ EdgeOf(n, i) \in Links /\ EdgeOf(n, i) # <<Incident, Alert>>
         /\ i = 1 => /\ EdgeOf(n, i)[2] = NodeOf(n) /\ EdgeOf(n, i)[1] # Report
                     /\ EdgeOf(n, i)[1] = IF evidence[n].kind = "chunk"
                                          THEN NodeOf(evidence[n].from) ELSE Alert
         /\ i = 2 => \/ EdgeOf(n, i)[1] = Report /\ EdgeOf(n, i)[2] = NodeOf(n)
                     \/ EdgeOf(n, i)[1] = NodeOf(n) /\ EdgeOf(n, i)[2] = Report
<1>1. /\ NodeOf(n) \in Nodes /\ NodeOf(n) \notin {Incident, Alert, Report}
      /\ evidence[n].kind \in {"retrieval", "chunk"}
  BY NodeIs
<1>2. /\ Incident \in Nodes /\ Alert \in Nodes /\ Report \in Nodes
      /\ Alert # Report /\ Incident # Report
  BY DEF Incident, Alert, Report, Nodes, Kinds
<1>3. CASE evidence[n].kind = "chunk"
  <2>1. evidence[n].from \in DOMAIN evidence
    BY <1>3 DEF GraphInv
  <2>2. PICK from : from = NodeOf(evidence[n].from)
    OBVIOUS
  <2>3. from \in Nodes /\ from \notin {Incident, Alert, Report}
    BY <2>1, <2>2, NodeIs
  <2>4. CASE i = 1
    <3>1. EdgeOf(n, i) = <<from, NodeOf(n)>>
      BY <1>3, <2>2, <2>4 DEF EdgeOf
    <3> QED
      BY <1>1, <1>2, <1>3, <2>2, <2>3, <2>4, <3>1 DEF Links
  <2>5. CASE i = 2
    <3>1. EdgeOf(n, i) = <<Report, NodeOf(n)>>
      BY <1>3, <2>5 DEF EdgeOf
    <3> QED
      BY <1>1, <1>2, <2>5, <3>1 DEF Links
  <2> QED
    BY <2>4, <2>5
<1>4. CASE evidence[n].kind = "retrieval"
  <2>1. CASE i = 1
    <3>1. EdgeOf(n, i) = <<Alert, NodeOf(n)>>
      BY <1>4, <2>1 DEF EdgeOf
    <3> QED
      BY <1>1, <1>2, <1>4, <2>1, <3>1 DEF Links
  <2>2. CASE i = 2
    <3>1. EdgeOf(n, i) = <<NodeOf(n), Report>>
      BY <1>4, <2>2 DEF EdgeOf
    <3> QED
      BY <1>1, <1>2, <2>2, <3>1 DEF Links
  <2> QED
    BY <2>1, <2>2
<1> QED
  BY <1>1, <1>3, <1>4

\* Different rows, or different edges of a row, are different edges.
LEMMA EdgesDiffer ==
  ASSUME GraphInv, NEW n \in DOMAIN evidence, NEW m \in DOMAIN evidence,
         NEW i \in 1..2, NEW j \in 1..2,
         EdgeOf(n, i) = EdgeOf(m, j)
  PROVE  n = m /\ i = j
<1>1. /\ NodeOf(n)[2] = n /\ NodeOf(n) # Report /\ NodeOf(m)[2] = m /\ NodeOf(m) # Report
  BY NodeIs
<1>2. /\ i = 1 => EdgeOf(n, i)[2] = NodeOf(n) /\ EdgeOf(n, i)[1] # Report
      /\ i = 2 => \/ EdgeOf(n, i)[1] = Report /\ EdgeOf(n, i)[2] = NodeOf(n)
                  \/ EdgeOf(n, i)[1] = NodeOf(n) /\ EdgeOf(n, i)[2] = Report
  BY EdgeIs
<1>3. /\ j = 1 => EdgeOf(m, j)[2] = NodeOf(m) /\ EdgeOf(m, j)[1] # Report
      /\ j = 2 => \/ EdgeOf(m, j)[1] = Report /\ EdgeOf(m, j)[2] = NodeOf(m)
                  \/ EdgeOf(m, j)[1] = NodeOf(m) /\ EdgeOf(m, j)[2] = Report
  BY EdgeIs
<1>4. i \in {1, 2} /\ j \in {1, 2}
  OBVIOUS
<1>5. NodeOf(n) = NodeOf(m) /\ i = j
  BY <1>1, <1>2, <1>3, <1>4
<1> QED
  BY <1>1, <1>5

\* The edges are a list: the first, and one or two for every row.
LEMMA EdgesAreList ==
  ASSUME GraphInv
  PROVE  /\ IsList(GraphEdges, Links)
         /\ Len(GraphEdges) = Total.edges
         /\ \A n \in Mine : EdgeOf(n, 1) \in ToSet(GraphEdges)
<1> DEFINE c == Len(CurrentRows)
           e == EdgesPerRow
           row(k) == CurrentRows[((k - 1) \div e) + 1]
           nth(k) == ((k - 1) % e) + 1
           rest == [k \in 1..(e * c) |-> EdgeOf(row(k), nth(k))]
           top == <<<<Incident, Alert>>>>
<1>1. /\ CurrentRows \in Seq(Nat) /\ c \in Nat /\ DOMAIN CurrentRows = 1..c
      /\ \A i, j \in 1..c : CurrentRows[i] = CurrentRows[j] => i = j
      /\ c = Cardinality(Mine) /\ Mine \subseteq DOMAIN evidence
      /\ \A k \in 1..c : CurrentRows[k] \in DOMAIN evidence
      /\ \A n \in Mine : \E k \in 1..c : CurrentRows[k] = n
  BY RowsAreList DEF IsList, ToSet
<1>2. e = (IF report THEN 2 ELSE 1) /\ e \in 1..2
  BY DEF EdgesPerRow
<1>3. GraphEdges = top \o rest
  BY DEF GraphEdges
<1> HIDE DEF c, e
<1>4. e * c \in Nat
  BY <1>1, <1>2
<1>5. ASSUME NEW k \in 1..(e * c)
      PROVE  ((k - 1) \div e) + 1 \in 1..c /\ nth(k) \in 1..2
  <2>1. CASE e = 1
    BY <1>1, <2>1
  <2>2. CASE e = 2
    BY <1>1, <2>2
  <2> QED
    BY <1>2, <2>1, <2>2
<1>6. ASSUME NEW k \in 1..(e * c), NEW l \in 1..(e * c),
             ((k - 1) \div e) + 1 = ((l - 1) \div e) + 1, nth(k) = nth(l)
      PROVE  k = l
  <2>1. CASE e = 1
    BY <1>1, <1>6, <2>1
  <2>2. CASE e = 2
    <3>1. k - 1 \in Nat /\ l - 1 \in Nat
      BY <1>4
    <3>2. (k - 1) \div 2 = (l - 1) \div 2 /\ (k - 1) % 2 = (l - 1) % 2
      BY <1>6, <2>2, <3>1
    <3>3. \A x \in Nat : x = 2 * (x \div 2) + (x % 2)
      OBVIOUS
    <3>4. k - 1 = l - 1
      BY <3>1, <3>2, <3>3
    <3> QED
      BY <1>4, <3>4
  <2> QED
    BY <1>2, <2>1, <2>2
<1>7. ASSUME NEW j \in 1..c
      PROVE  \E k \in 1..(e * c) : ((k - 1) \div e) + 1 = j /\ nth(k) = 1
  <2>1. CASE e = 1
    <3>1. j \in 1..(e * c) /\ ((j - 1) \div e) + 1 = j /\ nth(j) = 1
      BY <1>1, <2>1
    <3> QED
      BY <3>1
  <2>2. CASE e = 2
    <3>1. 2 * j - 1 \in 1..(e * c) /\ (((2 * j - 1) - 1) \div e) + 1 = j /\ nth(2 * j - 1) = 1
      BY <1>1, <2>2
    <3> QED
      BY <3>1
  <2> QED
    BY <1>2, <2>1, <2>2
<1> HIDE DEF nth
<1>8. \A k \in 1..(e * c) : row(k) \in DOMAIN evidence /\ nth(k) \in 1..2
  BY <1>1, <1>5
<1>9. ASSUME NEW k \in 1..(e * c), NEW l \in 1..(e * c),
             EdgeOf(row(k), nth(k)) = EdgeOf(row(l), nth(l))
      PROVE  k = l
  <2>1. row(k) = row(l) /\ nth(k) = nth(l)
    BY <1>8, <1>9, EdgesDiffer
  <2>2. ((k - 1) \div e) + 1 = ((l - 1) \div e) + 1
    BY <1>1, <1>5, <2>1
  <2> QED
    BY <1>6, <2>1, <2>2
<1>10. \A n \in Mine : \E k \in 1..(e * c) : row(k) = n /\ nth(k) = 1
  BY <1>1, <1>7
<1> HIDE DEF row
<1>11. \A k \in 1..(e * c) : /\ EdgeOf(row(k), nth(k)) \in Links
                            /\ EdgeOf(row(k), nth(k)) # <<Incident, Alert>>
  BY <1>8, EdgeIs
<1>12. rest \in [1..(e * c) -> Links]
  BY <1>11
<1>13. /\ rest \in Seq(Links) /\ Len(rest) = e * c
       /\ \A k \in 1..(e * c) : rest[k] = EdgeOf(row(k), nth(k))
  BY <1>4, <1>12
<1>14. top \in Seq(Links) /\ Len(top) = 1 /\ top[1] = <<Incident, Alert>>
  BY DEF Incident, Alert, Links, Nodes, Kinds
<1> HIDE DEF rest, top
<1>15. PICK s : s = top \o rest
  OBVIOUS
<1>16. /\ s \in Seq(Links) /\ Len(s) = Len(top) + Len(rest)
       /\ \A k \in 1..Len(top) : s[k] = top[k]
       /\ \A k \in 1..Len(rest) : s[Len(top) + k] = rest[k]
  <2>1. top \in Seq(Links)
    BY <1>14
  <2>2. rest \in Seq(Links)
    BY <1>13
  <2>3. PICK t \in Seq(Links) : t = top
    BY <2>1
  <2>4. PICK w \in Seq(Links) : w = rest
    BY <2>2
  <2>5. s = t \o w
    BY <1>15, <2>3, <2>4
  <2>6. /\ s \in Seq(Links) /\ Len(s) = Len(t) + Len(w)
        /\ \A k \in 1..Len(t) : s[k] = t[k]
        /\ \A k \in 1..Len(w) : s[Len(t) + k] = w[k]
    BY <2>5, Concat
  <2> QED
    BY <2>3, <2>4, <2>6
<1>17. /\ Len(s) = 1 + e * c /\ s[1] = <<Incident, Alert>>
       /\ \A k \in 1..(e * c) : s[1 + k] = EdgeOf(row(k), nth(k))
  BY <1>13, <1>14, <1>16
<1>18. ASSUME NEW i \in 1..Len(s), i # 1
       PROVE  \E k \in 1..(e * c) : i = 1 + k /\ s[i] = EdgeOf(row(k), nth(k))
  <2>1. i - 1 \in 1..(e * c) /\ i = 1 + (i - 1)
    BY <1>4, <1>17, <1>18
  <2> QED
    BY <1>17, <2>1
<1>19. ASSUME NEW i \in 1..Len(s), NEW j \in 1..Len(s), s[i] = s[j] PROVE i = j
  <2>1. ASSUME NEW x \in 1..Len(s), x # 1 PROVE s[x] # <<Incident, Alert>>
    <3>1. PICK k \in 1..(e * c) : s[x] = EdgeOf(row(k), nth(k))
      BY <1>18, <2>1
    <3> QED
      BY <1>11, <3>1
  <2>2. s[1] = <<Incident, Alert>>
    BY <1>17
  <2>3. CASE i = 1 \/ j = 1
    BY <1>19, <2>1, <2>2, <2>3
  <2>4. CASE i # 1 /\ j # 1
    BY <1>9, <1>18, <1>19, <2>4
  <2> QED
    BY <2>3, <2>4
<1>20. IsList(s, Links)
  BY <1>16, <1>19 DEF IsList
<1>21. Len(s) = Total.edges
  BY <1>1, <1>2, <1>17 DEF Total
<1>22. ASSUME NEW n \in Mine PROVE EdgeOf(n, 1) \in ToSet(s)
  <2>1. PICK k \in 1..(e * c) : row(k) = n /\ nth(k) = 1
    BY <1>10
  <2>2. 1 + k \in DOMAIN s /\ s[1 + k] = EdgeOf(n, 1)
    BY <1>4, <1>16, <1>17, <2>1
  <2> QED
    BY <2>2 DEF ToSet
<1> QED
  BY <1>3, <1>15, <1>20, <1>21, <1>22

\* The edges among some nodes.
LEMMA AmongIsList ==
  ASSUME NEW edges, NEW nodes, IsList(edges, Links)
  PROVE  /\ IsList(Among(edges, nodes), Links) /\ ToSet(Among(edges, nodes)) \subseteq ToSet(edges)
         /\ \A x \in ToSet(Among(edges, nodes)) : {x[1], x[2]} \subseteq ToSet(nodes)
<1> DEFINE P == {k \in DOMAIN edges : {edges[k][1], edges[k][2]} \subseteq ToSet(nodes)}
<1>1. P \in SUBSET DOMAIN edges
  OBVIOUS
<1>2. IsList(Kept(edges, P), Links) /\ ToSet(Kept(edges, P)) = {edges[k] : k \in P}
  BY <1>1, KeptIsList
<1>3. {edges[k] : k \in P} \subseteq ToSet(edges)
  BY DEF ToSet
<1>4. \A x \in {edges[k] : k \in P} : {x[1], x[2]} \subseteq ToSet(nodes)
  OBVIOUS
<1> QED
  BY <1>2, <1>3, <1>4 DEF Among

\* What a request shows, whatever its focus, depth and limits.
LEMMA GraphInvHonest == GraphInv => GraphIsHonest
<1> SUFFICES ASSUME GraphInv, NEW focus, NEW depth \in 0..2,
                    NEW nodeLimit \in NodeLimits, NEW edgeLimit \in EdgeLimits
             PROVE  LET v == View(focus, depth, nodeLimit, edgeLimit)
                    IN /\ \A x \in v.edges : {x[1], x[2]} \subseteq v.nodes
                       /\ v.nodes \subseteq {Incident, Alert, Report} \cup {NodeOf(n) : n \in Mine}
                       /\ Cardinality(v.nodes) + v.omitted.nodes = Total.nodes
                       /\ Cardinality(v.edges) + v.omitted.edges = Total.edges
                       /\ ~v.truncated => \A n \in Mine :
                            <<IF evidence[n].kind = "chunk" THEN NodeOf(evidence[n].from)
                              ELSE Alert,
                              NodeOf(n)>> \in v.edges
  BY DEF GraphIsHonest
<1> DEFINE nodes == First(GraphNodes, NodeCap)
           edges == First(Among(GraphEdges, nodes), EdgeCap)
           ball == CASE depth = 0 -> ToSet(nodes)
                     [] depth = 1 -> Hop({focus}, edges)
                     [] depth = 2 -> Hop(Hop({focus}, edges), edges)
           places == {k \in DOMAIN nodes : nodes[k] \in ball}
           keptNodes == First(Kept(nodes, places), nodeLimit)
           keptEdges == First(Among(edges, keptNodes), edgeLimit)
           left == [nodes |-> Omitted(GraphNodes, nodes, keptNodes),
                    edges |-> Omitted(GraphEdges, edges, keptEdges)]
           v == View(focus, depth, nodeLimit, edgeLimit)
<1>1. v = [nodes |-> ToSet(keptNodes), edges |-> ToSet(keptEdges), omitted |-> left,
           truncated |-> left.nodes > 0 \/ left.edges > 0]
  BY DEF View
<1>2. NodeCap \in Nat /\ EdgeCap \in Nat /\ nodeLimit \in Nat /\ edgeLimit \in Nat
  BY GraphAssumption
<1>3. places \in SUBSET DOMAIN nodes
  OBVIOUS
<1> HIDE DEF places, ball
<1>4. IsList(GraphNodes, Nodes) /\ IsList(GraphEdges, Links)
  BY NodesAreList, EdgesAreList
<1>5. IsList(nodes, Nodes) /\ ToSet(nodes) \subseteq ToSet(GraphNodes)
  BY <1>2, <1>4, FirstIsList
<1>6. IsList(edges, Links) /\ ToSet(edges) \subseteq ToSet(GraphEdges)
  <2>1. /\ IsList(Among(GraphEdges, nodes), Links)
        /\ ToSet(Among(GraphEdges, nodes)) \subseteq ToSet(GraphEdges)
    BY <1>4, AmongIsList
  <2> QED
    BY <1>2, <2>1, FirstIsList
<1>7. IsList(keptNodes, Nodes) /\ ToSet(keptNodes) \subseteq ToSet(nodes)
  <2> HIDE DEF nodes
  <2>1. IsList(Kept(nodes, places), Nodes) /\ ToSet(Kept(nodes, places)) = {nodes[k] : k \in places}
    BY <1>3, <1>5, KeptIsList
  <2>2. {nodes[k] : k \in places} \subseteq ToSet(nodes)
    BY <1>3 DEF ToSet
  <2>3. /\ IsList(First(Kept(nodes, places), nodeLimit), Nodes)
        /\ ToSet(First(Kept(nodes, places), nodeLimit)) \subseteq ToSet(Kept(nodes, places))
    BY <1>2, <2>1, FirstIsList
  <2> QED
    BY <2>1, <2>2, <2>3
<1>8. /\ IsList(keptEdges, Links) /\ ToSet(keptEdges) \subseteq ToSet(edges)
      /\ \A x \in ToSet(keptEdges) : {x[1], x[2]} \subseteq ToSet(keptNodes)
  <2> HIDE DEF edges, keptNodes
  <2>1. /\ IsList(Among(edges, keptNodes), Links)
        /\ ToSet(Among(edges, keptNodes)) \subseteq ToSet(edges)
        /\ \A x \in ToSet(Among(edges, keptNodes)) : {x[1], x[2]} \subseteq ToSet(keptNodes)
    BY <1>6, AmongIsList
  <2>2. /\ IsList(First(Among(edges, keptNodes), edgeLimit), Links)
        /\ ToSet(First(Among(edges, keptNodes), edgeLimit)) \subseteq ToSet(Among(edges, keptNodes))
    BY <1>2, <2>1, FirstIsList
  <2> QED
    BY <2>1, <2>2
<1> HIDE DEF nodes, edges, keptNodes, keptEdges
<1>9. /\ Len(GraphNodes) \in Nat /\ Len(nodes) \in Nat /\ Len(keptNodes) \in Nat
      /\ Cardinality(ToSet(keptNodes)) = Len(keptNodes)
  BY <1>4, <1>5, <1>7, ListCount
<1>10. /\ Len(GraphEdges) \in Nat /\ Len(edges) \in Nat /\ Len(keptEdges) \in Nat
       /\ Cardinality(ToSet(keptEdges)) = Len(keptEdges)
  BY <1>4, <1>6, <1>8, ListCount
<1>11. /\ left.nodes = Len(GraphNodes) - Len(keptNodes)
       /\ left.edges = Len(GraphEdges) - Len(keptEdges)
  BY <1>9, <1>10 DEF Omitted
<1>12. ASSUME ~(left.edges > 0) PROVE ToSet(keptEdges) = ToSet(GraphEdges)
  <2>1. ToSet(keptEdges) \subseteq ToSet(GraphEdges)
    BY <1>6, <1>8
  <2>2. Len(keptEdges) <= Len(GraphEdges)
    BY <1>4, <1>8, <2>1, SubList
  <2>3. Len(keptEdges) = Len(GraphEdges)
    BY <1>10, <1>11, <1>12, <2>2
  <2> QED
    BY <1>4, <1>8, <2>1, <2>3, SubList
<1>13. \A n \in Mine : EdgeOf(n, 1) = <<IF evidence[n].kind = "chunk" THEN NodeOf(evidence[n].from)
                                        ELSE Alert, NodeOf(n)>>
  <2> SUFFICES ASSUME NEW n \in Mine
               PROVE  EdgeOf(n, 1) = <<IF evidence[n].kind = "chunk" THEN NodeOf(evidence[n].from)
                                       ELSE Alert, NodeOf(n)>>
    OBVIOUS
  <2>1. n \in DOMAIN evidence /\ 1 \in 1..2
    BY DEF Mine
  <2>2. evidence[n].kind \in {"retrieval", "chunk"}
    BY <2>1, NodeIs
  <2> QED
    BY <2>2 DEF EdgeOf
<1>14. \A x \in v.edges : {x[1], x[2]} \subseteq v.nodes
  BY <1>1, <1>8
<1>15. v.nodes \subseteq {Incident, Alert, Report} \cup {NodeOf(n) : n \in Mine}
  BY <1>1, <1>5, <1>7, NodesAreList
<1>16. Cardinality(v.nodes) + v.omitted.nodes = Total.nodes
  BY <1>1, <1>9, <1>11, NodesAreList
<1>17. Cardinality(v.edges) + v.omitted.edges = Total.edges
  BY <1>1, <1>10, <1>11, EdgesAreList
<1>18. ~v.truncated => \A n \in Mine :
         <<IF evidence[n].kind = "chunk" THEN NodeOf(evidence[n].from) ELSE Alert, NodeOf(n)>>
           \in v.edges
  <2>1. v.truncated = (left.nodes > 0 \/ left.edges > 0) /\ v.edges = ToSet(keptEdges)
    BY <1>1
  <2> HIDE DEF v, left
  <2> QED
    BY <1>12, <1>13, <2>1, EdgesAreList
<1> HIDE DEF v
<1> QED
  BY <1>14, <1>15, <1>16, <1>17, <1>18 DEF v

-----------------------------------------------------------------------------
(* Theorems                                                                *)

ReadInv == PollInv /\ PageInv /\ TopoInv /\ GraphInv

\* There are no rows and no events.
LEMMA InitInv == Init => ReadInv
<1> SUFFICES ASSUME Init PROVE ReadInv
  OBVIOUS
<1>1. /\ events = 0 /\ poll.after = 0 /\ poll.got = <<>> /\ poll.more = FALSE /\ poll.seen = 0
      /\ DOMAIN rows = {} /\ stayed = {}
      /\ walk.pc = "idle" /\ walk.got = <<>> /\ walk.cursor = NoCursor
  BY DEF Init, PagingInit
<1>2. PollInv
  <2>1. poll.got = [n \in 1..poll.after |-> n]
    BY <1>1
  <2> QED
    BY <1>1, <2>1 DEF PollInv, PollsAreComplete
<1>3. RowsSound
  BY <1>1, FS_EmptySet DEF RowsSound
<1>4. PageInv
  BY <1>1, <1>3 DEF PageInv, Ordered
<1>5. search = NoSearch
  BY DEF Init, TopologyInit
<1>6. IsSearch(search) /\ search.pc = "none"
  BY <1>5 DEF NoSearch, IsSearch
<1>7. TopoInv
  BY <1>6 DEF TopoInv, TopologyIsReachability
<1>8. GraphInv
  <2>1. evidence = <<>> /\ attempt \in Nat /\ report \in BOOLEAN
    BY DEF Init, GraphInit
  <2>2. evidence \in Seq(EvidenceRow) /\ DOMAIN evidence = {}
    BY <2>1
  <2> QED
    BY <2>1, <2>2 DEF GraphInv
<1> QED
  BY <1>2, <1>4, <1>7, <1>8 DEF ReadInv

\* The client looks at one thing, and the steps of the others leave it alone.
LEMMA NextInv == ReadInv /\ [Next]_vars => ReadInv'
<1> SUFFICES ASSUME ReadInv, [Next]_vars PROVE ReadInv'
  OBVIOUS
<1>1. PollInv /\ PageInv /\ TopoInv /\ GraphInv
  BY DEF ReadInv
<1>2. UNCHANGED pollVars => PollInv'
  BY <1>1 DEF pollVars, PollInv, PollsAreComplete
<1>3. UNCHANGED pageVars => PageInv'
  <2> SUFFICES ASSUME UNCHANGED pageVars PROVE PageInv'
    OBVIOUS
  <2>1. UNCHANGED <<rows, walk, stayed>>
    BY DEF pageVars
  <2>2. RowsSound' /\ Matching' = Matching
    BY <1>1, <2>1 DEF PageInv, RowsSound, Matching
  <2> QED
    BY <1>1, <2>1, <2>2, WritersKeep
<1>4. UNCHANGED topoVars => TopoInv'
  <2> SUFFICES ASSUME UNCHANGED topoVars PROVE TopoInv'
    OBVIOUS
  <2>1. UNCHANGED <<config, search>>
    BY DEF topoVars
  <2>2. ActiveSet' = ActiveSet /\ Pairs("both")' = Pairs("both")
        /\ \A n, kind : PairsOf(n, kind)' = PairsOf(n, kind) /\ Pairs(kind)' = Pairs(kind)
    BY <2>1, SameActive
  <2>4. search.pc = "both" => Searched(search.visible, "both")'
    BY <1>1, <2>1, <2>2 DEF TopoInv, Searched
  <2>5. search.pc = "reverse" => Searched(DOMAIN search.impact, "reverse")'
    BY <1>1, <2>1, <2>2 DEF TopoInv, Searched
  <2>6. search.pc = "reverse" => IsReach(search.visible, Pairs("both"))' /\ PathsSound'
    BY <1>1, <2>1, <2>2 DEF TopoInv, IsReach, Closed, PathsSound, IsPath
  <2>7. TopologyIsReachability'
    BY <1>1, <2>1, <2>2 DEF TopoInv, TopologyIsReachability, IsReach, Closed, Reversed, IsPath
  <2> QED
    BY <1>1, <2>1, <2>4, <2>5, <2>6, <2>7 DEF TopoInv, IsSearch, Nothing
<1>5. UNCHANGED graphVars => GraphInv'
  BY <1>1 DEF graphVars, GraphInv
<1>6. CASE PageStep /\ UNCHANGED <<pollVars, graphVars, topoVars>>
  BY <1>1, <1>2, <1>4, <1>5, <1>6, PageStepInv DEF ReadInv
<1>7. CASE PollStep /\ UNCHANGED <<pageVars, graphVars, topoVars>>
  BY <1>1, <1>3, <1>4, <1>5, <1>7, PollStepInv DEF ReadInv
<1>8. CASE RunStep /\ UNCHANGED <<pageVars, pollVars, topoVars>>
  BY <1>1, <1>2, <1>3, <1>4, <1>8, RunStepInv DEF ReadInv
<1>9. CASE TopologyStep /\ UNCHANGED <<pageVars, pollVars, graphVars>>
  BY <1>1, <1>2, <1>3, <1>5, <1>9, TopologyStepInv DEF ReadInv
<1>10. CASE UNCHANGED vars
  BY <1>2, <1>3, <1>4, <1>5, <1>10 DEF ReadInv, vars, pageVars, pollVars, graphVars, topoVars
<1> QED
  BY <1>6, <1>7, <1>8, <1>9, <1>10 DEF Next

\* What the lists, the graph and the topology rest on holds in every behaviour.
THEOREM InvProved == Spec => []ReadInv
  BY InitInv, NextInv, PTL DEF Spec

\* Cursor pages return no row twice, in the order of the list, and every row that matched
\* throughout, for any rows, stamps and limits.
THEOREM PagesProved == Spec => []PagesAreExact
<1>1. ReadInv => PagesAreExact
  BY DEF ReadInv, PageInv, Ordered, PagesAreExact
<1> QED
  BY <1>1, InvProved, PTL

\* Polling by sequence number gives the first events, each once and in order, and tells
\* whether there were more.
THEOREM PollsProved == Spec => []PollsAreComplete
<1>1. ReadInv => PollsAreComplete
  BY DEF ReadInv, PollInv
<1> QED
  BY <1>1, InvProved, PTL

\* What ForService reports is what the active links connect with the focus, what depends on
\* it, and paths between them, for any configuration.
THEOREM TopologyProved == Spec => []TopologyIsReachability
<1>1. ReadInv => TopologyIsReachability
  BY DEF ReadInv, TopoInv
<1> QED
  BY <1>1, InvProved, PTL

\* Every view of the evidence graph accounts for all of it: no edge without its ends, shown
\* and omitted add up to the whole, and an untruncated view cites every row, for any evidence
\* and any limits.
THEOREM GraphProved == Spec => []GraphIsHonest
<1>1. ReadInv => GraphIsHonest
  BY GraphInvHonest DEF ReadInv
<1> QED
  BY <1>1, InvProved, PTL

=============================================================================
