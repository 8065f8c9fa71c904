--------------------------- MODULE Console_proofs ---------------------------
(***************************************************************************)
(* Proofs about Console, for any number of requests, addresses, sessions   *)
(* and histories and any rates: the table of histories and the replies of  *)
(* Chat, and the table of sessions of Auth.                                *)
(***************************************************************************)
EXTENDS Console, FiniteSetTheorems, SequenceTheorems, TLAPS

-----------------------------------------------------------------------------
(* The inductive invariant of the chat                                     *)

Turn == [pc : {"none", "start", "loop", "fallback", "save", "reply", "clear", "done"},
         hist : Seq(Turns), round : 0..MaxRounds, cites : SUBSET Hits,
         err : {"none", "context", "source"}, failed : BOOLEAN, live : BOOLEAN,
         status : {"none", "over", "unavailable", "answer"}]

\* The table of histories: typed, and bounded by the order.
TableSound ==
  /\ order \in Seq(Turns)
  /\ DOMAIN history \subseteq Turns
  /\ history \in [DOMAIN history -> Seq(Turns)]
  /\ HistoriesAreBounded

\* A turn has messages of its own only, cites qualified hits only, and keeps the error that
\* goes with a failure until it has replied.
TurnSound(r, t) ==
  /\ t \in Turn
  /\ ToSet(t.hist) \subseteq {r}
  /\ t.cites \subseteq Qualified
  /\ t.failed => t.pc \in {"reply", "clear"} /\ t.err # "none"
  /\ t.pc = "clear" => IF t.status = "answer" THEN t.err = "none" ELSE t.cites = {}

\* A history is in the table from the end of its turn's loop to the end of the turn.
ChatInv ==
  /\ TableSound
  /\ DOMAIN turn = Turns /\ turn = [r \in Turns |-> turn[r]]
  /\ \A r \in Turns : TurnSound(r, turn[r])
  /\ \A s \in DOMAIN history : turn[s].pc \in {"reply", "clear"}

-----------------------------------------------------------------------------
(* The table of histories                                                  *)

\* A sequence without its k-th element.
LEMMA RemoveAtSound ==
  ASSUME NEW S, NEW q \in Seq(S), NEW k \in 1..Len(q)
  PROVE  /\ RemoveAt(q, k) \in Seq(S)
         /\ Len(RemoveAt(q, k)) = Len(q) - 1
         /\ DOMAIN RemoveAt(q, k) = 1..(Len(q) - 1)
         /\ \A n \in 1..(Len(q) - 1) :
              RemoveAt(q, k)[n] = IF n < k THEN q[n] ELSE q[n + 1]
<1>1. PICK L \in Nat : L = Len(q) /\ k \in 1..L
  OBVIOUS
<1>2. PICK a, b : a = SubSeq(q, 1, k - 1) /\ b = SubSeq(q, k + 1, L)
  OBVIOUS
<1>3. a \in Seq(S) /\ Len(a) = k - 1 /\ \A n \in 1..(k - 1) : a[n] = q[n]
  <2>1. 1 \in 1..(Len(q) + 1) /\ k - 1 \in (1 - 1)..Len(q)
    BY <1>1
  <2>2. /\ a \in Seq(S) /\ Len(a) = IF 1 <= k - 1 THEN (k - 1) - 1 + 1 ELSE 0
        /\ \A n \in 1..((k - 1) - 1 + 1) : a[n] = q[1 + n - 1]
    BY <1>2, <2>1, SubSeqProperties
  <2>3. (k - 1) - 1 + 1 = k - 1 /\ \A n \in 1..(k - 1) : 1 + n - 1 = n
    BY <1>1
  <2> QED
    BY <1>1, <2>2, <2>3
<1>4. b \in Seq(S) /\ Len(b) = L - k /\ \A n \in 1..(L - k) : b[n] = q[n + k]
  <2>1. k + 1 \in 1..(Len(q) + 1) /\ L \in ((k + 1) - 1)..Len(q)
    BY <1>1
  <2>2. /\ b \in Seq(S) /\ Len(b) = IF k + 1 <= L THEN L - (k + 1) + 1 ELSE 0
        /\ \A n \in 1..(L - (k + 1) + 1) : b[n] = q[(k + 1) + n - 1]
    BY <1>2, <2>1, SubSeqProperties
  <2>3. L - (k + 1) + 1 = L - k /\ \A n \in 1..(L - k) : (k + 1) + n - 1 = n + k
    BY <1>1
  <2> QED
    BY <1>1, <2>2, <2>3
<1>5. PICK o : o = a \o b
  OBVIOUS
<1>6. RemoveAt(q, k) = o
  BY <1>1, <1>2, <1>5 DEF RemoveAt
<1>7. /\ o \in Seq(S) /\ Len(o) = Len(a) + Len(b)
      /\ \A n \in 1..(Len(a) + Len(b)) : o[n] = IF n <= Len(a) THEN a[n] ELSE b[n - Len(a)]
  BY <1>3, <1>4, <1>5, ConcatProperties
<1>8. Len(a) + Len(b) = L - 1
  BY <1>1, <1>3, <1>4
<1>9. o \in Seq(S) /\ Len(o) = L - 1 /\ DOMAIN o = 1..(L - 1)
  BY <1>7, <1>8
<1>10. ASSUME NEW n \in 1..(L - 1)
       PROVE  o[n] = IF n < k THEN q[n] ELSE q[n + 1]
  <2>1. o[n] = IF n <= k - 1 THEN a[n] ELSE b[n - (k - 1)]
    BY <1>3, <1>7, <1>8
  <2>2. CASE n < k
    <3>1. n <= k - 1 /\ n \in 1..(k - 1)
      BY <1>1, <2>2
    <3> QED
      BY <1>3, <2>1, <2>2, <3>1
  <2>3. CASE ~(n < k)
    <3>1. ~(n <= k - 1) /\ n - (k - 1) \in 1..(L - k) /\ (n - (k - 1)) + k = n + 1
      BY <1>1, <2>3
    <3> QED
      BY <1>4, <2>1, <2>3, <3>1
  <2> QED
    BY <2>2, <2>3
<1> QED
  BY <1>1, <1>6, <1>9, <1>10

\* The order has a session once, so that the first occurrence is all of it.
LEMMA OrderWithoutSound ==
  ASSUME order \in Seq(Turns), IsInjective(order), NEW s \in Turns
  PROVE  /\ OrderWithout(s) \in Seq(Turns) /\ IsInjective(OrderWithout(s))
         /\ Len(OrderWithout(s)) <= Len(order)
         /\ \A x : x \in ToSet(OrderWithout(s)) <=> x \in ToSet(order) /\ x # s
<1>1. PICK L \in Nat : L = Len(order) /\ DOMAIN order = 1..L
  OBVIOUS
<1>2. \A m, n \in 1..L : order[m] = order[n] => m = n
  BY <1>1 DEF IsInjective
<1> DEFINE I == {n \in 1..L : order[n] = s}
           at == IF I # {} THEN Min(I) ELSE 0
<1>3. OrderWithout(s) = IF at = 0 THEN order ELSE RemoveAt(order, at)
  BY <1>1 DEF OrderWithout, SelectInSeq
<1>4. CASE I = {}
  <2>1. OrderWithout(s) = order
    BY <1>3, <1>4
  <2>2. s \notin ToSet(order)
    BY <1>1, <1>4 DEF ToSet
  <2>3. L <= L
    OBVIOUS
  <2> QED
    BY <1>1, <2>1, <2>2, <2>3
<1>5. CASE I # {}
  <2>1. PICK k \in 1..L : order[k] = s
    BY <1>5
  <2>2. I = {k}
    BY <1>2, <2>1
  <2>3. Min({k}) = k
    BY DEF Min
  <2>4. at = k
    BY <1>5, <2>2, <2>3
  <2> HIDE DEF at, I
  <2>5. OrderWithout(s) = RemoveAt(order, k)
    <3>1. k # 0
      OBVIOUS
    <3> QED
      BY <1>3, <2>4, <3>1
  <2>6. PICK o : o = OrderWithout(s)
    OBVIOUS
  <2>7. /\ o \in Seq(Turns) /\ Len(o) = L - 1 /\ DOMAIN o = 1..(L - 1)
        /\ \A n \in 1..(L - 1) : o[n] = IF n < k THEN order[n] ELSE order[n + 1]
    <3>1. k \in 1..Len(order) /\ o = RemoveAt(order, k)
      BY <1>1, <2>5, <2>6
    <3>2. /\ o \in Seq(Turns) /\ Len(o) = Len(order) - 1 /\ DOMAIN o = 1..(Len(order) - 1)
          /\ \A n \in 1..(Len(order) - 1) : o[n] = IF n < k THEN order[n] ELSE order[n + 1]
      BY <3>1, RemoveAtSound
    <3> QED
      BY <1>1, <3>2
  <2>8. \A n \in 1..(L - 1) : \E m \in 1..L : m # k /\ o[n] = order[m]
    BY <2>7
  <2>9. \A m \in 1..L : m # k => \E n \in 1..(L - 1) : o[n] = order[m]
    <3> SUFFICES ASSUME NEW m \in 1..L, m # k PROVE \E n \in 1..(L - 1) : o[n] = order[m]
      OBVIOUS
    <3>1. CASE m < k
      BY <2>7, <3>1
    <3>2. CASE ~(m < k)
      <4>1. m - 1 \in 1..(L - 1) /\ ~(m - 1 < k) /\ (m - 1) + 1 = m
        BY <3>2
      <4> QED
        BY <2>7, <4>1
    <3> QED
      BY <3>1, <3>2
  <2>10. IsInjective(o)
    <3> SUFFICES ASSUME NEW m \in 1..(L - 1), NEW n \in 1..(L - 1), o[m] = o[n] PROVE m = n
      BY <2>7 DEF IsInjective
    <3>1. PICK i \in 1..L : i = IF m < k THEN m ELSE m + 1
      OBVIOUS
    <3>2. PICK j \in 1..L : j = IF n < k THEN n ELSE n + 1
      OBVIOUS
    <3>3. order[i] = order[j]
      BY <2>7, <3>1, <3>2
    <3>4. i = j
      BY <1>2, <3>3
    <3> QED
      BY <3>1, <3>2, <3>4
  <2>11. \A x : x \in ToSet(o) <=> x \in ToSet(order) /\ x # s
    <3>1. \A x : x \in ToSet(order) <=> \E m \in 1..L : x = order[m]
      BY <1>1 DEF ToSet
    <3>2. \A x : x \in ToSet(o) <=> \E n \in 1..(L - 1) : x = o[n]
      BY <2>7 DEF ToSet
    <3>3. \A m \in 1..L : m # k <=> order[m] # s
      BY <1>2, <2>1
    <3>4. ASSUME NEW x, x \in ToSet(o) PROVE x \in ToSet(order) /\ x # s
      <4>1. PICK n \in 1..(L - 1) : x = o[n]
        BY <3>2, <3>4
      <4>2. PICK m \in 1..L : m # k /\ o[n] = order[m]
        BY <2>8
      <4> QED
        BY <3>1, <3>3, <4>1, <4>2
    <3>5. ASSUME NEW x, x \in ToSet(order), x # s PROVE x \in ToSet(o)
      <4>1. PICK m \in 1..L : x = order[m]
        BY <3>1, <3>5
      <4>2. PICK n \in 1..(L - 1) : o[n] = order[m]
        BY <2>1, <2>9, <3>5, <4>1
      <4> QED
        BY <3>2, <4>1, <4>2
    <3> QED
      BY <3>4, <3>5
  <2>12. L - 1 <= L
    OBVIOUS
  <2> QED
    BY <1>1, <2>6, <2>7, <2>10, <2>11, <2>12
<1> QED
  BY <1>4, <1>5

\* touchSessionLocked keeps the table sound: what the order drops, the table drops.
LEMMA TouchSound ==
  ASSUME TableSound, NEW s \in Turns, NEW table, table \in [DOMAIN table -> Seq(Turns)],
         DOMAIN table \subseteq DOMAIN history \cup {s}, Touch(table, s)
  PROVE  TableSound' /\ DOMAIN history' \subseteq DOMAIN table
<1>1. /\ order \in Seq(Turns) /\ IsInjective(order) /\ Len(order) <= MaxHistories
      /\ DOMAIN history \subseteq ToSet(order) /\ DOMAIN history \subseteq Turns
      /\ MaxHistories \in Nat \ {0}
  BY ChatAssumption DEF TableSound, HistoriesAreBounded
<1>2. PICK o \in Seq(Turns) : o = OrderWithout(s)
  BY <1>1, OrderWithoutSound
<1>3. /\ IsInjective(o) /\ Len(o) <= Len(order)
      /\ \A x : x \in ToSet(o) <=> x \in ToSet(order) /\ x # s
  BY <1>1, <1>2, OrderWithoutSound
<1>4. PICK all, L : all = MovedToEnd(s) /\ L = Len(all)
  OBVIOUS
<1>5. /\ all \in Seq(Turns) /\ L = Len(o) + 1 /\ L \in Nat /\ DOMAIN all = 1..L
      /\ Len(o) \in Nat /\ DOMAIN o = 1..Len(o)
      /\ all[L] = s /\ \A n \in 1..Len(o) : all[n] = o[n]
  BY <1>2, <1>4 DEF MovedToEnd
<1>6. \A m, n \in 1..L : all[m] = all[n] => m = n
  <2>1. \A n \in 1..Len(o) : o[n] # s
    BY <1>3, <1>5 DEF ToSet
  <2>2. \A m, n \in 1..Len(o) : o[m] = o[n] => m = n
    BY <1>3, <1>5 DEF IsInjective
  <2> QED
    BY <1>5, <2>1, <2>2
<1>7. \A x : x \in ToSet(order) \cup {s} => \E n \in 1..L : x = all[n]
  <2> SUFFICES ASSUME NEW x, x \in ToSet(order) \cup {s} PROVE \E n \in 1..L : x = all[n]
    OBVIOUS
  <2>1. CASE x = s
    BY <1>5, <2>1
  <2>2. CASE x # s
    <3>1. PICK n \in 1..Len(o) : x = o[n]
      BY <1>3, <1>5, <2>2 DEF ToSet
    <3> QED
      BY <1>5, <3>1
  <2> QED
    BY <2>1, <2>2
<1>8. PICK over \in Nat : over = IF L > MaxHistories THEN L - MaxHistories ELSE 0
  BY <1>1, <1>5
<1>9. /\ order' = SubSeq(all, over + 1, L)
      /\ history' = Restrict(table, DOMAIN table \ Evicted(s))
  BY <1>4, <1>8 DEF Touch
<1>10. over <= L /\ L - over <= MaxHistories /\ L - over \in Nat
  BY <1>1, <1>3, <1>5, <1>8
<1>11. PICK new : new = SubSeq(all, over + 1, L)
  OBVIOUS
<1>12. /\ new \in Seq(Turns) /\ Len(new) = L - over /\ DOMAIN new = 1..(L - over)
       /\ \A n \in 1..(L - over) : new[n] = all[n + over]
  BY <1>4, <1>5, <1>8, <1>10, <1>11
<1>13. IsInjective(new)
  <2> SUFFICES ASSUME NEW m \in 1..(L - over), NEW n \in 1..(L - over), new[m] = new[n]
               PROVE  m = n
    BY <1>12 DEF IsInjective
  <2>1. m + over \in 1..L /\ n + over \in 1..L
    BY <1>5, <1>8, <1>10
  <2>2. m + over = n + over
    BY <1>6, <1>12, <2>1
  <2> QED
    BY <1>8, <2>2
<1>14. /\ DOMAIN history' = DOMAIN table \ Evicted(s)
       /\ \A x \in DOMAIN history' : history'[x] = table[x]
       /\ history' = [x \in DOMAIN history' |-> history'[x]]
  BY <1>9 DEF Restrict
<1>15. DOMAIN history' \subseteq ToSet(new)
  <2> SUFFICES ASSUME NEW x \in DOMAIN table, x \notin Evicted(s) PROVE x \in ToSet(new)
    BY <1>14
  <2>1. PICK n \in 1..L : x = all[n]
    BY <1>1, <1>7
  <2>2. ~(n \in 1..(L - MaxHistories))
    BY <1>4, <2>1 DEF Evicted
  <2>3. n > over
    BY <1>1, <1>5, <1>8, <2>2
  <2>4. n - over \in 1..(L - over) /\ (n - over) + over = n
    BY <1>5, <1>8, <1>10, <2>3
  <2> QED
    BY <1>12, <2>1, <2>4 DEF ToSet
<1>16. HistoriesAreBounded'
  BY <1>9, <1>10, <1>11, <1>12, <1>13, <1>15 DEF HistoriesAreBounded
<1>17. DOMAIN history' \subseteq Turns /\ history' \in [DOMAIN history' -> Seq(Turns)]
  BY <1>1, <1>14
<1> QED
  BY <1>9, <1>11, <1>12, <1>14, <1>16, <1>17 DEF TableSound

\* ClearSessions takes a session out of table and order, or leaves both.
LEMMA ClearSound ==
  ASSUME TableSound, NEW s \in Turns, ClearSession(s)
  PROVE  TableSound' /\ DOMAIN history' = DOMAIN history \ {s}
<1>1. CASE s \notin DOMAIN history
  <2>1. UNCHANGED <<history, order>>
    BY <1>1 DEF ClearSession
  <2> QED
    BY <1>1, <2>1 DEF TableSound, HistoriesAreBounded
<1>2. CASE s \in DOMAIN history
  <2>1. /\ history' = Restrict(history, DOMAIN history \ {s})
        /\ order' = OrderWithout(s)
    BY <1>2 DEF ClearSession
  <2>2. /\ order \in Seq(Turns) /\ IsInjective(order) /\ Len(order) <= MaxHistories
        /\ DOMAIN history \subseteq ToSet(order) /\ DOMAIN history \subseteq Turns
        /\ history \in [DOMAIN history -> Seq(Turns)] /\ MaxHistories \in Nat /\ Len(order) \in Nat
    BY ChatAssumption DEF TableSound, HistoriesAreBounded
  <2>3. PICK o \in Seq(Turns) : o = OrderWithout(s)
    BY <2>2, OrderWithoutSound
  <2>4. /\ IsInjective(o) /\ Len(o) <= Len(order) /\ Len(o) \in Nat
        /\ \A x : x \in ToSet(o) <=> x \in ToSet(order) /\ x # s
    BY <2>2, <2>3, OrderWithoutSound
  <2>5. Len(o) <= MaxHistories
    BY <2>2, <2>4
  <2>6. /\ DOMAIN history' = DOMAIN history \ {s}
        /\ history' \in [DOMAIN history' -> Seq(Turns)]
    BY <2>1, <2>2 DEF Restrict
  <2>7. HistoriesAreBounded'
    BY <2>1, <2>2, <2>3, <2>4, <2>5, <2>6 DEF HistoriesAreBounded
  <2> QED
    BY <2>1, <2>2, <2>3, <2>6, <2>7 DEF TableSound
<1> QED
  BY <1>1, <1>2

-----------------------------------------------------------------------------
(* A turn                                                                  *)

\* Turn r goes to t, with a table in which at most its own session is new.
ChatMoved(r, t) ==
  /\ turn' = [turn EXCEPT ![r] = t]
  /\ TurnSound(r, t)
  /\ TableSound'
  /\ DOMAIN history' \subseteq DOMAIN history \cup {r}
  /\ r \in DOMAIN history' => t.pc \in {"reply", "clear"}

\* Such a step keeps the invariant.
LEMMA ChatMovedInv ==
  ASSUME ChatInv, NEW r \in Turns, NEW t, ChatMoved(r, t)
  PROVE  ChatInv'
<1>1. /\ DOMAIN turn' = Turns /\ turn' = [q \in Turns |-> turn'[q]]
      /\ turn'[r] = t /\ \A q \in Turns : q # r => turn'[q] = turn[q]
  BY DEF ChatInv, ChatMoved
<1>2. \A q \in Turns : TurnSound(q, turn'[q])
  BY <1>1 DEF ChatInv, ChatMoved
<1>3. \A s \in DOMAIN history' : turn'[s].pc \in {"reply", "clear"}
  <2>1. \A s \in DOMAIN history' : s \in Turns
    BY DEF ChatMoved, TableSound
  <2> QED
    BY <1>1, <2>1 DEF ChatInv, ChatMoved
<1>4. (\A q \in Turns : TurnSound(q, turn[q]))'
  BY <1>2 DEF TurnSound
<1> QED
  BY <1>1, <1>3, <1>4 DEF ChatInv, ChatMoved

\* A step without the table.
LEMMA AloneMoved ==
  ASSUME ChatInv, NEW r \in Turns, NEW t, turn' = [turn EXCEPT ![r] = t],
         TurnSound(r, t), UNCHANGED <<history, order>>,
         turn[r].pc \in {"reply", "clear"} => t.pc \in {"reply", "clear"}
  PROVE  ChatInv'
<1>1. TableSound'
  BY DEF ChatInv, TableSound, HistoriesAreBounded
<1>2. r \in DOMAIN history => t.pc \in {"reply", "clear"}
  BY DEF ChatInv
<1>3. ChatMoved(r, t)
  BY <1>1, <1>2 DEF ChatMoved
<1> QED
  BY <1>3, ChatMovedInv

\* A turn before it begins and after it has returned.
LEMMA RestSound ==
  ASSUME NEW r
  PROVE  /\ TurnSound(r, NoTurn) /\ NoTurn.pc = "none"
         /\ TurnSound(r, Answered) /\ Answered.pc = "done"
<1>1. 0 \in 0..MaxRounds /\ <<>> \in Seq(Turns)
  BY ChatAssumption
<1>2. ToSet(<<>>) = {}
  BY DEF ToSet
<1>3. /\ NoTurn \in Turn /\ NoTurn.hist = <<>> /\ NoTurn.cites = {} /\ NoTurn.failed = FALSE
      /\ NoTurn.pc = "none"
  BY <1>1 DEF NoTurn, Turn
<1>4. /\ Answered \in Turn /\ Answered.hist = <<>> /\ Answered.cites = {}
      /\ Answered.failed = FALSE /\ Answered.pc = "done"
  BY <1>1, <1>3 DEF NoTurn, Answered, Turn
<1> QED
  BY <1>2, <1>3, <1>4 DEF TurnSound

PCs == {"none", "start", "loop", "fallback", "save", "reply", "clear", "done"}

\* A turn that goes on without another change.
LEMMA PcMoved ==
  ASSUME NEW r, NEW u, TurnSound(r, u), NEW pc \in PCs \ {"clear"},
         u.failed => pc = "reply", NEW t, t = [u EXCEPT !.pc = pc]
  PROVE  TurnSound(r, t) /\ t.pc = pc
<1>1. u \in Turn
  BY DEF TurnSound
<1>2. /\ t \in Turn /\ t.pc = pc /\ t.hist = u.hist /\ t.cites = u.cites
      /\ t.failed = u.failed /\ t.err = u.err
  BY <1>1 DEF Turn, PCs
<1> QED
  BY <1>2 DEF TurnSound

\* The turns of the invariant.
LEMMA TurnFacts ==
  ASSUME ChatInv, NEW r \in Turns
  PROVE  TurnSound(r, turn[r]) /\ turn[r] \in Turn /\ turn = [q \in Turns |-> turn[q]]
  BY DEF ChatInv, TurnSound

\* Chat before Run.
LEMMA BeginInv ==
  ASSUME ChatInv, NEW r \in Turns, ChatBegins(r) \/ ChatRefused(r)
  PROVE  ChatInv'
<1>1. turn[r].pc = "none" /\ UNCHANGED <<history, order>>
  BY DEF ChatBegins, ChatRefused
<1>2. CASE ChatBegins(r)
  <2>1. PICK t : t = [turn[r] EXCEPT !.pc = "start"]
    OBVIOUS
  <2>2. turn' = [turn EXCEPT ![r] = t]
    BY <1>2, <2>1, TurnFacts DEF ChatBegins
  <2>3. ~turn[r].failed
    BY <1>1, TurnFacts DEF TurnSound
  <2>4. TurnSound(r, t)
    BY <2>1, <2>3, TurnFacts, PcMoved DEF PCs
  <2> QED
    BY <1>1, <2>2, <2>4, AloneMoved
<1>3. CASE ChatRefused(r)
  <2>1. turn' = [turn EXCEPT ![r] = Answered]
    BY <1>3 DEF ChatRefused
  <2>2. PICK t : t = Answered
    OBVIOUS
  <2>3. TurnSound(r, t)
    BY <2>2, RestSound
  <2> QED
    BY <1>1, <2>1, <2>2, <2>3, AloneMoved
<1> QED
  BY <1>2, <1>3

\* The context of a request ends.
LEMMA ContextInv ==
  ASSUME ChatInv, NEW r \in Turns, ContextEnds(r)
  PROVE  ChatInv'
<1>1. UNCHANGED <<history, order>>
  BY DEF ContextEnds
<1>2. PICK t : t = [turn[r] EXCEPT !.live = FALSE]
  OBVIOUS
<1>3. turn' = [turn EXCEPT ![r] = t]
  BY <1>2, TurnFacts DEF ContextEnds
<1>4. /\ t \in Turn /\ t.pc = turn[r].pc /\ t.hist = turn[r].hist /\ t.cites = turn[r].cites
      /\ t.failed = turn[r].failed /\ t.err = turn[r].err /\ t.status = turn[r].status
  <2>1. turn[r] \in Turn
    BY TurnFacts
  <2> QED
    BY <1>2, <2>1 DEF Turn
<1>5. TurnSound(r, t)
  BY <1>4, TurnFacts DEF TurnSound
<1> QED
  BY <1>1, <1>3, <1>4, <1>5, AloneMoved

\* A turn whose session has no history begins with its question alone.
LEMMA CopyInv ==
  ASSUME ChatInv, NEW r \in Turns, CopyHistory(r)
  PROVE  ChatInv'
<1>1. turn[r].pc = "start" /\ turn[r] \in Turn
  BY TurnFacts DEF CopyHistory
<1>2. r \notin DOMAIN history
  BY <1>1 DEF ChatInv
<1>3. PICK h : h = Append(<<>>, r)
  OBVIOUS
<1>4. h \in Seq(Turns) /\ ToSet(h) = {r}
  BY <1>3 DEF ToSet
<1>5. PICK t : t = [turn[r] EXCEPT !.pc = "loop", !.hist = h]
  OBVIOUS
<1>6. turn' = [turn EXCEPT ![r] = t]
  BY <1>2, <1>3, <1>5, TurnFacts DEF CopyHistory, SessionOf
<1>7. /\ t \in Turn /\ t.pc = "loop" /\ t.hist = h /\ t.cites = turn[r].cites
      /\ t.failed = turn[r].failed
  BY <1>1, <1>4, <1>5 DEF Turn
<1>8. TurnSound(r, t)
  BY <1>1, <1>4, <1>7, TurnFacts DEF TurnSound
<1>9. Touch(history, r)
  BY DEF CopyHistory, SessionOf
<1>10. TableSound' /\ DOMAIN history' \subseteq DOMAIN history
  <2>1. PICK table : table = history
    OBVIOUS
  <2>2. TableSound /\ table \in [DOMAIN table -> Seq(Turns)] /\ Touch(table, r)
    BY <1>9, <2>1 DEF ChatInv, TableSound
  <2> QED
    BY <2>1, <2>2, TouchSound
<1>11. ChatMoved(r, t)
  BY <1>2, <1>6, <1>8, <1>10 DEF ChatMoved
<1> QED
  BY <1>11, ChatMovedInv

\* The loop fails: a failed tool leaves an error, a failed model none that hides anything.
LEMMA LoopFailsInv ==
  ASSUME ChatInv, NEW r \in Turns, NEW err \in {"model", "source"}, turn[r].pc = "loop",
         LoopFails(r, err), UNCHANGED <<history, order>>
  PROVE  ChatInv'
<1>1. turn[r] \in Turn /\ TurnSound(r, turn[r]) /\ ~turn[r].failed
  BY TurnFacts DEF TurnSound
<1>2. CASE Degrades(r, err)
  <2>1. PICK t : t = [turn[r] EXCEPT !.pc = "fallback", !.failed = (err # "model")]
    OBVIOUS
  <2>2. turn' = [turn EXCEPT ![r] = t]
    BY <1>2, <2>1, TurnFacts DEF LoopFails
  <2>3. err = "model"
    BY <1>2 DEF Degrades
  <2>4. PICK f \in BOOLEAN : f = (err # "model") /\ ~f
    BY <2>3
  <2>5. t = [turn[r] EXCEPT !.pc = "fallback", !.failed = f]
    BY <2>1, <2>4
  <2>6. /\ t \in Turn /\ t.pc = "fallback" /\ t.hist = turn[r].hist /\ t.cites = turn[r].cites
        /\ t.failed = f
    BY <1>1, <2>5 DEF Turn
  <2>7. TurnSound(r, t)
    BY <1>1, <2>4, <2>6 DEF TurnSound
  <2> QED
    BY <2>2, <2>7, AloneMoved
<1>3. CASE ~Degrades(r, err)
  <2>1. PICK e \in {"context", "source"} : e = IF err = "model" THEN "context" ELSE err
    OBVIOUS
  <2>2. PICK f \in BOOLEAN : f = (err # "model")
    OBVIOUS
  <2>3. PICK t : t = [turn[r] EXCEPT !.pc = "reply", !.cites = {}, !.failed = f, !.err = e]
    OBVIOUS
  <2>4. turn' = [turn EXCEPT ![r] = t]
    BY <1>3, <2>1, <2>2, <2>3, TurnFacts DEF LoopFails
  <2>5. /\ t \in Turn /\ t.pc = "reply" /\ t.hist = turn[r].hist /\ t.cites = {}
        /\ t.err = e
    BY <1>1, <2>1, <2>3 DEF Turn
  <2>6. TurnSound(r, t)
    BY <1>1, <2>1, <2>5 DEF TurnSound
  <2> QED
    BY <2>4, <2>5, <2>6, AloneMoved
<1> QED
  BY <1>2, <1>3

\* The rounds of the loop.
LEMMA RoundInv ==
  ASSUME ChatInv, NEW r \in Turns,
         ModelConcludes(r) \/ \E found \in SUBSET Hits : ToolsAnswer(r, found)
  PROVE  ChatInv'
<1>1. /\ turn[r] \in Turn /\ TurnSound(r, turn[r]) /\ turn[r].pc = "loop"
      /\ UNCHANGED <<history, order>>
  BY TurnFacts DEF ModelConcludes, ToolsAnswer
<1>2. ~turn[r].failed
  BY <1>1 DEF TurnSound
<1>3. CASE ModelConcludes(r)
  <2>1. PICK t : t = [turn[r] EXCEPT !.pc = "save"]
    OBVIOUS
  <2>2. turn' = [turn EXCEPT ![r] = t]
    BY <1>3, <2>1, TurnFacts DEF ModelConcludes
  <2>3. TurnSound(r, t)
    BY <1>1, <1>2, <2>1, PcMoved DEF PCs
  <2> QED
    BY <1>1, <2>2, <2>3, AloneMoved
<1>4. ASSUME NEW found \in SUBSET Hits, ToolsAnswer(r, found)
      PROVE  ChatInv'
  <2>1. PICK n, c : n = turn[r].round + 1 /\ c = turn[r].cites \cup (found \cap Qualified)
    OBVIOUS
  <2>2. PICK t : t = [turn[r] EXCEPT !.round = n, !.cites = c]
    OBVIOUS
  <2>3. turn' = [turn EXCEPT ![r] = t]
    BY <1>4, <2>1, <2>2, TurnFacts DEF ToolsAnswer
  <2>4. n \in 0..MaxRounds
    BY <1>1, <1>4, <2>1, ChatAssumption DEF ToolsAnswer, Turn
  <2>5. c \subseteq Qualified /\ c \in SUBSET Hits
    BY <1>1, <2>1, ChatAssumption DEF TurnSound
  <2>6. /\ t \in Turn /\ t.pc = "loop" /\ t.hist = turn[r].hist /\ t.cites = c
        /\ t.failed = turn[r].failed
    BY <1>1, <2>2, <2>4, <2>5 DEF Turn
  <2>7. TurnSound(r, t)
    BY <1>1, <1>2, <2>5, <2>6 DEF TurnSound
  <2> QED
    BY <1>1, <2>3, <2>7, AloneMoved
<1> QED
  BY <1>3, <1>4

\* The direct search.
LEMMA FallbackInv ==
  ASSUME ChatInv, NEW r \in Turns, Fallback(r)
  PROVE  ChatInv'
<1>1. /\ turn[r] \in Turn /\ TurnSound(r, turn[r]) /\ turn[r].pc = "fallback"
      /\ UNCHANGED <<history, order>>
  BY TurnFacts DEF Fallback
<1>2. ~turn[r].failed
  BY <1>1 DEF TurnSound
<1>3. ASSUME NEW found \in SUBSET Hits,
             turn' = [turn EXCEPT ![r].pc = "reply", ![r].cites = found \cap Qualified]
      PROVE  ChatInv'
  <2>1. PICK c \in SUBSET Hits : c = found \cap Qualified
    OBVIOUS
  <2>2. PICK t : t = [turn[r] EXCEPT !.pc = "reply", !.cites = c]
    OBVIOUS
  <2>3. turn' = [turn EXCEPT ![r] = t]
    BY <1>3, <2>1, <2>2, TurnFacts
  <2>4. /\ t \in Turn /\ t.pc = "reply" /\ t.hist = turn[r].hist /\ t.cites = c
        /\ t.failed = turn[r].failed
    BY <1>1, <2>2 DEF Turn
  <2>5. TurnSound(r, t)
    BY <1>1, <1>2, <2>1, <2>4 DEF TurnSound
  <2> QED
    BY <1>1, <2>3, <2>4, <2>5, AloneMoved
<1>4. ASSUME turn' = [turn EXCEPT ![r].pc = "reply", ![r].cites = {}, ![r].err = "source",
                                  ![r].failed = TRUE]
      PROVE  ChatInv'
  <2>1. PICK t : t = [turn[r] EXCEPT !.pc = "reply", !.cites = {}, !.err = "source",
                                     !.failed = TRUE]
    OBVIOUS
  <2>2. turn' = [turn EXCEPT ![r] = t]
    BY <1>4, <2>1, TurnFacts
  <2>3. /\ t \in Turn /\ t.pc = "reply" /\ t.hist = turn[r].hist /\ t.cites = {}
        /\ t.err = "source"
    BY <1>1, <2>1 DEF Turn
  <2>4. TurnSound(r, t)
    BY <1>1, <2>3 DEF TurnSound
  <2> QED
    BY <1>1, <2>2, <2>3, <2>4, AloneMoved
<1> QED
  BY <1>3, <1>4 DEF Fallback

\* The history with the answer is stored.
LEMMA SaveInv ==
  ASSUME ChatInv, NEW r \in Turns, SaveHistory(r)
  PROVE  ChatInv'
<1>1. turn[r] \in Turn /\ TurnSound(r, turn[r]) /\ turn[r].pc = "save" /\ TableSound
  BY TurnFacts DEF SaveHistory, ChatInv
<1>2. ~turn[r].failed
  BY <1>1 DEF TurnSound
<1>3. PICK t : t = [turn[r] EXCEPT !.pc = "reply"]
  OBVIOUS
<1>4. turn' = [turn EXCEPT ![r] = t]
  BY <1>3, TurnFacts DEF SaveHistory
<1>5. TurnSound(r, t) /\ t.pc = "reply"
  BY <1>1, <1>2, <1>3, PcMoved DEF PCs
<1>6. PICK all \in Seq(Turns) : all = Append(turn[r].hist, r)
  <2>1. PICK h \in Seq(Turns) : h = turn[r].hist
    BY <1>1 DEF Turn
  <2>2. Append(h, r) \in Seq(Turns)
    OBVIOUS
  <2> QED
    BY <2>1, <2>2
<1>7. PICK kept : kept = SubSeq(all, IF Len(all) > HistoryCap THEN Len(all) - HistoryCap + 1 ELSE 1,
                                Len(all))
  OBVIOUS
<1>8. kept \in Seq(Turns)
  <2>1. PICK m \in 1..(Len(all) + 1) : m = IF Len(all) > HistoryCap THEN Len(all) - HistoryCap + 1 ELSE 1
    BY ChatAssumption
  <2>2. \A n \in m..Len(all) : all[n] \in Turns
    BY <2>1
  <2> QED
    BY <1>7, <2>1, <2>2, SubSeqProperties
<1>9. PICK table : table = With(history, r, kept)
  OBVIOUS
<1>10. Touch(table, r)
  BY <1>6, <1>7, <1>9 DEF SaveHistory, SessionOf
<1>11. DOMAIN table = DOMAIN history \cup {r} /\ table \in [DOMAIN table -> Seq(Turns)]
  BY <1>1, <1>8, <1>9 DEF With, TableSound
<1>12. TableSound' /\ DOMAIN history' \subseteq DOMAIN history \cup {r}
  BY <1>1, <1>10, <1>11, TouchSound
<1>13. ChatMoved(r, t)
  BY <1>4, <1>5, <1>12 DEF ChatMoved
<1> QED
  BY <1>13, ChatMovedInv

\* Chat answers: with status 200 only if the context lives and there is no error.
LEMMA ReplyInv ==
  ASSUME ChatInv, NEW r \in Turns, Reply(r)
  PROVE  ChatInv'
<1>1. /\ turn[r] \in Turn /\ TurnSound(r, turn[r]) /\ turn[r].pc = "reply"
      /\ UNCHANGED <<history, order>>
  BY TurnFacts DEF Reply
<1>2. PICK status : status = StatusOf(turn[r])
  OBVIOUS
<1>3. status \in {"over", "unavailable", "answer"} /\ (status = "answer" => turn[r].err = "none")
  BY <1>2 DEF StatusOf
<1>4. PICK c : c = IF status = "answer" THEN turn[r].cites ELSE {}
  OBVIOUS
<1>5. PICK t : t = [turn[r] EXCEPT !.pc = "clear", !.status = status, !.cites = c]
  OBVIOUS
<1>6. turn' = [turn EXCEPT ![r] = t]
  BY <1>2, <1>4, <1>5, TurnFacts DEF Reply
<1>7. c \subseteq Qualified /\ c \in SUBSET Hits
  BY <1>1, <1>4, ChatAssumption DEF TurnSound
<1>8. /\ t \in Turn /\ t.pc = "clear" /\ t.hist = turn[r].hist /\ t.cites = c
      /\ t.status = status /\ t.err = turn[r].err /\ t.failed = turn[r].failed
  BY <1>1, <1>3, <1>5, <1>7 DEF Turn
<1>9. TurnSound(r, t)
  BY <1>1, <1>3, <1>4, <1>7, <1>8 DEF TurnSound
<1> QED
  BY <1>1, <1>6, <1>8, <1>9, AloneMoved

\* The turn is over and its history gone.
LEMMA ReturnsInv ==
  ASSUME ChatInv, NEW r \in Turns, ChatReturns(r)
  PROVE  ChatInv'
<1>1. ClearSession(r) /\ turn' = [turn EXCEPT ![r] = Answered]
  BY DEF ChatReturns, SessionOf
<1>2. TableSound' /\ DOMAIN history' = DOMAIN history \ {r}
  BY <1>1, ClearSound DEF ChatInv
<1>3. PICK t : t = Answered
  OBVIOUS
<1>4. ChatMoved(r, t)
  BY <1>1, <1>2, <1>3, RestSound DEF ChatMoved
<1> QED
  BY <1>4, ChatMovedInv

\* Every step of a turn keeps the invariant of the chat.
LEMMA TurnStepInv ==
  ASSUME ChatInv, NEW r \in Turns, TurnStep(r)
  PROVE  ChatInv'
<1>1. CASE ModelFails(r)
  BY <1>1, LoopFailsInv DEF ModelFails
<1>2. CASE ToolFails(r)
  BY <1>2, LoopFailsInv DEF ToolFails
<1> QED
  BY <1>1, <1>2, CopyInv, RoundInv, FallbackInv, SaveInv, ReplyInv DEF TurnStep

\* The chat at rest.
LEMMA ChatInitInv ==
  ASSUME ChatInit
  PROVE  ChatInv
<1>1. <<>> \in Seq(Turns) /\ Len(<<>>) = 0 /\ DOMAIN <<>> = {}
  OBVIOUS
<1>2. 0 <= MaxHistories
  BY ChatAssumption
<1>3. TableSound
  BY <1>1, <1>2 DEF ChatInit, TableSound, HistoriesAreBounded, IsInjective
<1>4. \A r \in Turns : TurnSound(r, turn[r])
  BY RestSound DEF ChatInit
<1> QED
  BY <1>1, <1>3, <1>4 DEF ChatInit, ChatInv

-----------------------------------------------------------------------------
(* The inductive invariant of the sessions                                 *)

\* What a request holds on to: an instant of the past, or the number of a session.
RequestSound(q, n) ==
  /\ q.pc = "issue" => q.from \in Nat
  /\ q.pc \in {"limit", "handle"} =>
       /\ q.cookie \in 0..n
       /\ {"pc", "cookie"} \subseteq DOMAIN q

\* The sessions that may have displaced session s.
Displacing(s) == {u \in DOMAIN born : u # s /\ (born[u] >= born[s] \/ u > s)}

\* A session in the table is one of the issued ones, as it was issued.
AuthInv ==
  /\ now \in Nat
  /\ born \in Seq(Nat)
  /\ DOMAIN sessions \subseteq 1..Len(born)
  /\ \A s \in DOMAIN sessions : sessions[s].created = born[s] /\ sessions[s].expires = born[s] + Ttl
  /\ loggedOut \subseteq 1..Len(born)
  /\ DOMAIN req = Requests /\ req = [r \in Requests |-> req[r]]
  /\ \A r \in Requests : RequestSound(req[r], Len(born))
  /\ SessionTableSound

-----------------------------------------------------------------------------
(* Requests                                                                *)

\* Requests at rest hold on to nothing.
LEMMA RestRequest ==
  ASSUME NEW n
  PROVE  RequestSound(Idle, n) /\ RequestSound(Done, n) /\ RequestSound([pc |-> "chat"], n)
<1>1. Idle.pc = "idle" /\ Done.pc = "done"
  BY DEF Idle, Done
<1>2. PICK q : q = [pc |-> "chat"]
  OBVIOUS
<1>3. RequestSound(q, n)
  <2>1. q.pc = "chat"
    BY <1>2
  <2> QED
    BY <2>1 DEF RequestSound
<1> QED
  BY <1>1, <1>2, <1>3 DEF RequestSound

\* A request that the middleware lets in holds on to its cookie.
LEMMA LetInSound ==
  ASSUME NEW kind, NEW who, NEW n \in Nat, NEW s \in 0..n
  PROVE  RequestSound(LetIn(kind, who, s), n)
<1>1. PICK q : q = LetIn(kind, who, s)
  OBVIOUS
<1>2. q.cookie = (IF kind \in {"current", "logout"} THEN s ELSE 0) /\ q.pc \in {"limit", "handle"}
  BY <1>1 DEF LetIn
<1>3. {"pc", "cookie"} \subseteq DOMAIN q
  BY <1>1 DEF LetIn
<1>4. q.cookie \in 0..n
  BY <1>2
<1> QED
  BY <1>1, <1>2, <1>3, <1>4 DEF RequestSound

\* A step of request r that leaves the sessions alone.
LEMMA RequestMoved ==
  ASSUME AuthInv, NEW r \in Requests, NEW q, req' = [req EXCEPT ![r] = q],
         RequestSound(q, Len(born)), UNCHANGED <<now, sessions, born, loggedOut>>
  PROVE  AuthInv'
<1>1. /\ DOMAIN req' = Requests /\ req' = [p \in Requests |-> req'[p]]
      /\ req'[r] = q /\ \A p \in Requests : p # r => req'[p] = req[p]
  BY DEF AuthInv
<1>2. \A p \in Requests : RequestSound(req'[p], Len(born))
  BY <1>1 DEF AuthInv
<1>3. (\A p \in Requests : RequestSound(req[p], Len(born)))'
  BY <1>2 DEF RequestSound
<1>4. SessionTableSound'
  BY DEF AuthInv, SessionTableSound, SessionsBounded, LogoutIsFinal, NoneLostEarly
<1> QED
  BY <1>1, <1>3, <1>4 DEF AuthInv

\* Sessions go that have expired or are logged out.
LEMMA SessionsGo ==
  ASSUME AuthInv, NEW r \in Requests, NEW q, req' = [req EXCEPT ![r] = q],
         RequestSound(q, Len(born)), NEW gone,
         sessions' = Restrict(sessions, DOMAIN sessions \ gone),
         \A s \in gone : s \in DOMAIN sessions => s \in loggedOut' \/ now > sessions[s].expires,
         loggedOut \subseteq loggedOut', loggedOut' \subseteq 1..Len(born),
         \A s \in loggedOut' : s \in loggedOut \/ s \in gone,
         UNCHANGED <<now, born>>
  PROVE  AuthInv'
<1>1. /\ DOMAIN req' = Requests /\ req' = [p \in Requests |-> req'[p]]
      /\ req'[r] = q /\ \A p \in Requests : p # r => req'[p] = req[p]
  BY DEF AuthInv
<1>2. \A p \in Requests : RequestSound(req'[p], Len(born))
  BY <1>1 DEF AuthInv
<1>3. (\A p \in Requests : RequestSound(req[p], Len(born)))'
  BY <1>2 DEF RequestSound
<1>4. /\ DOMAIN sessions' = DOMAIN sessions \ gone
      /\ \A s \in DOMAIN sessions' : sessions'[s] = sessions[s]
  BY DEF Restrict
<1>5. SessionsBounded'
  <2>1. PICK A, B : A = DOMAIN sessions /\ B = DOMAIN sessions'
    OBVIOUS
  <2>2. IsFiniteSet(A)
    <3>1. Len(born) \in Nat /\ A \in SUBSET (1..Len(born))
      BY <2>1 DEF AuthInv
    <3>2. IsFiniteSet(1..Len(born))
      BY <3>1, FS_Interval
    <3> QED
      BY <3>1, <3>2, FS_Subset
  <2>3. B \in SUBSET A
    BY <1>4, <2>1
  <2>4. Cardinality(B) <= Cardinality(A) /\ Cardinality(A) \in Nat /\ Cardinality(B) \in Nat
    BY <2>2, <2>3, FS_Subset, FS_CardinalityType
  <2>5. Cardinality(A) <= MaxSessions /\ MaxSessions \in Nat
    BY <2>1, AuthAssumption DEF AuthInv, SessionTableSound, SessionsBounded
  <2>6. Cardinality(B) <= MaxSessions
    BY <2>4, <2>5
  <2> QED
    BY <2>1, <2>6 DEF SessionsBounded
<1>6. LogoutIsFinal'
  BY <1>4 DEF AuthInv, SessionTableSound, LogoutIsFinal
<1>7. NoneLostEarly'
  <2>1. \A s \in DOMAIN sessions : now > sessions[s].expires => now > born[s] + Ttl
    BY DEF AuthInv
  <2>2. \A s \in DOMAIN born : s \in DOMAIN sessions => s \in DOMAIN sessions' \/ s \in loggedOut'
                                                          \/ now > born[s] + Ttl
    BY <1>4, <2>1
  <2> QED
    BY <2>2 DEF AuthInv, SessionTableSound, NoneLostEarly
<1> QED
  BY <1>1, <1>3, <1>4, <1>5, <1>6, <1>7 DEF AuthInv, SessionTableSound

-----------------------------------------------------------------------------
(* Login                                                                   *)

\* A set of issued sessions is finite.
LEMMA IssuedFinite ==
  ASSUME NEW n \in Nat, NEW A \in SUBSET (1..n)
  PROVE  IsFiniteSet(A) /\ Cardinality(A) \in Nat
<1>1. IsFiniteSet(1..n)
  BY FS_Interval
<1>2. IsFiniteSet(A)
  BY <1>1, FS_Subset
<1> QED
  BY <1>2, FS_CardinalityType

\* A new session takes the place of an expired one, of an oldest one, or of none.
LEMMA IssueInv ==
  ASSUME AuthInv, NEW r \in Requests, Issue(r)
  PROVE  AuthInv'
<1>1. PICK L \in Nat : /\ L = Len(born) /\ DOMAIN born = 1..L /\ born \in Seq(Nat)
                       /\ DOMAIN sessions \subseteq 1..L /\ now \in Nat /\ Ttl \in Nat
                       /\ MaxSessions \in Nat \ {0}
  <2>1. Ttl \in Nat /\ MaxSessions \in Nat \ {0}
    BY AuthAssumption
  <2>2. born \in Seq(Nat) /\ DOMAIN sessions \subseteq 1..Len(born) /\ now \in Nat
    BY DEF AuthInv
  <2>3. Len(born) \in Nat /\ DOMAIN born = 1..Len(born)
    BY <2>2
  <2> QED
    BY <2>1, <2>2, <2>3
<1>2. req[r].from \in Nat
  BY DEF AuthInv, Issue, RequestSound
<1>3. PICK t \in req[r].from..now :
        \E out \in IF Cardinality(DOMAIN UnexpiredAt(t)) >= MaxSessions
                     THEN {{s} : s \in Oldest(UnexpiredAt(t))} ELSE {{}} :
          /\ sessions' = With(Restrict(UnexpiredAt(t), DOMAIN UnexpiredAt(t) \ out), Len(born) + 1,
                              [created |-> t, expires |-> t + Ttl])
          /\ born' = Append(born, t)
  BY DEF Issue
<1>4. t \in Nat /\ t <= now
  BY <1>1, <1>2
<1>5. PICK kept, K : kept = UnexpiredAt(t) /\ K = DOMAIN kept
  OBVIOUS
<1>6. PICK out \in IF Cardinality(K) >= MaxSessions THEN {{s} : s \in Oldest(kept)} ELSE {{}} :
        /\ sessions' = With(Restrict(kept, K \ out), L + 1, [created |-> t, expires |-> t + Ttl])
        /\ born' = Append(born, t)
  BY <1>1, <1>3, <1>5
<1>7. /\ K = {s \in DOMAIN sessions : t <= sessions[s].expires} /\ K \in SUBSET (1..L)
      /\ \A s \in K : kept[s] = sessions[s]
  BY <1>1, <1>5 DEF UnexpiredAt, Restrict
<1>8. /\ born' \in Seq(Nat) /\ Len(born') = L + 1 /\ DOMAIN born' = 1..(L + 1)
      /\ born'[L + 1] = t /\ \A n \in 1..L : born'[n] = born[n] /\ born[n] \in Nat
  BY <1>1, <1>4, <1>6
<1>9. PICK new : new = [created |-> t, expires |-> t + Ttl]
  OBVIOUS
<1>10. new.created = t /\ new.expires = t + Ttl
  BY <1>9
<1>11. /\ DOMAIN sessions' = (K \ out) \cup {L + 1} /\ sessions'[L + 1] = new
       /\ \A s \in K \ out : s # L + 1 => sessions'[s] = sessions[s]
  <2>1. PICK rest : rest = Restrict(kept, K \ out)
    OBVIOUS
  <2>2. DOMAIN rest = K \ out /\ \A s \in K \ out : rest[s] = kept[s]
    BY <2>1 DEF Restrict
  <2>3. sessions' = With(rest, L + 1, new)
    BY <1>6, <1>9, <2>1
  <2>4. /\ DOMAIN sessions' = (K \ out) \cup {L + 1} /\ sessions'[L + 1] = new
        /\ \A s \in K \ out : s # L + 1 => sessions'[s] = rest[s]
    BY <2>2, <2>3 DEF With
  <2> QED
    BY <1>7, <2>2, <2>4
<1>12. L + 1 \notin 1..L /\ 1..L \subseteq 1..(L + 1) /\ L + 1 \in 1..(L + 1)
  BY <1>1
<1>13. DOMAIN sessions' \subseteq 1..(L + 1)
  BY <1>7, <1>11, <1>12
<1>14. \A s \in DOMAIN sessions' : sessions'[s].created = born'[s] /\ sessions'[s].expires = born'[s] + Ttl
  <2>1. \A s \in DOMAIN sessions : sessions[s].created = born[s] /\ sessions[s].expires = born[s] + Ttl
    BY DEF AuthInv
  <2>2. ASSUME NEW s \in K \ out
        PROVE  sessions'[s].created = born'[s] /\ sessions'[s].expires = born'[s] + Ttl
    BY <1>7, <1>8, <1>11, <1>12, <2>1
  <2>3. sessions'[L + 1].created = born'[L + 1] /\ sessions'[L + 1].expires = born'[L + 1] + Ttl
    BY <1>8, <1>10, <1>11
  <2> QED
    BY <1>11, <2>2, <2>3
<1>15. UNCHANGED <<now, loggedOut>> /\ req' = [req EXCEPT ![r] = Done]
  BY DEF Issue
<1>16. loggedOut' \subseteq 1..(L + 1) /\ loggedOut \subseteq 1..L
  BY <1>1, <1>12, <1>15 DEF AuthInv
<1>17. /\ DOMAIN req' = Requests /\ req' = [p \in Requests |-> req'[p]]
       /\ req'[r] = Done /\ \A p \in Requests : p # r => req'[p] = req[p]
  BY <1>15 DEF AuthInv
<1>18. \A p \in Requests : RequestSound(req'[p], L + 1)
  <2>1. \A q : RequestSound(q, L) => RequestSound(q, L + 1)
    <3>1. 0..L \subseteq 0..(L + 1)
      BY <1>1
    <3> QED
      BY <3>1 DEF RequestSound
  <2> QED
    BY <1>1, <1>17, <2>1, RestRequest DEF AuthInv
<1>19. (\A p \in Requests : RequestSound(req[p], Len(born)))'
  BY <1>8, <1>18 DEF RequestSound
<1>20. /\ IsFiniteSet(K) /\ Cardinality(K) \in Nat /\ Cardinality(K) <= MaxSessions
  <2>1. PICK A : A = DOMAIN sessions
    OBVIOUS
  <2>2. IsFiniteSet(A) /\ Cardinality(A) \in Nat
    BY <1>1, <2>1, IssuedFinite
  <2>3. K \in SUBSET A
    BY <1>7, <2>1
  <2>4. IsFiniteSet(K) /\ Cardinality(K) <= Cardinality(A) /\ Cardinality(K) \in Nat
    BY <2>2, <2>3, FS_Subset, FS_CardinalityType
  <2>5. Cardinality(A) <= MaxSessions
    BY <2>1 DEF AuthInv, SessionTableSound, SessionsBounded
  <2> QED
    BY <1>1, <2>2, <2>4, <2>5
<1>21. \/ out = {} /\ Cardinality(K) < MaxSessions
       \/ Cardinality(K) >= MaxSessions /\ \E s \in Oldest(kept) : out = {s}
  BY <1>1, <1>6, <1>20
<1>22. SessionsBounded'
  <2>1. PICK M : M = K \ out
    OBVIOUS
  <2>2. IsFiniteSet(M) /\ Cardinality(M) \in Nat /\ Cardinality(M) + 1 <= MaxSessions
    <3>1. CASE out = {} /\ Cardinality(K) < MaxSessions
      <4>1. M = K
        BY <2>1, <3>1
      <4> QED
        BY <1>1, <1>20, <3>1, <4>1
    <3>2. ASSUME NEW s \in Oldest(kept), out = {s}
          PROVE  IsFiniteSet(M) /\ Cardinality(M) \in Nat /\ Cardinality(M) + 1 <= MaxSessions
      <4>1. s \in K /\ M = K \ {s}
        BY <1>5, <2>1, <3>2 DEF Oldest
      <4>2. IsFiniteSet(M) /\ Cardinality(M) = Cardinality(K) - 1 /\ Cardinality(M) \in Nat
        BY <1>20, <4>1, FS_RemoveElement, FS_CardinalityType
      <4> QED
        BY <1>1, <1>20, <4>2
    <3> QED
      BY <1>21, <3>1, <3>2
  <2>3. L + 1 \notin M
    BY <1>7, <1>12, <2>1
  <2>4. Cardinality(M \cup {L + 1}) = Cardinality(M) + 1
    BY <2>2, <2>3, FS_AddElement
  <2> QED
    BY <1>11, <2>1, <2>2, <2>4 DEF SessionsBounded
<1>23. LogoutIsFinal'
  BY <1>7, <1>11, <1>12, <1>15, <1>16 DEF AuthInv, SessionTableSound, LogoutIsFinal
<1>24. ASSUME NEW s \in 1..L
       PROVE  \/ s \in DOMAIN sessions' \/ s \in loggedOut \/ now > born[s] + Ttl
              \/ Cardinality(Displacing(s)') >= MaxSessions
  <2>1. PICK D, E : D = Displacing(s) /\ E = Displacing(s)'
    OBVIOUS
  <2>2. E = {u \in 1..(L + 1) : u # s /\ (born'[u] >= born'[s] \/ u > s)}
    BY <1>8, <2>1 DEF Displacing
  <2>3. D = {u \in 1..L : u # s /\ (born[u] >= born[s] \/ u > s)}
    BY <1>1, <2>1 DEF Displacing
  <2>4. IsFiniteSet(E) /\ Cardinality(E) \in Nat
    <3>1. L + 1 \in Nat /\ E \in SUBSET (1..(L + 1))
      BY <1>1, <2>2
    <3> QED
      BY <3>1, IssuedFinite
  <2>5. CASE Cardinality(D) >= MaxSessions
    <3>1. D \in SUBSET E
      BY <1>8, <1>12, <2>2, <2>3
    <3>2. Cardinality(D) <= Cardinality(E) /\ Cardinality(D) \in Nat
      BY <2>4, <3>1, FS_Subset, FS_CardinalityType
    <3> QED
      BY <1>1, <2>1, <2>4, <2>5, <3>2
  <2>6. CASE s \in DOMAIN sessions /\ s \notin K
    <3>1. ~(t <= sessions[s].expires) /\ sessions[s].expires = born[s] + Ttl
      BY <1>7, <2>6 DEF AuthInv
    <3>2. born[s] + Ttl \in Nat
      BY <1>1, <1>8
    <3> QED
      BY <1>1, <1>4, <3>1, <3>2
  <2>7. CASE s \in K /\ s \notin out
    BY <1>11, <2>7
  <2>8. CASE s \in K /\ s \in out
    <3>1. Cardinality(K) >= MaxSessions /\ s \in Oldest(kept)
      BY <1>21, <2>8
    <3>2. \A u \in K : born[s] <= born[u]
      <4>1. \A u \in K : kept[s].created <= kept[u].created
        BY <1>5, <3>1 DEF Oldest
      <4>2. \A u \in K : kept[u].created = born[u]
        BY <1>7 DEF AuthInv
      <4> QED
        BY <2>8, <4>1, <4>2
    <3>3. PICK M : M = K \ {s}
      OBVIOUS
    <3>4. IsFiniteSet(M) /\ Cardinality(M) = Cardinality(K) - 1
      BY <1>20, <2>8, <3>3, FS_RemoveElement
    <3>5. L + 1 \notin M
      BY <1>7, <1>12, <3>3
    <3>6. Cardinality(M \cup {L + 1}) = Cardinality(K)
      <4>1. Cardinality(M \cup {L + 1}) = Cardinality(M) + 1
        BY <3>4, <3>5, FS_AddElement
      <4> QED
        BY <1>20, <3>4, <4>1
    <3>7. M \cup {L + 1} \in SUBSET E
      <4>1. \A u \in M : u \in 1..L /\ u # s /\ born[u] >= born[s]
        BY <1>7, <1>8, <3>2, <3>3
      <4>2. \A u \in M : u \in E
        BY <1>8, <1>12, <2>2, <4>1
      <4>3. L + 1 > s /\ L + 1 # s
        BY <1>1
      <4>4. L + 1 \in E
        BY <1>12, <2>2, <4>3
      <4> QED
        BY <4>2, <4>4
    <3>8. Cardinality(K) <= Cardinality(E)
      BY <2>4, <3>6, <3>7, FS_Subset
    <3> QED
      BY <1>1, <1>20, <2>1, <2>4, <3>1, <3>8
  <2>9. s \in DOMAIN sessions \/ s \in loggedOut \/ now > born[s] + Ttl \/ Cardinality(D) >= MaxSessions
    BY <1>1, <2>1 DEF AuthInv, SessionTableSound, NoneLostEarly, Displacing
  <2> QED
    BY <2>5, <2>6, <2>7, <2>8, <2>9
<1>25. NoneLostEarly'
  <2>1. ASSUME NEW s \in 1..(L + 1)
        PROVE  \/ s \in DOMAIN sessions' \/ s \in loggedOut' \/ now' > born'[s] + Ttl
               \/ Cardinality(Displacing(s)') >= MaxSessions
    <3>1. CASE s = L + 1
      BY <1>11, <3>1
    <3>2. CASE s \in 1..L
      BY <1>8, <1>15, <1>24, <3>2
    <3>3. s = L + 1 \/ s \in 1..L
      BY <1>1
    <3> QED
      BY <3>1, <3>2, <3>3
  <2> QED
    BY <1>8, <2>1 DEF NoneLostEarly, Displacing
<1> QED
  BY <1>1, <1>8, <1>13, <1>14, <1>15, <1>16, <1>17, <1>19, <1>22, <1>23, <1>25
     DEF AuthInv, SessionTableSound

-----------------------------------------------------------------------------
(* The other steps                                                         *)

\* A limited request goes on or ends.
LEMMA AllowMoves ==
  ASSUME NEW r, NEW key, NEW max, NEW next, Allow(r, key, max, next)
  PROVE  \E q \in {next, Done} : req' = [req EXCEPT ![r] = q]
  BY DEF Allow

\* getSession deletes a session that has expired.
LEMMA GetSessionInv ==
  ASSUME AuthInv, NEW r \in Requests, NEW s, NEW q, req' = [req EXCEPT ![r] = q],
         RequestSound(q, Len(born)), sessions' = AfterGetSession(s),
         UNCHANGED <<now, born, loggedOut>>
  PROVE  AuthInv'
<1>1. CASE s \in DOMAIN sessions /\ now > sessions[s].expires
  <2>1. PICK gone : gone = {s}
    OBVIOUS
  <2>2. sessions' = Restrict(sessions, DOMAIN sessions \ gone)
    BY <1>1, <2>1 DEF AfterGetSession
  <2>3. loggedOut' \subseteq 1..Len(born) /\ \A u \in gone : now > sessions[u].expires
    BY <1>1, <2>1 DEF AuthInv
  <2> QED
    BY <2>2, <2>3, SessionsGo
<1>2. CASE ~(s \in DOMAIN sessions /\ now > sessions[s].expires)
  BY <1>2, RequestMoved DEF AfterGetSession
<1> QED
  BY <1>1, <1>2

\* Every step of the boundary keeps the invariant of the sessions.
LEMMA AuthStepInv ==
  ASSUME AuthInv, NEW r \in Requests, AuthStep(r)
  PROVE  AuthInv'
<1>1. Len(born) \in Nat /\ now \in Nat
  BY DEF AuthInv
<1>2. CASE Login(r)
  <2>1. PICK ip \in Ips, sound \in BOOLEAN :
          Allow(r, <<"login", ip>>, LoginRate, IF sound THEN [pc |-> "issue", from |-> now] ELSE Done)
    BY <1>2 DEF Login
  <2>2. PICK issue : issue = [pc |-> "issue", from |-> now]
    OBVIOUS
  <2>3. issue.pc = "issue" /\ issue.from \in Nat
    BY <1>1, <2>2
  <2>4. RequestSound(issue, Len(born)) /\ RequestSound(Done, Len(born))
    BY <1>1, <2>3, RestRequest DEF RequestSound
  <2>5. PICK next \in {issue, Done} : next = IF sound THEN [pc |-> "issue", from |-> now] ELSE Done
    BY <2>2
  <2>6. PICK q \in {next, Done} : req' = [req EXCEPT ![r] = q]
    BY <2>1, <2>5, AllowMoves
  <2> QED
    BY <1>2, <2>4, <2>5, <2>6, RequestMoved DEF Login
<1>3. CASE Issue(r)
  BY <1>3, IssueInv
<1>4. CASE GuardBearer(r)
  <2>1. PICK kind \in mix \ {"login"}, token \in Tokens \cup {"unknown"}, s \in 0..Len(born) :
          req' = [req EXCEPT ![r] =
                    IF token = "unknown" \/ (token = "webhook" /\ kind # "alert") THEN Done
                    ELSE LetIn(kind, <<token>>, s)]
    BY <1>4 DEF GuardBearer
  <2>2. PICK q : q = IF token = "unknown" \/ (token = "webhook" /\ kind # "alert") THEN Done
                     ELSE LetIn(kind, <<token>>, s)
    OBVIOUS
  <2>3. RequestSound(q, Len(born))
    <3>1. PICK n \in Nat : n = Len(born) /\ s \in 0..n
      BY <1>1
    <3>2. PICK who : who = <<token>>
      OBVIOUS
    <3>3. RequestSound(LetIn(kind, who, s), n) /\ RequestSound(Done, n)
      BY LetInSound, RestRequest, <3>1
    <3> QED
      BY <2>2, <3>1, <3>2, <3>3
  <2> QED
    BY <1>4, <2>1, <2>2, <2>3, RequestMoved DEF GuardBearer
<1>5. CASE GuardCookie(r)
  <2>1. PICK kind \in mix \ {"login"}, s \in 0..Len(born), sound \in BOOLEAN :
          /\ sessions' = AfterGetSession(s)
          /\ req' = [req EXCEPT ![r] = IF HasSession(s) /\ sound THEN LetIn(kind, <<"session", s>>, s)
                                       ELSE Done]
    BY <1>5 DEF GuardCookie
  <2>2. PICK q : q = IF HasSession(s) /\ sound THEN LetIn(kind, <<"session", s>>, s) ELSE Done
    OBVIOUS
  <2>3. RequestSound(q, Len(born))
    <3>1. PICK n \in Nat : n = Len(born) /\ s \in 0..n
      BY <1>1
    <3>2. PICK who : who = <<"session", s>>
      OBVIOUS
    <3>3. RequestSound(LetIn(kind, who, s), n) /\ RequestSound(Done, n)
      BY LetInSound, RestRequest, <3>1
    <3> QED
      BY <2>2, <3>1, <3>2, <3>3
  <2> QED
    BY <1>5, <2>1, <2>2, <2>3, GetSessionInv DEF GuardCookie
<1>6. CASE Limit(r)
  <2>1. PICK next : next = [req[r] EXCEPT !.pc = "handle"]
    OBVIOUS
  <2>2. PICK q \in {next, Done} : req' = [req EXCEPT ![r] = q]
    BY <1>6, <2>1, AllowMoves DEF Limit
  <2>3. req[r].pc = "limit" /\ RequestSound(req[r], Len(born))
    BY <1>6 DEF Limit, AuthInv
  <2>4. next.pc = "handle" /\ next.cookie = req[r].cookie /\ {"pc", "cookie"} \subseteq DOMAIN next
    BY <2>1, <2>3 DEF RequestSound
  <2>5. RequestSound(next, Len(born))
    BY <2>3, <2>4 DEF RequestSound
  <2>6. RequestSound(Done, Len(born))
    BY <1>1, RestRequest
  <2> QED
    BY <1>6, <2>2, <2>5, <2>6, RequestMoved DEF Limit
<1>7. CASE Current(r)
  <2>1. PICK s, q : s = req[r].cookie /\ q = Done
    OBVIOUS
  <2>2. RequestSound(q, Len(born))
    BY <1>1, <2>1, RestRequest
  <2> QED
    BY <1>7, <2>1, <2>2, GetSessionInv DEF Current
<1>8. CASE Logout(r)
  <2>1. PICK s, q : s = req[r].cookie /\ q = Done
    OBVIOUS
  <2>2. RequestSound(q, Len(born))
    BY <1>1, <2>1, RestRequest
  <2>3. s \in 0..Len(born)
    BY <1>8, <2>1 DEF Logout, AuthInv, RequestSound
  <2>4. PICK gone : gone = {s}
    OBVIOUS
  <2>5. /\ sessions' = Restrict(sessions, DOMAIN sessions \ gone)
        /\ loggedOut' = loggedOut \cup ({s} \ {0}) /\ req' = [req EXCEPT ![r] = q]
        /\ UNCHANGED <<now, born>>
    BY <1>8, <2>1, <2>4 DEF Logout
  <2>6. loggedOut \subseteq loggedOut' /\ loggedOut' \subseteq 1..Len(born)
    <3>1. s = 0 \/ s \in 1..Len(born)
      BY <1>1, <2>3
    <3> QED
      BY <2>5, <3>1 DEF AuthInv
  <2>7. \A u \in gone : u \in DOMAIN sessions => u \in loggedOut'
    <3>1. 0 \notin DOMAIN sessions
      BY <1>1 DEF AuthInv
    <3> QED
      BY <2>4, <2>5, <3>1
  <2>8. \A u \in loggedOut' : u \in loggedOut \/ u \in gone
    BY <2>4, <2>5
  <2> QED
    BY <2>2, <2>5, <2>6, <2>7, <2>8, SessionsGo
<1>9. CASE Serve(r)
  <2>1. PICK q : q = Done
    OBVIOUS
  <2>2. RequestSound(q, Len(born))
    BY <1>1, <2>1, RestRequest
  <2> QED
    BY <1>9, <2>1, <2>2, RequestMoved DEF Serve
<1> QED
  BY <1>2, <1>3, <1>4, <1>5, <1>6, <1>7, <1>8, <1>9 DEF AuthStep

-----------------------------------------------------------------------------
(* The rate limit                                                          *)

IsKey(k) == k[1] \in {"login", "read", "runs"}
GrantsOf(k) == {g \in grants : g[1] = k}
Since(k, t) == {g \in grants : g[1] = k /\ g[2] >= t}
Until(k, t) == {g \in grants : g[1] = k /\ g[2] < t}

\* The key has a window that is not over.
Open(k) == k \in DOMAIN limits /\ now - limits[k].start < Minute

\* A request of this key was let through at this instant.
Begun(k, t) == \E g \in grants : g[1] = k /\ g[2] = t

\* The grants of an open window were counted in it, the one that began it among them, and
\* those of the window before are fewer than the rate, since the one that began it is more
\* than a minute ago; a key without an open window has such grants only.
KeySound(k) ==
  IF Open(k)
  THEN /\ Cardinality(Since(k, limits[k].start)) <= limits[k].count
       /\ Cardinality(Since(k, limits[k].start)) <= RateOf(k)
       /\ Cardinality(Until(k, limits[k].start)) < RateOf(k)
       /\ Begun(k, limits[k].start)
  ELSE /\ Cardinality(GrantsOf(k)) < RateOf(k)
       /\ \A g \in GrantsOf(k) : g[2] < now

Window == [start : Nat, count : Nat]

LimitInv ==
  /\ now \in Nat
  /\ IsFiniteSet(grants)
  /\ \A g \in grants : IsKey(g[1]) /\ g[2] \in Nat /\ g[2] <= now
  /\ \A k \in DOMAIN limits : limits[k] \in Window /\ limits[k].start <= now
  /\ \A k : IsKey(k) => KeySound(k)

\* The rate of a key.
LEMMA RateIsPositive ==
  ASSUME NEW k, IsKey(k)
  PROVE  RateOf(k) \in Nat /\ RateOf(k) >= 1
<1>1. /\ LoginRate \in Nat /\ LoginRate >= 1 /\ ReadRate \in Nat /\ ReadRate >= 1
      /\ RunsRate \in Nat /\ RunsRate >= 1
  BY AuthAssumption
<1> QED
  BY <1>1 DEF IsKey, RateOf

\* Fewer grants are not more.
LEMMA FewerGrants ==
  ASSUME NEW A, IsFiniteSet(A), NEW B \in SUBSET A
  PROVE  /\ Cardinality(B) <= Cardinality(A) /\ Cardinality(B) \in Nat
         /\ Cardinality(A) \in Nat /\ IsFiniteSet(B)
  BY FS_Subset, FS_CardinalityType

\* The grants of a key are finitely many.
LEMMA GrantsFinite ==
  ASSUME LimitInv, NEW k, NEW t
  PROVE  /\ IsFiniteSet(GrantsOf(k)) /\ Cardinality(GrantsOf(k)) \in Nat
         /\ IsFiniteSet(Since(k, t)) /\ Cardinality(Since(k, t)) \in Nat
         /\ IsFiniteSet(Until(k, t)) /\ Cardinality(Until(k, t)) \in Nat
<1>1. PICK G : G = grants /\ IsFiniteSet(G)
  BY DEF LimitInv
<1>2. GrantsOf(k) \in SUBSET G /\ Since(k, t) \in SUBSET G /\ Until(k, t) \in SUBSET G
  BY <1>1 DEF GrantsOf, Since, Until
<1>3. PICK A \in SUBSET G, B \in SUBSET G, C \in SUBSET G :
        A = GrantsOf(k) /\ B = Since(k, t) /\ C = Until(k, t)
  BY <1>2
<1> QED
  BY <1>1, <1>3, FewerGrants

\* Over a minute a key has the grants of at most two windows.
LEMMA LimitBounds ==
  ASSUME LimitInv
  PROVE  RateBounded
<1> SUFFICES ASSUME NEW h \in grants, NEW k, k = h[1]
             PROVE  Cardinality(GrantsOf(k)) < 2 * RateOf(k)
  BY DEF RateBounded, GrantsOf
<1>1. IsKey(k) /\ KeySound(k)
  BY DEF LimitInv
<1>2. PICK n \in Nat : n = RateOf(k)
  BY <1>1, RateIsPositive
<1>3. CASE Open(k)
  <2>1. PICK t : t = limits[k].start
    OBVIOUS
  <2>2. PICK A, B : A = Since(k, t) /\ B = Until(k, t)
    OBVIOUS
  <2>3. /\ IsFiniteSet(A) /\ Cardinality(A) \in Nat /\ IsFiniteSet(B) /\ Cardinality(B) \in Nat
        /\ Cardinality(A) <= n /\ Cardinality(B) < n
    BY <1>1, <1>2, <1>3, <2>1, <2>2, GrantsFinite DEF KeySound
  <2>4. t \in Nat /\ \A g \in grants : g[2] \in Nat
    BY <1>3, <2>1 DEF LimitInv, Open, Window
  <2>5. GrantsOf(k) = A \cup B
    BY <2>2, <2>4 DEF GrantsOf, Since, Until
  <2>6. /\ Cardinality(A \cup B) = Cardinality(A) + Cardinality(B) - Cardinality(A \cap B)
        /\ Cardinality(A \cap B) \in Nat
    <3>1. Cardinality(A \cup B) = Cardinality(A) + Cardinality(B) - Cardinality(A \cap B)
      BY <2>3, FS_Union
    <3>2. A \cap B \in SUBSET A
      OBVIOUS
    <3>3. Cardinality(A \cap B) \in Nat
      BY <2>3, <3>2, FewerGrants
    <3> QED
      BY <3>1, <3>3
  <2>7. Cardinality(A \cup B) < 2 * n
    BY <2>3, <2>6
  <2> QED
    BY <1>2, <2>5, <2>7
<1>4. CASE ~Open(k)
  <2>1. Cardinality(GrantsOf(k)) < n /\ Cardinality(GrantsOf(k)) \in Nat
    BY <1>1, <1>2, <1>4, GrantsFinite DEF KeySound
  <2>2. Cardinality(GrantsOf(k)) < 2 * n
    BY <2>1
  <2> QED
    BY <1>2, <2>2
<1> QED
  BY <1>3, <1>4

\* The clock closes windows and forgets the grants before them.
LEMMA TickLimits ==
  ASSUME LimitInv, Tick
  PROVE  LimitInv'
<1>1. /\ now' = now + 1 /\ grants' = {g \in grants : now' - g[2] < Minute} /\ UNCHANGED limits
      /\ now \in Nat /\ now' \in Nat /\ Minute \in Nat
  BY AuthAssumption DEF Tick, LimitInv
<1>2. IsFiniteSet(grants')
  <2>1. PICK G, H : G = grants /\ H = grants' /\ IsFiniteSet(G)
    BY DEF LimitInv
  <2>2. H \in SUBSET G
    BY <1>1, <2>1
  <2> QED
    BY <2>1, <2>2, FewerGrants
<1>3. \A g \in grants' : g \in grants /\ IsKey(g[1]) /\ g[2] \in Nat /\ g[2] <= now /\ g[2] <= now'
                           /\ g[2] < now'
  <2>1. \A g \in grants : IsKey(g[1]) /\ g[2] \in Nat /\ g[2] <= now
    BY DEF LimitInv
  <2> QED
    BY <1>1, <2>1
<1>4. ASSUME NEW k, IsKey(k) PROVE KeySound(k)'
  <2>1. PICK n \in Nat : n = RateOf(k)
    BY <1>4, RateIsPositive
  <2>2. KeySound(k)
    BY <1>4 DEF LimitInv
  <2>3. CASE Open(k)'
    <3>1. PICK t \in Nat : t = limits[k].start
      BY <1>1, <2>3 DEF Open, LimitInv, Window
    <3>2. Open(k)
      BY <1>1, <2>3, <3>1 DEF Open
    <3>3. PICK A, B, C, D : /\ A = Since(k, t) /\ B = Until(k, t)
                            /\ C = Since(k, t)' /\ D = Until(k, t)'
      OBVIOUS
    <3>4. C \in SUBSET A /\ D \in SUBSET B
      BY <1>1, <3>3 DEF Since, Until
    <3>5. IsFiniteSet(A) /\ IsFiniteSet(B)
      BY <3>3, GrantsFinite
    <3>6. /\ Cardinality(A) <= limits[k].count /\ Cardinality(A) <= n /\ Cardinality(B) < n
          /\ Begun(k, t)
      BY <2>1, <2>2, <3>1, <3>2, <3>3 DEF KeySound
    <3>7. PICK c \in Nat : c = limits[k].count
      BY <3>2 DEF LimitInv, Open, Window
    <3>8. /\ Cardinality(C) <= Cardinality(A) /\ Cardinality(D) <= Cardinality(B)
          /\ Cardinality(A) \in Nat /\ Cardinality(B) \in Nat
          /\ Cardinality(C) \in Nat /\ Cardinality(D) \in Nat
      BY <3>4, <3>5, FewerGrants
    <3>9. Cardinality(C) <= c /\ Cardinality(C) <= n /\ Cardinality(D) < n
      BY <3>6, <3>7, <3>8
    <3>10. limits'[k].start = t /\ limits'[k].count = c
      BY <1>1, <3>1, <3>7
    <3>11. Cardinality(Since(k, limits[k].start)') <= c /\ Cardinality(Since(k, limits[k].start)') <= n
           /\ Cardinality(Until(k, limits[k].start)') < n
      <4>1. Since(k, limits[k].start)' = C /\ Until(k, limits[k].start)' = D
        BY <3>3, <3>10 DEF Since, Until
      <4> QED
        BY <3>9, <4>1
    <3>12. Begun(k, limits[k].start)'
      <4>1. now' - t < Minute
        BY <1>1, <2>3, <3>1 DEF Open
      <4> QED
        BY <1>1, <3>6, <3>10, <4>1 DEF Begun
    <3> QED
      BY <2>1, <2>3, <3>10, <3>11, <3>12 DEF KeySound, RateOf
  <2>4. CASE ~Open(k)'
    <3>1. PICK C : C = GrantsOf(k)'
      OBVIOUS
    <3>2. \A g \in C : g[2] < now' /\ g \in grants /\ g[1] = k
      BY <1>3, <3>1 DEF GrantsOf
    <3>3. Cardinality(C) < n
      <4>1. CASE Open(k)
        <5>1. PICK t \in Nat : t = limits[k].start
          BY <4>1 DEF Open, LimitInv, Window
        <5>2. ~(now' - t < Minute)
          BY <1>1, <2>4, <4>1, <5>1 DEF Open
        <5>3. \A g \in grants' : now' - g[2] < Minute /\ g[2] \in Nat
          BY <1>1, <1>3
        <5>4. \A g \in grants' : g[2] >= t
          BY <1>1, <5>2, <5>3
        <5>5. PICK A : A = Since(k, t)
          OBVIOUS
        <5>6. IsFiniteSet(A) /\ Cardinality(A) \in Nat /\ Cardinality(A) <= n
          BY <2>1, <2>2, <4>1, <5>1, <5>5, GrantsFinite DEF KeySound
        <5>7. PICK h \in A : h[2] = t
          <6>1. Begun(k, t)
            BY <2>2, <4>1, <5>1 DEF KeySound
          <6>2. PICK h \in grants : h[1] = k /\ h[2] = t
            BY <6>1 DEF Begun
          <6>3. h \in A
            BY <5>5, <6>2 DEF Since
          <6> QED
            BY <6>2, <6>3
        <5>8. h \notin C
          BY <3>1, <5>2, <5>3, <5>7 DEF GrantsOf
        <5>9. C \in SUBSET (A \ {h})
          BY <3>1, <3>2, <5>4, <5>5, <5>8 DEF Since, GrantsOf
        <5>10. IsFiniteSet(A \ {h}) /\ Cardinality(A \ {h}) = Cardinality(A) - 1
          BY <5>6, <5>7, FS_RemoveElement
        <5>11. Cardinality(C) <= Cardinality(A \ {h}) /\ Cardinality(C) \in Nat
          BY <5>9, <5>10, FewerGrants
        <5> QED
          BY <5>6, <5>10, <5>11
      <4>2. CASE ~Open(k)
        <5>1. PICK A : A = GrantsOf(k)
          OBVIOUS
        <5>2. C \in SUBSET A
          BY <3>2, <5>1 DEF GrantsOf
        <5>3. IsFiniteSet(A) /\ Cardinality(A) < n
          BY <2>1, <2>2, <4>2, <5>1, GrantsFinite DEF KeySound
        <5>4. Cardinality(C) <= Cardinality(A) /\ Cardinality(C) \in Nat /\ Cardinality(A) \in Nat
          BY <5>2, <5>3, FewerGrants
        <5> QED
          BY <5>3, <5>4
      <4> QED
        BY <4>1, <4>2
    <3> QED
      BY <2>1, <2>4, <3>1, <3>2, <3>3 DEF KeySound, RateOf
  <2> QED
    BY <2>3, <2>4
<1>5. \A k \in DOMAIN limits' : limits'[k] \in Window /\ limits'[k].start <= now'
  <2>1. \A k \in DOMAIN limits : limits[k] \in Window /\ limits[k].start \in Nat /\ limits[k].start <= now
    BY DEF LimitInv, Window
  <2> QED
    BY <1>1, <2>1
<1>6. (\A k : IsKey(k) => KeySound(k))'
  BY <1>4 DEF IsKey
<1>7. (\A g \in grants : IsKey(g[1]) /\ g[2] \in Nat /\ g[2] <= now)'
  BY <1>3 DEF IsKey
<1> QED
  BY <1>1, <1>2, <1>5, <1>6, <1>7 DEF LimitInv

\* A key that a step leaves alone is as sound as before.
LEMMA KeyKept ==
  ASSUME NEW k, KeySound(k), UNCHANGED now, Open(k)' <=> Open(k),
         Open(k) => limits'[k] = limits[k], GrantsOf(k)' = GrantsOf(k)
  PROVE  KeySound(k)'
<1>1. \A t : Since(k, t)' = Since(k, t) /\ Until(k, t)' = Until(k, t)
  <2>1. \A g : (g \in grants' /\ g[1] = k) <=> (g \in grants /\ g[1] = k)
    BY DEF GrantsOf
  <2> QED
    BY <2>1 DEF Since, Until
<1>2. CASE Open(k)
  <2>1. PICK t, c : t = limits[k].start /\ c = limits[k].count
    OBVIOUS
  <2>2. limits'[k].start = t /\ limits'[k].count = c
    BY <1>2, <2>1
  <2>3. /\ Cardinality(Since(k, t)) <= c /\ Cardinality(Since(k, t)) <= RateOf(k)
        /\ Cardinality(Until(k, t)) < RateOf(k) /\ Begun(k, t)
    BY <1>2, <2>1 DEF KeySound
  <2>4. Since(k, limits[k].start)' = Since(k, t) /\ Until(k, limits[k].start)' = Until(k, t)
    <3>1. Since(k, t)' = Since(k, t) /\ Until(k, t)' = Until(k, t)
      BY <1>1
    <3>2. Since(k, limits[k].start)' = Since(k, t)' /\ Until(k, limits[k].start)' = Until(k, t)'
      BY <2>2 DEF Since, Until
    <3> QED
      BY <3>1, <3>2
  <2>5. Begun(k, limits[k].start)'
    BY <2>2, <2>3 DEF Begun, GrantsOf
  <2> QED
    BY <1>2, <2>2, <2>3, <2>4, <2>5 DEF KeySound, RateOf
<1>3. CASE ~Open(k)
  BY <1>3 DEF KeySound, RateOf
<1> QED
  BY <1>2, <1>3

\* One more grant is at most one more.
LEMMA OneMoreGrant ==
  ASSUME NEW A, IsFiniteSet(A), NEW g, NEW B \in SUBSET (A \cup {g})
  PROVE  Cardinality(B) <= Cardinality(A) + 1 /\ Cardinality(B) \in Nat /\ Cardinality(A) \in Nat
<1>1. PICK C : C = A \cup {g}
  OBVIOUS
<1>2. /\ IsFiniteSet(C) /\ Cardinality(A) \in Nat
      /\ (Cardinality(C) = Cardinality(A) \/ Cardinality(C) = Cardinality(A) + 1)
  BY <1>1, FS_AddElement, FS_CardinalityType
<1>3. Cardinality(B) <= Cardinality(C) /\ Cardinality(B) \in Nat /\ Cardinality(C) \in Nat
  BY <1>1, <1>2, FewerGrants
<1> QED
  BY <1>2, <1>3

\* allow counts a request in its window before it lets it through.
LEMMA AllowLimits ==
  ASSUME LimitInv, NEW r, NEW key, IsKey(key), NEW next, Allow(r, key, RateOf(key), next),
         UNCHANGED now
  PROVE  LimitInv'
<1>1. PICK n \in Nat : n = RateOf(key) /\ n >= 1
  BY RateIsPositive
<1>2. PICK g : g = <<key, now, r>>
  OBVIOUS
<1>3. g[1] = key /\ g[2] = now
  BY <1>2
<1>4. /\ now \in Nat /\ Minute \in Nat /\ Minute >= 1
      /\ \A k \in DOMAIN limits : limits[k] \in Window /\ limits[k].start <= now
      /\ \A h \in grants : IsKey(h[1]) /\ h[2] \in Nat /\ h[2] <= now
      /\ IsFiniteSet(grants) /\ KeySound(key)
  BY AuthAssumption DEF LimitInv
<1>5. PICK W : W = OpenWindows
  OBVIOUS
<1>6. DOMAIN W = {k \in DOMAIN limits : Open(k)} /\ \A k \in DOMAIN W : W[k] = limits[k]
  BY <1>5 DEF OpenWindows, Restrict, Open
<1>7. PICK w : w = Counted(key)
  OBVIOUS
<1>8. CASE TableFull(key)
  <2>1. limits' = W /\ grants' = grants
    BY <1>5, <1>8 DEF Allow, Allowed
  <2>2. \A k \in DOMAIN limits' : limits'[k] \in Window /\ limits'[k].start <= now'
    BY <1>4, <1>6, <2>1
  <2>3. ASSUME NEW k, IsKey(k) PROVE KeySound(k)'
    <3>1. KeySound(k)
      BY <2>3 DEF LimitInv
    <3>2. Open(k)' <=> Open(k)
      BY <1>6, <2>1 DEF Open
    <3>3. Open(k) => limits'[k] = limits[k]
      BY <1>6, <2>1 DEF Open
    <3>4. GrantsOf(k)' = GrantsOf(k)
      BY <2>1 DEF GrantsOf
    <3> QED
      BY <3>1, <3>2, <3>3, <3>4, KeyKept
  <2>4. (\A k : IsKey(k) => KeySound(k))'
    BY <2>3 DEF IsKey
  <2>5. (\A h \in grants : IsKey(h[1]) /\ h[2] \in Nat /\ h[2] <= now)'
    BY <1>4, <2>1 DEF IsKey
  <2> QED
    BY <1>4, <2>1, <2>2, <2>4, <2>5 DEF LimitInv
<1>9. CASE ~TableFull(key)
  <2>1. limits' = With(W, key, w)
    BY <1>5, <1>7, <1>9 DEF Allow
  <2>2. /\ DOMAIN limits' = DOMAIN W \cup {key} /\ limits'[key] = w
        /\ \A k \in DOMAIN W : k # key => limits'[k] = limits[k]
    BY <1>6, <2>1 DEF With
  <2>3. \/ grants' = grants \cup {g} /\ w.count <= n
        \/ grants' = grants /\ ~(w.count <= n)
    BY <1>1, <1>2, <1>7, <1>9 DEF Allow, Allowed
  <2>4. /\ w \in Window /\ w.start <= now /\ now - w.start < Minute
        /\ Open(key) => w.start = limits[key].start /\ w.count = limits[key].count + 1
        /\ ~Open(key) => w.start = now /\ w.count = 1
    <3>1. CASE Open(key)
      <4>1. key \in DOMAIN W /\ W[key] = limits[key]
        BY <1>6, <3>1 DEF Open
      <4>2. w = [W[key] EXCEPT !.count = @ + 1]
        BY <1>5, <1>7, <4>1 DEF Counted
      <4>3. PICK o \in Window : o = limits[key] /\ o.start <= now /\ now - o.start < Minute
        BY <1>4, <3>1 DEF Open
      <4>4. w = [o EXCEPT !.count = o.count + 1]
        BY <4>1, <4>2, <4>3
      <4>5. w \in Window /\ w.start = o.start /\ w.count = o.count + 1
        BY <4>3, <4>4 DEF Window
      <4> QED
        BY <3>1, <4>3, <4>5
    <3>2. CASE ~Open(key)
      <4>1. key \notin DOMAIN W
        BY <1>6, <3>2
      <4>2. w = [start |-> now, count |-> 1]
        BY <1>5, <1>7, <4>1 DEF Counted
      <4> QED
        BY <1>4, <3>2, <4>2 DEF Window
    <3> QED
      BY <3>1, <3>2
  <2>5. \A k \in DOMAIN limits' : limits'[k] \in Window /\ limits'[k].start <= now'
    BY <1>4, <1>6, <2>2, <2>4
  <2>6. ASSUME NEW k, IsKey(k), k # key PROVE KeySound(k)'
    <3>1. KeySound(k)
      BY <2>6 DEF LimitInv
    <3>2. Open(k)' <=> Open(k)
      BY <1>6, <2>2, <2>6 DEF Open
    <3>3. Open(k) => limits'[k] = limits[k]
      BY <1>6, <2>2, <2>6 DEF Open
    <3>4. GrantsOf(k)' = GrantsOf(k)
      BY <1>3, <2>3, <2>6 DEF GrantsOf
    <3> QED
      BY <3>1, <3>2, <3>3, <3>4, KeyKept
  <2>7. PICK t \in Nat, c \in Nat : t = w.start /\ c = w.count
    BY <2>4 DEF Window
  <2>8. PICK A, B, C, D : /\ A = Since(key, t) /\ B = Until(key, t)
                          /\ C = Since(key, t)' /\ D = Until(key, t)'
    OBVIOUS
  <2>9. /\ IsFiniteSet(A) /\ Cardinality(A) \in Nat /\ IsFiniteSet(B) /\ Cardinality(B) \in Nat
    BY <2>8, GrantsFinite
  <2>10. t <= now
    BY <2>4, <2>7
  <2>11. D = B
    BY <1>3, <1>4, <2>3, <2>8, <2>10 DEF Until
  <2>12. Cardinality(A) + 1 <= c /\ Cardinality(B) < n /\ Cardinality(A) <= n
    <3>1. CASE Open(key)
      <4>1. limits[key].start = t /\ limits[key].count + 1 = c /\ limits[key].count \in Nat
        BY <1>4, <2>4, <2>7, <3>1 DEF Open, Window
      <4>2. Cardinality(A) <= limits[key].count /\ Cardinality(A) <= n /\ Cardinality(B) < n
        BY <1>1, <1>4, <2>8, <3>1, <4>1 DEF KeySound
      <4> QED
        BY <2>9, <4>1, <4>2
    <3>2. CASE ~Open(key)
      <4>1. t = now /\ c = 1
        BY <2>4, <2>7, <3>2
      <4>2. Cardinality(GrantsOf(key)) < n /\ \A h \in GrantsOf(key) : h[2] < now
        BY <1>1, <1>4, <3>2 DEF KeySound
      <4>3. A = {}
        <5>1. \A h \in A : h \in GrantsOf(key) /\ h[2] >= now /\ h[2] \in Nat
          BY <1>4, <2>8, <4>1 DEF Since, GrantsOf
        <5> QED
          BY <1>4, <4>2, <5>1
      <4>4. B = GrantsOf(key)
        BY <2>8, <4>1, <4>2 DEF Until, GrantsOf
      <4>5. Cardinality(A) = 0
        BY <4>3, FS_EmptySet
      <4> QED
        BY <1>1, <4>1, <4>2, <4>4, <4>5
    <3> QED
      BY <3>1, <3>2
  <2>13. Cardinality(C) <= c /\ Cardinality(C) <= n
    <3>1. CASE grants' = grants \cup {g} /\ w.count <= n
      <4>1. C \in SUBSET (A \cup {g})
        BY <2>8, <3>1 DEF Since
      <4>2. Cardinality(C) <= Cardinality(A) + 1 /\ Cardinality(C) \in Nat
        BY <2>9, <4>1, OneMoreGrant
      <4> QED
        BY <1>1, <2>7, <2>9, <2>12, <3>1, <4>2
    <3>2. CASE grants' = grants
      <4>1. C = A
        BY <2>8, <3>2 DEF Since
      <4> QED
        BY <1>1, <2>9, <2>12, <4>1
    <3> QED
      BY <2>3, <3>1, <3>2
  <2>14. KeySound(key)'
    <3>1. limits'[key].start = t /\ limits'[key].count = c
      BY <2>2, <2>7
    <3>2. Open(key)'
      BY <2>2, <2>4 DEF Open
    <3>3. Since(key, limits[key].start)' = C /\ Until(key, limits[key].start)' = D
      BY <2>8, <3>1 DEF Since, Until
    <3>4. Begun(key, limits[key].start)'
      <4>1. CASE Open(key)
        <5>1. Begun(key, t)
          BY <1>4, <2>4, <2>7, <4>1 DEF KeySound
        <5> QED
          BY <2>3, <3>1, <5>1 DEF Begun
      <4>2. CASE ~Open(key)
        <5>1. t = now /\ w.count <= n
          BY <1>1, <2>4, <2>7, <4>2
        <5>2. g \in grants'
          BY <2>3, <5>1
        <5> QED
          BY <1>3, <3>1, <5>1, <5>2 DEF Begun
      <4> QED
        BY <4>1, <4>2
    <3> QED
      BY <1>1, <2>11, <2>12, <2>13, <3>1, <3>2, <3>3, <3>4 DEF KeySound, RateOf
  <2>15. (\A k : IsKey(k) => KeySound(k))'
    BY <2>6, <2>14 DEF IsKey
  <2>16. (\A h \in grants : IsKey(h[1]) /\ h[2] \in Nat /\ h[2] <= now)'
    BY <1>3, <1>4, <2>3 DEF IsKey
  <2>17. IsFiniteSet(grants')
    <3>1. PICK G : G = grants /\ IsFiniteSet(G)
      BY <1>4
    <3>2. IsFiniteSet(G \cup {g})
      BY <3>1, FS_AddElement
    <3> QED
      BY <2>3, <3>1, <3>2
  <2> QED
    BY <1>4, <2>5, <2>15, <2>16, <2>17 DEF LimitInv
<1> QED
  BY <1>8, <1>9

\* A step that leaves the clock, the windows and the grants alone.
LEMMA LimitsKept ==
  ASSUME LimitInv, UNCHANGED <<now, limits, grants>>
  PROVE  LimitInv'
<1>1. ASSUME NEW k, IsKey(k) PROVE KeySound(k)'
  <2>1. KeySound(k)
    BY <1>1 DEF LimitInv
  <2>2. (Open(k)' <=> Open(k)) /\ (Open(k) => limits'[k] = limits[k]) /\ GrantsOf(k)' = GrantsOf(k)
    BY DEF Open, GrantsOf
  <2> QED
    BY <2>1, <2>2, KeyKept
<1>2. (\A k : IsKey(k) => KeySound(k))'
  BY <1>1 DEF IsKey
<1> QED
  BY <1>2 DEF LimitInv, IsKey

\* Only allow looks at the windows.
LEMMA AuthStepLimits ==
  ASSUME LimitInv, NEW r \in Requests, AuthStep(r)
  PROVE  LimitInv'
<1>1. CASE UNCHANGED <<now, limits, grants>>
  BY <1>1, LimitsKept
<1>2. CASE Login(r)
  <2>1. PICK ip, next : Allow(r, <<"login", ip>>, LoginRate, next)
    BY <1>2 DEF Login
  <2>2. PICK key : key = <<"login", ip>>
    OBVIOUS
  <2>3. IsKey(key) /\ RateOf(key) = LoginRate
    BY <2>2 DEF IsKey, RateOf
  <2> QED
    BY <1>2, <2>1, <2>2, <2>3, AllowLimits DEF Login
<1>3. CASE Limit(r)
  <2>1. PICK next : next = [req[r] EXCEPT !.pc = "handle"]
    OBVIOUS
  <2>2. CASE Allow(r, <<"runs", req[r].who>>, RunsRate, next)
    <3>1. PICK key : key = <<"runs", req[r].who>>
      OBVIOUS
    <3>2. IsKey(key) /\ RateOf(key) = RunsRate
      BY <3>1 DEF IsKey, RateOf
    <3> QED
      BY <1>3, <2>2, <3>1, <3>2, AllowLimits DEF Limit
  <2>3. CASE Allow(r, <<"read", req[r].who>>, ReadRate, next)
    <3>1. PICK key : key = <<"read", req[r].who>>
      OBVIOUS
    <3>2. IsKey(key) /\ RateOf(key) = ReadRate
      BY <3>1 DEF IsKey, RateOf
    <3> QED
      BY <1>3, <2>3, <3>1, <3>2, AllowLimits DEF Limit
  <2> QED
    BY <1>3, <2>1, <2>2, <2>3 DEF Limit
<1>4. CASE Issue(r) \/ GuardBearer(r) \/ GuardCookie(r)
  BY <1>1, <1>4 DEF Issue, GuardBearer, GuardCookie
<1>5. CASE Current(r) \/ Logout(r) \/ Serve(r)
  BY <1>1, <1>5 DEF Current, Logout, Serve
<1> QED
  BY <1>2, <1>3, <1>4, <1>5 DEF AuthStep

-----------------------------------------------------------------------------
(* Theorems                                                                *)

ConsoleInv == AuthInv /\ ChatInv /\ LimitInv

\* No request has come.
LEMMA InitInv == Init => ConsoleInv
<1> SUFFICES ASSUME Init PROVE ConsoleInv
  OBVIOUS
<1>1. ChatInv
  BY ChatInitInv DEF Init
<1>2. /\ now = 0 /\ sessions = <<>> /\ born = <<>> /\ loggedOut = {}
      /\ req = [r \in Requests |-> Idle]
  BY DEF Init, AuthInit
<1>3. DOMAIN sessions = {} /\ DOMAIN born = {} /\ born \in Seq(Nat) /\ now \in Nat
  BY <1>2
<1>4. \A r \in Requests : RequestSound(req[r], Len(born))
  BY <1>2, RestRequest
<1>5. SessionsBounded
  <2>1. Cardinality({}) = 0 /\ 0 <= MaxSessions
    BY FS_EmptySet, AuthAssumption
  <2> QED
    BY <1>3, <2>1 DEF SessionsBounded
<1>6. LogoutIsFinal /\ NoneLostEarly
  BY <1>2, <1>3 DEF LogoutIsFinal, NoneLostEarly
<1>7. AuthInv
  BY <1>2, <1>3, <1>4, <1>5, <1>6 DEF AuthInv, SessionTableSound
<1>8. LimitInv
  <2>1. grants = {} /\ DOMAIN limits = {}
    BY DEF Init, AuthInit
  <2>2. IsFiniteSet(grants)
    BY <2>1, FS_EmptySet
  <2>3. ASSUME NEW k, IsKey(k) PROVE KeySound(k)
    <3>1. ~Open(k) /\ GrantsOf(k) = {}
      BY <2>1 DEF Open, GrantsOf
    <3>2. Cardinality(GrantsOf(k)) = 0 /\ RateOf(k) \in Nat /\ RateOf(k) >= 1
      BY <2>3, <3>1, FS_EmptySet, RateIsPositive
    <3> QED
      BY <3>1, <3>2 DEF KeySound
  <2> QED
    BY <1>3, <2>1, <2>2, <2>3 DEF LimitInv
<1> QED
  BY <1>1, <1>7, <1>8 DEF ConsoleInv

\* The clock ends sessions, and undoes nothing.
LEMMA TickInv ==
  ASSUME AuthInv, Tick
  PROVE  AuthInv'
<1>1. now' = now + 1 /\ UNCHANGED <<sessions, req, born, loggedOut>> /\ now \in Nat
  BY DEF Tick, AuthInv
<1>2. NoneLostEarly'
  <2>1. \A s \in DOMAIN born : now > born[s] + Ttl => now' > born[s] + Ttl
    <3>1. Ttl \in Nat
      BY AuthAssumption
    <3>2. born \in Seq(Nat)
      BY DEF AuthInv
    <3>3. \A s \in DOMAIN born : born[s] + Ttl \in Nat
      BY <3>1, <3>2
    <3> QED
      BY <1>1, <3>3
  <2> QED
    BY <1>1, <2>1 DEF AuthInv, SessionTableSound, NoneLostEarly
<1>3. SessionsBounded' /\ LogoutIsFinal'
  BY <1>1 DEF AuthInv, SessionTableSound, SessionsBounded, LogoutIsFinal
<1>4. now' \in Nat
  BY <1>1
<1>5. (\A r \in Requests : RequestSound(req[r], Len(born)))'
  BY <1>1 DEF AuthInv, RequestSound
<1> QED
  BY <1>1, <1>2, <1>3, <1>4, <1>5 DEF AuthInv, SessionTableSound

\* Auth and Chat keep their invariants, together and by themselves.
LEMMA NextInv == ConsoleInv /\ [Next]_vars => ConsoleInv'
<1> SUFFICES ASSUME ConsoleInv, [Next]_vars PROVE ConsoleInv'
  OBVIOUS
<1>1. AuthInv /\ ChatInv /\ LimitInv
  BY DEF ConsoleInv
<1>2. UNCHANGED chatVars => ChatInv'
  <2> SUFFICES ASSUME UNCHANGED chatVars PROVE ChatInv'
    OBVIOUS
  <2>1. UNCHANGED <<history, order, turn>>
    BY DEF chatVars
  <2>2. TableSound'
    BY <1>1, <2>1 DEF ChatInv, TableSound, HistoriesAreBounded
  <2>3. (\A r \in Turns : TurnSound(r, turn[r]))'
    <3>1. \A r \in Turns : TurnSound(r, turn[r])
      BY <1>1 DEF ChatInv
    <3>2. \A r \in Turns : TurnSound(r, turn'[r])
      BY <2>1, <3>1
    <3> QED
      BY <3>2 DEF TurnSound
  <2> QED
    BY <1>1, <2>1, <2>2, <2>3 DEF ChatInv
<1>3. UNCHANGED authVars => AuthInv' /\ LimitInv'
  <2>1. UNCHANGED authVars => AuthInv'
    BY <1>1 DEF authVars, AuthInv, RequestSound, SessionTableSound, SessionsBounded, LogoutIsFinal,
                NoneLostEarly
  <2>2. UNCHANGED authVars => LimitInv'
    BY <1>1, LimitsKept DEF authVars
  <2> QED
    BY <2>1, <2>2
<1>4. CASE Tick /\ UNCHANGED chatVars
  BY <1>1, <1>2, <1>4, TickInv, TickLimits DEF ConsoleInv
<1>5. ASSUME NEW r \in Requests, AuthStep(r), UNCHANGED chatVars
      PROVE  ConsoleInv'
  BY <1>1, <1>2, <1>5, AuthStepInv, AuthStepLimits DEF ConsoleInv
<1>6. ASSUME NEW r \in Requests, HandleChat(r)
      PROVE  ConsoleInv'
  <2>1. r \in Turns /\ (ChatBegins(r) \/ ChatRefused(r))
    BY <1>6, ConsoleAssumption DEF HandleChat
  <2>2. ChatInv'
    BY <1>1, <2>1, BeginInv
  <2>3. PICK q \in {[pc |-> "chat"], Done} : req' = [req EXCEPT ![r] = q]
    BY <1>6 DEF HandleChat
  <2>4. RequestSound(q, Len(born))
    BY <2>3, RestRequest
  <2>5. AuthInv'
    BY <1>1, <1>6, <2>3, <2>4, RequestMoved DEF HandleChat
  <2>6. LimitInv'
    BY <1>1, <1>6, LimitsKept DEF HandleChat
  <2> QED
    BY <2>2, <2>5, <2>6 DEF ConsoleInv
<1>7. ASSUME NEW r \in Requests, ChatStep(r)
      PROVE  ConsoleInv'
  <2>1. r \in Turns
    BY ConsoleAssumption
  <2>2. CASE TurnStep(r) /\ UNCHANGED authVars
    BY <1>1, <1>3, <2>1, <2>2, TurnStepInv DEF ConsoleInv
  <2>3. CASE FinishChat(r)
    <3>1. ChatInv'
      BY <1>1, <2>1, <2>3, ReturnsInv DEF FinishChat
    <3>2. PICK q : q = Done
      OBVIOUS
    <3>3. RequestSound(q, Len(born))
      BY <3>2, RestRequest
    <3>4. AuthInv'
      BY <1>1, <2>3, <3>2, <3>3, RequestMoved DEF FinishChat
    <3>5. LimitInv'
      BY <1>1, <2>3, LimitsKept DEF FinishChat
    <3> QED
      BY <3>1, <3>4, <3>5 DEF ConsoleInv
  <2> QED
    BY <1>7, <2>2, <2>3 DEF ChatStep
<1>8. ASSUME NEW r \in Requests, ContextEnds(r), UNCHANGED authVars
      PROVE  ConsoleInv'
  BY <1>1, <1>3, <1>8, ConsoleAssumption, ContextInv DEF ConsoleInv
<1>9. CASE UNCHANGED vars
  <2>1. UNCHANGED authVars /\ UNCHANGED chatVars
    BY <1>9 DEF vars, authVars, chatVars
  <2> QED
    BY <1>2, <1>3, <2>1 DEF ConsoleInv
<1> QED
  BY <1>4, <1>5, <1>6, <1>7, <1>8, <1>9 DEF Next

\* What the boundary and the chat rest on holds in every behaviour.
THEOREM InvProved == Spec => []ConsoleInv
  BY InitInv, NextInv, PTL DEF Spec

\* The table of sessions is bounded, a logout is final, and nobody loses a session early,
\* for any number of overlapping logins, lookups and logouts.
THEOREM SessionsProved == Spec => []SessionTableSound
<1>1. ConsoleInv => SessionTableSound
  BY DEF ConsoleInv, AuthInv
<1> QED
  BY <1>1, InvProved, PTL

\* Over any stretch of a minute a key is let through less than twice its rate, whatever the
\* windows of the table do and however full it is.
THEOREM RateProved == Spec => []RateBounded
<1>1. ConsoleInv => RateBounded
  BY LimitBounds DEF ConsoleInv
<1> QED
  BY <1>1, InvProved, PTL

\* No turn sees a message of another, and no history outlives its turn.
THEOREM StatelessProved == Spec => []ChatsAreStateless
<1>1. ConsoleInv => ChatsAreStateless
  <2> SUFFICES ASSUME ConsoleInv PROVE ChatsAreStateless
    OBVIOUS
  <2>1. \A r \in Turns : ToSet(turn[r].hist) \subseteq {r}
    BY DEF ConsoleInv, ChatInv, TurnSound
  <2>2. \A s \in DOMAIN history : s \in Turns /\ Running(s)
    BY DEF ConsoleInv, ChatInv, TableSound, Running
  <2> QED
    BY <2>1, <2>2 DEF ChatsAreStateless
<1> QED
  BY <1>1, InvProved, PTL

\* The order of histories is bounded, has no session twice, and covers the table.
THEOREM HistoriesProved == Spec => []HistoriesAreBounded
<1>1. ConsoleInv => HistoriesAreBounded
  BY DEF ConsoleInv, ChatInv, TableSound
<1> QED
  BY <1>1, InvProved, PTL

\* An answer with status 200 cites qualified hits only and hides no failure.
THEOREM HonestProved == Spec => []AnswersAreHonest
<1>1. ConsoleInv => AnswersAreHonest
  <2> SUFFICES ASSUME ConsoleInv, NEW r \in Turns, turn[r].pc = "clear"
               PROVE  IF turn[r].status = "answer"
                      THEN turn[r].cites \subseteq Qualified /\ ~turn[r].failed
                      ELSE turn[r].cites = {}
    BY DEF AnswersAreHonest
  <2>1. TurnSound(r, turn[r])
    BY DEF ConsoleInv, ChatInv
  <2> QED
    BY <2>1 DEF TurnSound
<1> QED
  BY <1>1, InvProved, PTL

=============================================================================
