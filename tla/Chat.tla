--------------------------------- MODULE Chat ---------------------------------
(***************************************************************************)
(* The chat behind POST /chat: the handler (internal/handler/chat.go) and  *)
(* the ReAct loop with its table of session histories                      *)
(* (internal/agent/react.go, evidence.go).                                 *)
(*                                                                         *)
(* A turn is one request: it copies its session's history under ReAct.mu,  *)
(* talks to the model and to the tools without the lock, stores the new    *)
(* history under the lock, answers, and clears its session.  A message of  *)
(* a history is the number of the request it comes from.  A hit is a model *)
(* value; Qualified are the hits with complete source fields of a trusted  *)
(* kind that share words and environment with the question.                *)
(***************************************************************************)
EXTENDS Naturals, Sequences, FiniteSets, SequencesExt, Functions, Tables

CONSTANTS
  Turns,        \* numbers of the chat requests
  MaxRounds,    \* MaxRounds
  MaxHistories, \* MaxSessions of the agent
  HistoryCap,   \* messages kept of a history (20)
  Hits,         \* what a search may return
  Qualified     \* the hits qualifiedQuery accepts

ASSUME ChatAssumption ==
  /\ {MaxRounds, MaxHistories, HistoryCap} \subseteq Nat \ {0}
  /\ Qualified \subseteq Hits

VARIABLES
  history, \* ReAct.sessions
  order,   \* ReAct.order, the least recently used session first
  turn     \* local state of every chat request

chatVars == <<history, order, turn>>

\* A turn: the history it copied, the rounds and citations of the loop, its error, whether a tool
\* or a search has failed (history), whether the context of the request is still live, and the
\* status of the reply.
NoTurn == [pc |-> "none", hist |-> <<>>, round |-> 0, cites |-> {}, err |-> "none",
           failed |-> FALSE, live |-> TRUE, status |-> "none"]

ChatInit ==
  /\ history = <<>>
  /\ order = <<>>
  /\ turn = [r \in Turns |-> NoTurn]

Answered == [NoTurn EXCEPT !.pc = "done"]
Running(r) == turn[r].pc \notin {"none", "done"}

-----------------------------------------------------------------------------
(* The table of histories                                                  *)

\* Mutant: the session is the one the body names, the same for all requests of a client.
SessionOfBody(r) == 0

\* Every request has a session of its own, named by a nonce; the body's session_id is ignored.
SessionOf(r) == r

\* The order without the first occurrence of a session.
OrderWithout(s) ==
  LET at == SelectInSeq(order, LAMBDA x : x = s)
  IN IF at = 0 THEN order ELSE RemoveAt(order, at)

\* touchSessionLocked: session s becomes the most recent one.
MovedToEnd(s) == Append(OrderWithout(s), s)

\* Mutant: the order drops its oldest session, the table keeps the history.
NoneEvicted(s) == {}

\* The least recent sessions, which no longer fit.
Evicted(s) == LET all == MovedToEnd(s) IN {all[n] : n \in 1..(Len(all) - MaxHistories)}

\* Session s is used, in a table of histories that is otherwise as given.
Touch(table, s) ==
  LET all == MovedToEnd(s)
      over == IF Len(all) > MaxHistories THEN Len(all) - MaxHistories ELSE 0
  IN /\ order' = SubSeq(all, over + 1, Len(all))
     /\ history' = Restrict(table, DOMAIN table \ Evicted(s))

\* ClearSessions: a session without a history keeps its place in the order.
ClearSession(s) ==
  IF s \in DOMAIN history
  THEN /\ history' = Restrict(history, DOMAIN history \ {s})
       /\ order' = OrderWithout(s)
  ELSE UNCHANGED <<history, order>>

-----------------------------------------------------------------------------
(* A turn                                                                  *)

\* Chat before Run: the request is accepted, or refused because its body is too large or not
\* valid or there is no agent.
ChatBegins(r) ==
  /\ turn[r].pc = "none"
  /\ turn' = [turn EXCEPT ![r].pc = "start"]
  /\ UNCHANGED <<history, order>>
ChatRefused(r) ==
  /\ turn[r].pc = "none"
  /\ turn' = [turn EXCEPT ![r] = Answered]
  /\ UNCHANGED <<history, order>>

\* The 30 seconds of the request pass, or its client goes away.
ContextEnds(r) ==
  /\ turn[r].pc \in {"start", "loop", "fallback", "save", "reply"} /\ turn[r].live
  /\ turn' = [turn EXCEPT ![r].live = FALSE]
  /\ UNCHANGED <<history, order>>

\* Run's first critical section: the history with the question is copied.
CopyHistory(r) ==
  LET s == SessionOf(r)
      old == IF s \in DOMAIN history THEN history[s] ELSE <<>>
  IN /\ turn[r].pc = "start"
     /\ turn' = [turn EXCEPT ![r].pc = "loop", ![r].hist = Append(old, r)]
     /\ Touch(history, s)

\* Mutant: a failed tool degrades to the direct search like a failed model.
DegradesAlways(r, err) == turn[r].live

\* Run degrades to a direct search when the model failed; a tool that failed, and a request
\* that is over, are errors.
Degrades(r, err) == err = "model" /\ turn[r].live

LoopFails(r, err) ==
  turn' = [turn EXCEPT ![r] =
    IF Degrades(r, err) THEN [@ EXCEPT !.pc = "fallback", !.failed = (err # "model")]
    ELSE [@ EXCEPT !.pc = "reply", !.cites = {}, !.failed = (err # "model"),
                   !.err = IF err = "model" THEN "context" ELSE err]]

\* One round of loop: a call of the model, and the tools it asks for.  A call under a context
\* that is over fails.
ModelFails(r) ==
  /\ turn[r].pc = "loop"
  /\ LoopFails(r, "model")
  /\ UNCHANGED <<history, order>>
ToolFails(r) ==
  /\ turn[r].pc = "loop" /\ turn[r].round < MaxRounds
  /\ LoopFails(r, "source")
  /\ UNCHANGED <<history, order>>
ModelConcludes(r) ==
  /\ turn[r].pc = "loop" /\ turn[r].live
  /\ turn' = [turn EXCEPT ![r].pc = "save"]
  /\ UNCHANGED <<history, order>>

\* Tools are called, up to MaxRounds times; only qualified hits become citations.
ToolsAnswer(r, found) ==
  /\ turn[r].pc = "loop" /\ turn[r].round < MaxRounds /\ turn[r].live
  /\ turn' = [turn EXCEPT ![r].round = @ + 1, ![r].cites = @ \cup (found \cap Qualified)]
  /\ UNCHANGED <<history, order>>

\* fallback: one search with the question itself; its hits replace those of the loop.
Fallback(r) ==
  /\ turn[r].pc = "fallback"
  /\ \/ /\ turn[r].live
        /\ \E found \in SUBSET Hits :
             turn' = [turn EXCEPT ![r].pc = "reply", ![r].cites = found \cap Qualified]
     \/ turn' = [turn EXCEPT ![r].pc = "reply", ![r].cites = {}, ![r].err = "source",
                             ![r].failed = TRUE]
  /\ UNCHANGED <<history, order>>

\* Run's second critical section: the history with the answer is stored, over whatever another
\* turn of the session has stored meanwhile.
SaveHistory(r) ==
  LET s == SessionOf(r)
      all == Append(turn[r].hist, r)
      kept == SubSeq(all, IF Len(all) > HistoryCap THEN Len(all) - HistoryCap + 1 ELSE 1, Len(all))
  IN /\ turn[r].pc = "save"
     /\ turn' = [turn EXCEPT ![r].pc = "reply"]
     /\ Touch(With(history, s, kept), s)

\* The status of Chat: the context first (504 or 408), then the error (503).
StatusOf(t) ==
  IF ~t.live THEN "over" ELSE IF t.err # "none" THEN "unavailable" ELSE "answer"

\* Chat answers; its deferred ClearSessions comes after that.
Reply(r) ==
  /\ turn[r].pc = "reply"
  /\ LET status == StatusOf(turn[r])
     IN turn' = [turn EXCEPT ![r].pc = "clear", ![r].status = status,
                             ![r].cites = IF status = "answer" THEN @ ELSE {}]
  /\ UNCHANGED <<history, order>>
ChatReturns(r) ==
  /\ turn[r].pc = "clear"
  /\ turn' = [turn EXCEPT ![r] = Answered]
  /\ ClearSession(SessionOf(r))

TurnStep(r) ==
  \/ CopyHistory(r) \/ ModelFails(r) \/ ToolFails(r) \/ ModelConcludes(r)
  \/ (\E found \in SUBSET Hits : ToolsAnswer(r, found))
  \/ Fallback(r) \/ SaveHistory(r) \/ Reply(r)

-----------------------------------------------------------------------------
(* Properties                                                              *)

\* The reply says history_mode "stateless": whatever turns run at the same time and however they
\* end, no turn puts a message of another request before the model, and when no turn runs no
\* history is left in the table.
ChatsAreStateless ==
  /\ \A r \in Turns : ToSet(turn[r].hist) \subseteq {r}
  /\ (\A r \in Turns : ~Running(r)) => DOMAIN history = {}

\* ReAct.sessions and ReAct.order under touchSessionLocked and ClearSessions, which leaves failed
\* turns in the order: the order is bounded and has no session twice, so that the eviction
\* reaches every history in the table.
HistoriesAreBounded ==
  /\ Len(order) <= MaxHistories
  /\ IsInjective(order)
  /\ DOMAIN history \subseteq ToSet(order)

\* An answer with status 200 hides nothing: every citation is a qualified hit, no tool and no
\* search of the turn failed.  Other replies cite nothing.
AnswersAreHonest ==
  \A r \in Turns : turn[r].pc = "clear" =>
    IF turn[r].status = "answer"
    THEN turn[r].cites \subseteq Qualified /\ ~turn[r].failed
    ELSE turn[r].cites = {}

===============================================================================
