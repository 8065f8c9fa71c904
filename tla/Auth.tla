--------------------------------- MODULE Auth ---------------------------------
(***************************************************************************)
(* The HTTP boundary of the console and of Alertmanager                    *)
(* (internal/auth/auth.go): the login that trades the console token for a  *)
(* cookie session, the middleware every business path passes, and the      *)
(* table of fixed one-minute windows that limits both.                     *)
(*                                                                         *)
(* Every critical section of Auth.mu is one step, so requests interleave   *)
(* between the check of a session, the rate limit and the handler.  Tokens *)
(* are compared by what they are; Origin, transport and CSRF checks are    *)
(* what the request gets right.  The clock is a counter.                   *)
(***************************************************************************)
EXTENDS Naturals, Sequences, FiniteSets, Functions, Tables

CONSTANTS
  MaxRequests, \* bound: requests in one behaviour
  MaxInFlight, \* bound: requests handled at once
  MaxTime,     \* bound: the last instant
  Mixes,       \* bound: the sets of kinds of requests that meet in one behaviour
  Ips,         \* addresses logins come from
  Tokens,      \* the tokens that are configured, of "console" and "webhook"
  Ttl,         \* lifetime of a session (8 hours)
  MaxSessions, \* WithSessionLimits, 100 by default
  Minute,      \* length of a rate-limit window
  MaxKeys,     \* capacity of the limit table (10000)
  LoginRate,   \* logins per address and window (5)
  ReadRate,    \* reads per identity and window (120)
  RunsRate     \* re-diagnoses per identity and window (10)

ASSUME AuthAssumption ==
  /\ {MaxRequests, MaxInFlight, MaxTime, Ttl} \subseteq Nat
  /\ {MaxSessions, Minute, MaxKeys} \subseteq Nat \ {0}
  /\ {LoginRate, ReadRate, RunsRate} \subseteq Nat \ {0}
  /\ Tokens \subseteq {"console", "webhook"}
  /\ Mixes \subseteq SUBSET {"login", "current", "logout", "read", "rerun", "chat", "alert"}

Requests == 1..MaxRequests

VARIABLES
  mix,       \* the kinds of requests of this behaviour, one of Mixes
  now,       \* the clock
  sessions,  \* Auth.sessions: the session numbers and when each was created and expires
  limits,    \* Auth.limits: start and count of the window of every key
  req,       \* what each request has reached
  arrived,   \* requests so far
  born,      \* when each session was created (history)
  loggedOut, \* sessions that were logged out (history)
  grants     \* the key, instant and request of what a limit let through in the last minute (history)

authVars == <<mix, now, sessions, limits, req, arrived, born, loggedOut, grants>>

\* A request that has not come, and one that is over.
Idle == [pc |-> "idle"]
Done == [pc |-> "done"]

AuthInit ==
  /\ mix \in Mixes
  /\ now = 0
  /\ sessions = <<>>
  /\ limits = <<>>
  /\ req = [r \in Requests |-> Idle]
  /\ arrived = 0
  /\ born = <<>>
  /\ loggedOut = {}
  /\ grants = {}

\* The clock moves while there is a window or a session that it can end; before that its
\* value makes no difference.
Tick ==
  /\ now < MaxTime
  /\ DOMAIN limits # {} \/ DOMAIN sessions # {}
  /\ now' = now + 1
  /\ grants' = {g \in grants : now' - g[2] < Minute}
  /\ UNCHANGED <<mix, sessions, limits, req, arrived, born, loggedOut>>

-----------------------------------------------------------------------------
(* The rate limit                                                          *)

\* Mutant: a full table is emptied instead of refusing new keys.
OpenWindowsReset ==
  IF Cardinality(DOMAIN limits) >= MaxKeys THEN <<>>
  ELSE Restrict(limits, {k \in DOMAIN limits : now - limits[k].start < Minute})

\* The windows that are not over; allow deletes the others first.
OpenWindows == Restrict(limits, {k \in DOMAIN limits : now - limits[k].start < Minute})

\* A full table takes no new key.
TableFull(key) == Cardinality(DOMAIN OpenWindows) >= MaxKeys /\ key \notin DOMAIN OpenWindows

\* The key's window with this request in it; a refused request counts too.
Counted(key) ==
  IF key \in DOMAIN OpenWindows THEN [OpenWindows[key] EXCEPT !.count = @ + 1]
  ELSE [start |-> now, count |-> 1]

Allowed(key, max) == ~TableFull(key) /\ Counted(key).count <= max

\* allow: request r asks for key, once; it goes on as next or ends with 429.
Allow(r, key, max, next) ==
  /\ limits' = IF TableFull(key) THEN OpenWindows ELSE With(OpenWindows, key, Counted(key))
  /\ IF Allowed(key, max)
     THEN /\ req' = [req EXCEPT ![r] = next]
          /\ grants' = grants \cup {<<key, now, r>>}
     ELSE req' = [req EXCEPT ![r] = Done] /\ UNCHANGED grants

-----------------------------------------------------------------------------
(* Login                                                                   *)

\* The next request; what it carries is chosen where it is looked at.
InFlight == {r \in Requests : req[r] \notin {Idle, Done}}
Arrives(r) ==
  /\ r = arrived + 1
  /\ Cardinality(InFlight) < MaxInFlight
  /\ arrived' = r

\* login up to its second critical section: the address is limited before the token, the
\* Origin and the transport are looked at (sound says that they are all right).
Login(r) ==
  /\ Arrives(r)
  /\ "login" \in mix /\ "console" \in Tokens
  /\ \E ip \in Ips, sound \in BOOLEAN :
       Allow(r, <<"login", ip>>, LoginRate,
             IF sound THEN [pc |-> "issue", from |-> now] ELSE Done)
  /\ UNCHANGED <<mix, now, sessions, born, loggedOut>>

\* The sessions that had not expired at an instant.
UnexpiredAt(t) == Restrict(sessions, {s \in DOMAIN sessions : t <= sessions[s].expires})

\* Mutant: the comparison of creation times the other way round.
OldestIsNewest(table) ==
  {s \in DOMAIN table : \A u \in DOMAIN table : table[s].created >= table[u].created}

\* The sessions one of which makes room; created instants may be equal.
Oldest(table) ==
  {s \in DOMAIN table : \A u \in DOMAIN table : table[s].created <= table[u].created}

\* login's second critical section: expired sessions go, the oldest of a full table goes, and
\* the new session is stored.  The instant was read before the lock was held.
Issue(r) ==
  /\ req[r].pc = "issue"
  /\ \E t \in req[r].from..now :
       LET kept == UnexpiredAt(t)
           full == Cardinality(DOMAIN kept) >= MaxSessions
       IN \E out \in IF full THEN {{s} : s \in Oldest(kept)} ELSE {{}} :
            /\ sessions' = With(Restrict(kept, DOMAIN kept \ out), Len(born) + 1,
                                [created |-> t, expires |-> t + Ttl])
            /\ born' = Append(born, t)
  /\ req' = [req EXCEPT ![r] = Done]
  /\ UNCHANGED <<mix, now, limits, arrived, loggedOut, grants>>

-----------------------------------------------------------------------------
(* The middleware                                                          *)

\* getSession: the session of a cookie, which is deleted if it has expired.
HasSession(s) == s \in DOMAIN sessions /\ now <= sessions[s].expires
AfterGetSession(s) ==
  IF s \in DOMAIN sessions /\ now > sessions[s].expires
  THEN Restrict(sessions, DOMAIN sessions \ {s}) ELSE sessions

\* What a request does once it is let in: a GET and a re-diagnosis are limited first.
LetIn(kind, who, s) ==
  [pc |-> IF kind \in {"current", "read", "rerun"} THEN "limit" ELSE "handle",
   kind |-> kind, who |-> who, cookie |-> IF kind \in {"current", "logout"} THEN s ELSE 0]

\* A request with a bearer token, and perhaps a cookie that the handler looks at.  The
\* webhook token is good for POST /alert only.
GuardBearer(r) ==
  /\ Arrives(r)
  /\ \E kind \in mix \ {"login"}, token \in Tokens \cup {"unknown"}, s \in 0..Len(born) :
       req' = [req EXCEPT ![r] =
                 IF token = "unknown" \/ (token = "webhook" /\ kind # "alert") THEN Done
                 ELSE LetIn(kind, <<token>>, s)]
  /\ UNCHANGED <<mix, now, sessions, limits, born, loggedOut, grants>>

\* A request with a cookie; one that is no GET also needs the Origin and the session's CSRF
\* token, and both kinds the transport (sound).
GuardCookie(r) ==
  /\ Arrives(r)
  /\ "console" \in Tokens
  /\ \E kind \in mix \ {"login"}, s \in 0..Len(born), sound \in BOOLEAN :
       /\ sessions' = AfterGetSession(s)
       /\ req' = [req EXCEPT ![r] = IF HasSession(s) /\ sound THEN LetIn(kind, <<"session", s>>, s)
                                    ELSE Done]
  /\ UNCHANGED <<mix, now, limits, born, loggedOut, grants>>

\* The limit on reads and on re-diagnoses, one key for each identity.
Limit(r) ==
  /\ req[r].pc = "limit"
  /\ LET next == [req[r] EXCEPT !.pc = "handle"]
     IN IF req[r].kind = "rerun" THEN Allow(r, <<"runs", req[r].who>>, RunsRate, next)
        ELSE Allow(r, <<"read", req[r].who>>, ReadRate, next)
  /\ UNCHANGED <<mix, now, sessions, arrived, born, loggedOut>>

-----------------------------------------------------------------------------
(* The handlers                                                            *)

\* current looks the session up once more, for its CSRF token.
Current(r) ==
  /\ req[r].pc = "handle" /\ req[r].kind = "current"
  /\ sessions' = AfterGetSession(req[r].cookie)
  /\ req' = [req EXCEPT ![r] = Done]
  /\ UNCHANGED <<mix, now, limits, arrived, born, loggedOut, grants>>

\* logout deletes the cookie's session, whether it was found or not.
Logout(r) ==
  /\ req[r].pc = "handle" /\ req[r].kind = "logout"
  /\ sessions' = Restrict(sessions, DOMAIN sessions \ {req[r].cookie})
  /\ loggedOut' = loggedOut \cup ({req[r].cookie} \ {0})
  /\ req' = [req EXCEPT ![r] = Done]
  /\ UNCHANGED <<mix, now, limits, arrived, born, grants>>

\* Handlers that this boundary knows nothing about.
Serve(r) ==
  /\ req[r].pc = "handle" /\ req[r].kind \in {"read", "rerun", "alert"}
  /\ req' = [req EXCEPT ![r] = Done]
  /\ UNCHANGED <<mix, now, sessions, limits, arrived, born, loggedOut, grants>>

AuthStep(r) ==
  \/ Login(r) \/ Issue(r) \/ GuardBearer(r) \/ GuardCookie(r) \/ Limit(r)
  \/ Current(r) \/ Logout(r) \/ Serve(r)

-----------------------------------------------------------------------------
(* Properties                                                              *)

RateOf(key) ==
  CASE key[1] = "login" -> LoginRate [] key[1] = "read" -> ReadRate [] key[1] = "runs" -> RunsRate

\* allow keeps fixed windows in a table that is purged and that may be full: over any stretch
\* of a minute, wherever it begins, a key is let through less than twice its rate (the end of
\* one window, but for the request that began it, and the beginning of the next), never more
\* because its window was forgotten.
RateBounded ==
  \A key \in {g[1] : g \in grants} : Cardinality({g \in grants : g[1] = key}) < 2 * RateOf(key)

\* The table of sessions has room for MaxSessions.
SessionsBounded == Cardinality(DOMAIN sessions) <= MaxSessions

\* A session that was logged out does not come back.
LogoutIsFinal == loggedOut \cap DOMAIN sessions = {}

\* A session that is gone was logged out, has expired, or was displaced by MaxSessions
\* sessions that are not older or were stored later (the instant of a login is read before
\* the lock, so that a session stored late may be the older one).
NoneLostEarly ==
  \A s \in DOMAIN born : s \in DOMAIN sessions \/ s \in loggedOut \/ now > born[s] + Ttl
    \/ Cardinality({u \in DOMAIN born : u # s /\ (born[u] >= born[s] \/ u > s)}) >= MaxSessions

\* login, getSession and logout share the table of sessions: however requests interleave with
\* a purge or an eviction, the table is bounded, a logout is final, and nobody loses a session
\* that the limits allow it to keep.
SessionTableSound == SessionsBounded /\ LogoutIsFinal /\ NoneLostEarly
===============================================================================
