------------------------------ MODULE Sessions ------------------------------
(***************************************************************************)
(* Authenticated sessions (src/auth/session): one table, written by two    *)
(* transports.  A cookie request carries the token its browser held when   *)
(* it was sent, works on a copy of the row it read, and writes back at the *)
(* end; JWT clients hold access and refresh tokens that name the session   *)
(* by the same token.  Every SQL statement is one step, so requests of one *)
(* browser, calls of JWT clients and the cleanup meet between any two.     *)
(***************************************************************************)
EXTENDS Integers, FiniteSets

CONSTANTS
  Ids,             \* the ids ulid() can produce, each used once
  Tokens,          \* what SessionToken::generate can produce, each once
  Users,
  Values,          \* session data
  Browsers,
  Requests,        \* cookie requests that can be in flight at a time
  Calls,           \* JWT calls that can be in flight at a time
  MaxSessions,     \* max_sessions_per_user
  Ttl,             \* session_ttl_secs, refresh_ttl_secs
  AccessTtl,       \* access_ttl_secs
  TouchInterval,   \* touch_interval_secs
  None,            \* no session, no token, no user
  NoData,          \* {}
  MaxOps,          \* bound: session operations of one handler
  MaxTime          \* bound: the clock

ASSUME SessionsAssumption ==
  /\ None \notin Ids /\ None \notin Tokens /\ None \notin Users
  /\ MaxSessions \in Nat \ {0}
  /\ {Ttl, AccessTtl, TouchInterval, MaxOps, MaxTime} \subseteq Nat

VARIABLES
  now,
  table,           \* authenticated_sessions, by id
  used,            \* the tokens generated so far
  jar,             \* per browser: the token in its cookie
  req,             \* per request slot: the request being served
  call,            \* per call slot: the JWT call being served
  pairs            \* the TokenPairs issued to JWT clients

vars == <<now, table, used, jar, req, call, pairs>>

Row ==
  [status : {"absent", "live", "deleted"}, user : Users \cup {None},
   token : Tokens \cup {None},           \* session_token_hash
   data : Values \cup {NoData}, active : Nat, expires : Nat]

NoRow ==
  [status |-> "absent", user |-> None, token |-> None, data |-> NoData,
   active |-> 0, expires |-> 0]

(* The token identifies a row, expired or not. *)
Bound(token) == \E i \in Ids : table[i].status = "live" /\ table[i].token = token

-----------------------------------------------------------------------------
(* SessionStore: one statement each, as the table it leaves behind. *)

Live(i) == table[i].status = "live"

(* read_by_token and read_by_token_hash: the ids that match. *)
Matches(token) ==
  {i \in Ids : Live(i) /\ table[i].token = token /\ table[i].expires > now}

(* A request may still know whose a deleted row was. *)
Deleted(S) ==
  [i \in Ids |-> IF i \in S /\ Live(i)
                 THEN [NoRow EXCEPT !.status = "deleted", !.user = table[i].user]
                 ELSE table[i]]

Updated(i, row) == IF Live(i) THEN [table EXCEPT ![i] = row] ELSE table

SessionsOf(u) == {i \in Ids : Live(i) /\ table[i].user = u}

(* Fault: the time to live is subtracted. *)
InsertedExpired(i, user, token, data) ==
  [table EXCEPT ![i] =
     [status |-> "live", user |-> user, token |-> token, data |-> data,
      active |-> now, expires |-> now - Ttl]]

(* The INSERT of create. *)
Inserted(i, user, token, data) ==
  [table EXCEPT ![i] =
     [status |-> "live", user |-> user, token |-> token, data |-> data,
      active |-> now, expires |-> now + Ttl]]

(* The trim of create: the least recently active of the sessions that were *)
(* alive at the create's own time, as many as there are too many.          *)
Evictions(user, stamp) ==
  LET alive == {i \in SessionsOf(user) : table[i].expires > stamp} IN
  {S \in SUBSET alive :
     /\ Cardinality(S) = IF Cardinality(alive) > MaxSessions
                         THEN Cardinality(alive) - MaxSessions ELSE 0
     /\ \A i \in S, k \in alive \ S : table[i].active <= table[k].active}

(* rotate_token and rotate_token_to: the expiry stays as it is. *)
Rotated(i, token) == Updated(i, [table[i] EXCEPT !.token = token, !.active = now])

Flushed(i, data) ==
  Updated(i, [table[i] EXCEPT !.data = data, !.active = now, !.expires = now + Ttl])

Touched(i) == Updated(i, [table[i] EXCEPT !.active = now, !.expires = now + Ttl])

-----------------------------------------------------------------------------
(* A cookie request: SessionState, and what the middleware keeps itself. *)

Request ==
  [pc : {"idle", "read", "mismatch", "handler", "create", "trim", "touch", "respond"},
   browser : Browsers, token : Tokens \cup {None},
   start : Ids \cup {None},              \* the middleware's current_session
   failed : BOOLEAN,                     \* read_failed
   touch : BOOLEAN,                      \* should_touch
   current : Ids \cup {None},            \* SessionState::current
   data : Values \cup {NoData},          \* and its data
   dirty : BOOLEAN,
   action : {"none", "set", "remove"},
   set : Tokens \cup {None, "keep"},     \* the token of SessionAction::Set;
                                         \* then the cookie of the response
   user : Users \cup {None},             \* the user that logs in
   made : Ids \cup {None},               \* the row create inserted
   fresh : Tokens \cup {None},           \* the token generated for it
   stamp : Nat,                          \* and when
   ops : Nat]

Idle(b) ==
  [pc |-> "idle", browser |-> b, token |-> None, start |-> None,
   failed |-> FALSE, touch |-> FALSE, current |-> None, data |-> NoData,
   dirty |-> FALSE, action |-> "none", set |-> None, user |-> None,
   made |-> None, fresh |-> None, stamp |-> 0, ops |-> 0]

JwtCall ==
  [pc : {"idle", "trim", "rotate", "destroy"}, token : Tokens \cup {None},
   id : Ids \cup {None}, user : Users \cup {None}, stamp : Nat]

NoCall == [pc |-> "idle", token |-> None, id |-> None, user |-> None, stamp |-> 0]

(* The part of a TokenPair that matters: the jti of both tokens, the sub,  *)
(* the exp of each, and the refresh token it was traded for.               *)
Pair ==
  [token : Tokens \cup {None}, user : Users \cup {None}, from : Tokens \cup {None},
   access : Nat, refresh : Nat]

Init ==
  /\ now = 0
  /\ table = [i \in Ids |-> NoRow]
  /\ used = {}
  /\ jar = [b \in Browsers |-> None]
  /\ req \in [Requests -> {Idle(b) : b \in Browsers}]
  /\ call = [c \in Calls |-> NoCall]
  /\ pairs = {}

(* The request is sent with the cookie the browser has. *)
Arrive(r, b) ==
  /\ req[r].pc = "idle"
  /\ req' = [req EXCEPT ![r] = [Idle(b) EXCEPT !.pc = "read", !.token = jar[b]]]
  /\ UNCHANGED <<now, table, used, jar, call, pairs>>

(* CookieSessionMiddleware::call up to the handler.  A fingerprint may     *)
(* differ, and the read may fail.                                          *)
Loaded(q, i) ==
  [q EXCEPT !.pc = "handler", !.start = i, !.current = i, !.data = table[i].data,
            !.touch = (now - table[i].active >= TouchInterval)]

ReadSession(r) ==
  LET q == req[r] IN
  /\ q.pc = "read"
  /\ \/ \E i \in Matches(q.token) :
          req' = [req EXCEPT ![r] = Loaded(q, i)]
     \/ \E i \in Matches(q.token) :
          req' = [req EXCEPT ![r] = [q EXCEPT !.pc = "mismatch", !.made = i]]
     \/ /\ Matches(q.token) = {}
        /\ req' = [req EXCEPT ![r] = [q EXCEPT !.pc = "handler"]]
     \/ /\ q.token # None
        /\ req' = [req EXCEPT ![r] = [q EXCEPT !.pc = "handler", !.failed = TRUE]]
  /\ UNCHANGED <<now, table, used, jar, call, pairs>>

(* "possible hijack, destroying session": an error of the DELETE is        *)
(* ignored.                                                                *)
DestroyMismatched(r) ==
  LET q == req[r] IN
  /\ q.pc = "mismatch"
  /\ table' = Deleted({q.made}) \/ UNCHANGED table
  /\ req' = [req EXCEPT ![r] = [q EXCEPT !.pc = "handler", !.made = None]]
  /\ UNCHANGED <<now, used, jar, call, pairs>>

-----------------------------------------------------------------------------
(* What the handler does with its CookieSession. *)

Handling(r) == req[r].pc = "handler" /\ req[r].ops < MaxOps

(* Back in the handler: what create and rotate held is gone. *)
Resumed(q) ==
  [q EXCEPT !.pc = "handler", !.user = None, !.made = None, !.fresh = None, !.stamp = 0]

(* set and remove_key *)
SetData(r, v) ==
  /\ Handling(r) /\ req[r].current # None
  /\ req' = [req EXCEPT ![r].data = v, ![r].dirty = TRUE, ![r].ops = @ + 1]
  /\ UNCHANGED <<now, table, used, jar, call, pairs>>

(* Fault: the session there is stays. *)
AuthenticateKeeps(r, u) ==
  /\ Handling(r)
  /\ req' = [req EXCEPT ![r].pc = "create", ![r].user = u, ![r].ops = @ + 1]
  /\ UNCHANGED <<now, table, used, jar, call, pairs>>

(* authenticate(_with, with no data of its own) destroys the session there *)
(* is ...                                                                  *)
Authenticate(r, u) ==
  /\ Handling(r)
  /\ table' = Deleted({req[r].current})
  /\ req' = [req EXCEPT ![r].pc = "create", ![r].user = u, ![r].ops = @ + 1]
  /\ UNCHANGED <<now, used, jar, call, pairs>>

(* ... inserts a new one ... *)
CreateRow(r, i, t) ==
  LET q == req[r] IN
  /\ q.pc = "create"
  /\ table[i].status = "absent" /\ t \notin used
  /\ table' = Inserted(i, q.user, t, NoData)
  /\ used' = used \cup {t}
  /\ req' = [req EXCEPT ![r] =
       [q EXCEPT !.pc = "trim", !.made = i, !.fresh = t, !.stamp = now]]
  /\ UNCHANGED <<now, jar, call, pairs>>

(* ... trims the user's sessions, and only then takes the new one over. *)
TrimSessions(r) ==
  LET q == req[r] IN
  /\ q.pc = "trim"
  /\ \E S \in Evictions(q.user, q.stamp) : table' = Deleted(S)
  /\ req' = [req EXCEPT ![r] =
       [Resumed(q) EXCEPT !.current = q.made, !.data = NoData, !.dirty = FALSE,
                          !.action = "set", !.set = q.fresh]]
  /\ UNCHANGED <<now, used, jar, call, pairs>>

(* rotate: a new token for the row, if it is still there ... *)
RotateToken(r, t) ==
  LET q == req[r] IN
  /\ Handling(r) /\ q.current # None /\ t \notin used
  /\ table' = Rotated(q.current, t)
  /\ used' = used \cup {t}
  /\ req' = [req EXCEPT ![r] = [q EXCEPT !.pc = "touch", !.fresh = t, !.ops = @ + 1]]
  /\ UNCHANGED <<now, jar, call, pairs>>

(* ... then a new expiry, and the token goes into the cookie. *)
TouchRotated(r) ==
  LET q == req[r] IN
  /\ q.pc = "touch"
  /\ table' = Touched(q.current)
  /\ req' = [req EXCEPT ![r] = [Resumed(q) EXCEPT !.action = "set", !.set = q.fresh]]
  /\ UNCHANGED <<now, used, jar, call, pairs>>

(* The INSERT, the trim or the second UPDATE fails: the handler gets the   *)
(* error, and what went before stays done.                                 *)
StatementFails(r) ==
  /\ req[r].pc \in {"create", "trim", "touch"}
  /\ req' = [req EXCEPT ![r] = Resumed(@)]
  /\ UNCHANGED <<now, table, used, jar, call, pairs>>

(* The sessions of the user of the current one, dead or alive. *)
OwnSessions(r) ==
  IF req[r].current = None THEN {} ELSE SessionsOf(table[req[r].current].user)

(* logout ends the current session, logout_all all of the user. *)
Logout(r, S) ==
  /\ Handling(r) /\ S \in {{req[r].current}, OwnSessions(r)}
  /\ table' = Deleted(S)
  /\ req' = [req EXCEPT ![r].action = "remove", ![r].current = None, ![r].ops = @ + 1]
  /\ UNCHANGED <<now, used, jar, call, pairs>>

(* logout_other ends the other ones, revoke any one of the user's own. *)
Revoke(r, S) ==
  /\ Handling(r) /\ req[r].current # None
  /\ S = OwnSessions(r) \ {req[r].current} \/ \E i \in OwnSessions(r) : S = {i}
  /\ table' = Deleted(S)
  /\ req' = [req EXCEPT ![r].ops = @ + 1]
  /\ UNCHANGED <<now, used, jar, call, pairs>>

-----------------------------------------------------------------------------
(* CookieSessionMiddleware::call after the handler. *)

(* Fault: the row is written back as it was read, its token included. *)
WrittenBackWhole(q) ==
  IF q.action # "none" \/ q.start = None \/ ~(q.dirty \/ q.touch) THEN table
  ELSE Updated(q.start, [table[q.start] EXCEPT
         !.data = q.data, !.token = q.token, !.active = now, !.expires = now + Ttl])

(* The table after the write-back, if it goes through. *)
WrittenBack(q) ==
  IF q.action # "none" \/ q.start = None THEN table
  ELSE IF q.dirty THEN Flushed(q.start, q.data)
  ELSE IF q.touch THEN Touched(q.start)
  ELSE table

(* The cookie of the response: "keep" if there is none. *)
Cookie(q) ==
  CASE q.action = "set" -> q.set
    [] q.action = "remove" -> None
    [] q.action = "none" /\ q.start # None ->
         IF q.dirty \/ q.touch THEN q.token ELSE "keep"
    [] OTHER -> IF q.token # None /\ ~q.failed THEN None ELSE "keep"

Respond(r) ==
  /\ req[r].pc = "handler"
  /\ table' = WrittenBack(req[r]) \/ UNCHANGED table
  /\ req' = [req EXCEPT ![r] =
       [Idle(req[r].browser) EXCEPT !.pc = "respond", !.set = Cookie(req[r])]]
  /\ UNCHANGED <<now, used, jar, call, pairs>>

(* The response reaches the browser, or gets lost. *)
Deliver(r) ==
  LET q == req[r] IN
  /\ q.pc = "respond"
  /\ \/ q.set # "keep" /\ jar' = [jar EXCEPT ![q.browser] = q.set]
     \/ UNCHANGED jar
  /\ req' = [req EXCEPT ![r] = Idle(q.browser)]
  /\ UNCHANGED <<now, table, used, call, pairs>>

-----------------------------------------------------------------------------
(* JwtSessionService. *)

JwtAuthenticate(c, u, i, t) ==
  /\ call[c].pc = "idle"
  /\ table[i].status = "absent" /\ t \notin used
  /\ table' = Inserted(i, u, t, NoData)
  /\ used' = used \cup {t}
  /\ call' = [call EXCEPT ![c] =
       [pc |-> "trim", token |-> t, id |-> i, user |-> u, stamp |-> now]]
  /\ UNCHANGED <<now, jar, req, pairs>>

mint_pair(user, token, from) ==
  [token |-> token, user |-> user, access |-> now + AccessTtl,
   refresh |-> now + Ttl, from |-> from]

JwtTrim(c) ==
  LET k == call[c] IN
  /\ k.pc = "trim"
  /\ \E S \in Evictions(k.user, k.stamp) : table' = Deleted(S)
  /\ pairs' = pairs \cup {mint_pair(k.user, k.token, None)}
  /\ call' = [call EXCEPT ![c] = NoCall]
  /\ UNCHANGED <<now, used, jar, req>>

(* The decoder accepts a token of this service until after its exp. *)
decode(exp) == now <= exp

(* rotate takes a refresh token, logout an access token; both look the     *)
(* session up by its jti ...                                               *)
JwtLookup(c, p, then) ==
  /\ call[c].pc = "idle"
  /\ decode(IF then = "rotate" THEN p.refresh ELSE p.access)
  /\ \E i \in Matches(p.token) :
       call' = [call EXCEPT ![c] =
         [pc |-> then, token |-> p.token, id |-> i, user |-> p.user, stamp |-> 0]]
  /\ UNCHANGED <<now, table, used, jar, req, pairs>>

(* ... and write in a second statement: rotate_token_to(id) ... *)
JwtRotate(c, t) ==
  LET k == call[c] IN
  /\ k.pc = "rotate" /\ t \notin used
  /\ table' = Rotated(k.id, t)
  /\ used' = used \cup {t}
  /\ pairs' = pairs \cup {mint_pair(k.user, t, k.token)}
  /\ call' = [call EXCEPT ![c] = NoCall]
  /\ UNCHANGED <<now, jar, req>>

(* ... or destroy(id). *)
JwtDestroy(c) ==
  /\ call[c].pc = "destroy"
  /\ table' = Deleted({call[c].id})
  /\ call' = [call EXCEPT ![c] = NoCall]
  /\ UNCHANGED <<now, used, jar, req, pairs>>

(* A statement of a call fails: the error goes to the client. *)
JwtFails(c) ==
  /\ call[c].pc # "idle"
  /\ call' = [call EXCEPT ![c] = NoCall]
  /\ UNCHANGED <<now, table, used, jar, req, pairs>>

-----------------------------------------------------------------------------
(* The services' revoke, revoke_all and revoke_all_except, for a user. *)
RevokeFor(u, S) ==
  /\ S # {} /\ S \subseteq SessionsOf(u)
  /\ \/ Cardinality(S) = 1
     \/ S = SessionsOf(u)
     \/ \E i \in Ids : S = SessionsOf(u) \ {i}
  /\ table' = Deleted(S)
  /\ UNCHANGED <<now, used, jar, req, call, pairs>>

cleanup_expired ==
  /\ \E i \in Ids : Live(i) /\ table[i].expires < now
  /\ table' = Deleted({i \in Ids : table[i].expires < now})
  /\ UNCHANGED <<now, used, jar, req, call, pairs>>

Tick ==
  /\ now < MaxTime
  /\ now' = now + 1
  /\ UNCHANGED <<table, used, jar, req, call, pairs>>

CookieStep(r) ==
  \/ \E b \in Browsers : Arrive(r, b)
  \/ ReadSession(r)
  \/ DestroyMismatched(r)
  \/ \E v \in Values : SetData(r, v)
  \/ \E u \in Users : Authenticate(r, u)
  \/ \E i \in Ids, t \in Tokens : CreateRow(r, i, t)
  \/ TrimSessions(r)
  \/ \E t \in Tokens : RotateToken(r, t)
  \/ TouchRotated(r)
  \/ StatementFails(r)
  \/ \E S \in SUBSET Ids : Revoke(r, S)
  \/ \E S \in {{req[r].current}, OwnSessions(r)} : Logout(r, S)
  \/ Respond(r)
  \/ Deliver(r)

JwtStep(c) ==
  \/ \E u \in Users, i \in Ids, t \in Tokens : JwtAuthenticate(c, u, i, t)
  \/ JwtTrim(c)
  \/ \E p \in pairs, then \in {"rotate", "destroy"} : JwtLookup(c, p, then)
  \/ \E t \in Tokens : JwtRotate(c, t)
  \/ JwtDestroy(c)
  \/ JwtFails(c)

Next ==
  \/ \E r \in Requests : CookieStep(r)
  \/ \E c \in Calls : JwtStep(c)
  \/ \E u \in Users, S \in SUBSET Ids : RevokeFor(u, S)
  \/ cleanup_expired
  \/ Tick

Spec == Init /\ [][Next]_vars

-----------------------------------------------------------------------------
(* The table, the requests and the calls hold values of their types. *)
TypeOK ==
  /\ now \in Nat
  /\ table \in [Ids -> Row]
  /\ used \subseteq Tokens
  /\ jar \in [Browsers -> Tokens \cup {None}]
  /\ req \in [Requests -> Request]
  /\ call \in [Calls -> JwtCall]
  /\ pairs \subseteq Pair

(* A token that stopped naming a session, because it was rotated away,     *)
(* logged out, revoked, evicted or cleaned up, never names one again,      *)
(* whatever writes of requests and calls that read the session before are  *)
(* still to come (the UPDATE ... WHERE id of flush, touch and rotate).     *)
DeadTokensStayDead ==
  [][\A t \in used : ~Bound(t) => ~Bound(t)']_vars

(* Session fixation: once a handler logged in, logged out or rotated, the  *)
(* token its request came with opens no session any more, even if other    *)
(* requests of the browser run at the same time.                           *)
OldTokenEnds ==
  \A r \in Requests :
    req[r].start # None /\ req[r].action # "none" => ~Bound(req[r].token)

(* "The change is held in memory and flushed to the database by the        *)
(* middleware after the handler returns": a response whose write-back went *)
(* through leaves no change of the handler behind in memory.               *)
SetIsFlushed ==
  [][\A r \in Requests :
       /\ Respond(r) /\ table' = WrittenBack(req[r])
       /\ req[r].dirty /\ req[r].current # None /\ Live(req[r].current)
       => table'[req[r].current].data = req[r].data]_vars

(* "The old refresh token is immediately invalidated - a second call with  *)
(* the same token returns auth:session_not_found".                         *)
RefreshTokenUsedOnce ==
  \A p, q \in pairs : p.from # None /\ p.from = q.from => p = q
=============================================================================
