--------------------------- MODULE SessionsProofs ---------------------------
(***************************************************************************)
(* Proofs about Sessions: type correctness, that a token that stopped      *)
(* naming a session never names one again, and that logging in, logging    *)
(* out and rotating end the token the request came with.                   *)
(***************************************************************************)
EXTENDS Sessions, TLAPS

(* Times are natural numbers. *)
LEMMA TimesLemma ==
  ASSUME TypeOK
  PROVE  now \in Nat /\ now + Ttl \in Nat /\ now + AccessTtl \in Nat
  <1>1. Ttl \in Nat /\ AccessTtl \in Nat  BY SessionsAssumption
  <1> QED  BY <1>1 DEF TypeOK

-----------------------------------------------------------------------------
(* What the statements of SessionStore do to the table. *)

(* A DELETE keeps the types and changes no token it leaves alive. *)
LEMMA DeletedLemma ==
  ASSUME TypeOK, NEW S
  PROVE  /\ Deleted(S) \in [Ids -> Row]
         /\ \A i \in Ids : Deleted(S)[i].status = "live" =>
              i \notin S /\ Deleted(S)[i] = table[i] /\ Live(i)
  BY SessionsAssumption DEF Deleted, Row, NoRow, TypeOK, Live

(* An UPDATE of one row leaves the other ones, and changes no row that is  *)
(* gone.                                                                   *)
LEMMA UpdatedLemma ==
  ASSUME TypeOK, NEW i \in Ids, NEW row \in Row
  PROVE  /\ Updated(i, row) \in [Ids -> Row]
         /\ \A k \in Ids : Updated(i, row)[k] =
              IF k = i /\ Live(i) THEN row ELSE table[k]
  BY DEF Updated, TypeOK, Live

LEMMA InsertedLemma ==
  ASSUME TypeOK, NEW i \in Ids, NEW u \in Users \cup {None},
         NEW t \in Tokens \cup {None}, NEW d \in Values \cup {NoData}
  PROVE  /\ Inserted(i, u, t, d) \in [Ids -> Row]
         /\ Inserted(i, u, t, d)[i].token = t
         /\ \A k \in Ids \ {i} : Inserted(i, u, t, d)[k] = table[k]
  BY TimesLemma DEF Inserted, Row, TypeOK

(* rotate_token gives a row that is still there another token. *)
LEMMA RotatedLemma ==
  ASSUME TypeOK, NEW i \in Ids, NEW t \in Tokens
  PROVE  /\ Rotated(i, t) \in [Ids -> Row]
         /\ \A k \in Ids : Rotated(i, t)[k].status = table[k].status
         /\ \A k \in Ids : k # i => Rotated(i, t)[k] = table[k]
         /\ Live(i) => Rotated(i, t)[i].token = t
         /\ ~Live(i) => Rotated(i, t)[i] = table[i]
  <1> DEFINE row == [table[i] EXCEPT !.token = t, !.active = now]
  <1>1. row \in Row /\ row.status = table[i].status /\ row.token = t
    <2>1. table[i] \in Row  BY DEF TypeOK
    <2> QED  BY <2>1, TimesLemma DEF Row
  <1> QED  BY <1>1, UpdatedLemma DEF Rotated, Live

(* flush and touch change neither the token nor whether the row is there. *)
LEMMA FlushedLemma ==
  ASSUME TypeOK, NEW i \in Ids, NEW d \in Values \cup {NoData}
  PROVE  /\ Flushed(i, d) \in [Ids -> Row]
         /\ \A k \in Ids : /\ Flushed(i, d)[k].status = table[k].status
                           /\ Flushed(i, d)[k].token = table[k].token
  <1> DEFINE row == [table[i] EXCEPT !.data = d, !.active = now, !.expires = now + Ttl]
  <1>1. row \in Row /\ row.status = table[i].status /\ row.token = table[i].token
    <2>1. table[i] \in Row  BY DEF TypeOK
    <2> QED  BY <2>1, TimesLemma DEF Row
  <1> QED  BY <1>1, UpdatedLemma, ZenonT(30) DEF Flushed, Live

LEMMA TouchedLemma ==
  ASSUME TypeOK, NEW i \in Ids
  PROVE  /\ Touched(i) \in [Ids -> Row]
         /\ \A k \in Ids : /\ Touched(i)[k].status = table[k].status
                           /\ Touched(i)[k].token = table[k].token
  <1> DEFINE row == [table[i] EXCEPT !.active = now, !.expires = now + Ttl]
  <1>1. row \in Row /\ row.status = table[i].status /\ row.token = table[i].token
    <2>1. table[i] \in Row  BY DEF TypeOK
    <2> QED  BY <2>1, TimesLemma DEF Row
  <1> QED  BY <1>1, UpdatedLemma DEF Touched, Live

-----------------------------------------------------------------------------
(* Requests *)

LEMMA IdleType ==
  ASSUME NEW b \in Browsers
  PROVE  Idle(b) \in Request
  BY DEF Idle, Request

LEMMA ResumedType ==
  ASSUME NEW q \in Request
  PROVE  /\ Resumed(q) \in Request /\ Resumed(q).pc = "handler"
         /\ Resumed(q).start = q.start /\ Resumed(q).token = q.token
         /\ Resumed(q).action = q.action /\ Resumed(q).current = q.current
  BY ZenonT(30) DEF Resumed, Request

(* What the actions write into a request. *)
LEMMA RequestEdits ==
  ASSUME NEW q \in Request
  PROVE  /\ \A t \in Tokens \cup {None} :
              [q EXCEPT !.pc = "read", !.token = t] \in Request
         /\ [q EXCEPT !.pc = "handler"] \in Request
         /\ [q EXCEPT !.pc = "handler", !.failed = TRUE] \in Request
         /\ \A v \in Values : [q EXCEPT !.data = v, !.dirty = TRUE, !.ops = @ + 1] \in Request
         /\ \A u \in Users : [q EXCEPT !.pc = "create", !.user = u, !.ops = @ + 1] \in Request
         /\ \A t \in Tokens : [q EXCEPT !.pc = "touch", !.fresh = t, !.ops = @ + 1] \in Request
         /\ [q EXCEPT !.ops = @ + 1] \in Request
         /\ [q EXCEPT !.action = "remove", !.current = None, !.ops = @ + 1] \in Request
  <1>0. q.ops + 1 \in Nat  BY DEF Request
  <1>1. \A t \in Tokens \cup {None} : [q EXCEPT !.pc = "read", !.token = t] \in Request
    BY DEF Request
  <1>2. [q EXCEPT !.pc = "handler"] \in Request  BY DEF Request
  <1>3. [q EXCEPT !.pc = "handler", !.failed = TRUE] \in Request  BY DEF Request
  <1>4. \A v \in Values : [q EXCEPT !.data = v, !.dirty = TRUE, !.ops = @ + 1] \in Request
    BY <1>0 DEF Request
  <1>5. \A u \in Users : [q EXCEPT !.pc = "create", !.user = u, !.ops = @ + 1] \in Request
    BY <1>0 DEF Request
  <1>6. \A t \in Tokens : [q EXCEPT !.pc = "touch", !.fresh = t, !.ops = @ + 1] \in Request
    BY <1>0 DEF Request
  <1>7. [q EXCEPT !.ops = @ + 1] \in Request  BY DEF Request
  <1>8. [q EXCEPT !.action = "remove", !.current = None, !.ops = @ + 1] \in Request
    BY <1>0 DEF Request
  <1> QED  BY <1>1, <1>2, <1>3, <1>4, <1>5, <1>6, <1>7, <1>8

LEMMA CookieType ==
  ASSUME NEW q \in Request
  PROVE  Cookie(q) \in Tokens \cup {None, "keep"}
  BY DEF Cookie, Request

LEMMA WrittenBackLemma ==
  ASSUME TypeOK, NEW q \in Request
  PROVE  /\ WrittenBack(q) \in [Ids -> Row]
         /\ \A k \in Ids : /\ WrittenBack(q)[k].status = table[k].status
                           /\ WrittenBack(q)[k].token = table[k].token
  <1>1. CASE WrittenBack(q) = table  BY <1>1 DEF TypeOK
  <1>2. CASE q.start # None /\ WrittenBack(q) = Flushed(q.start, q.data)
    <2>1. q.start \in Ids /\ q.data \in Values \cup {NoData}  BY <1>2 DEF Request
    <2> QED  BY <1>2, <2>1, FlushedLemma
  <1>3. CASE q.start # None /\ WrittenBack(q) = Touched(q.start)
    <2>1. q.start \in Ids  BY <1>3 DEF Request
    <2> QED  BY <1>3, <2>1, TouchedLemma
  <1> QED  BY <1>1, <1>2, <1>3 DEF WrittenBack

-----------------------------------------------------------------------------
(* Every step of a request leaves a request, every step a typed state. *)

LEMMA RequestStepType ==
  ASSUME TypeOK, NEW r \in Requests, CookieStep(r)
  PROVE  TypeOK'
  <1> DEFINE q == req[r]
  <1>q. q \in Request  BY DEF TypeOK
  <1>n. MaxOps \in Nat /\ TouchInterval \in Nat  BY SessionsAssumption
  <1>1. ASSUME NEW b \in Browsers, Arrive(r, b)  PROVE TypeOK'
    <2>1. [Idle(b) EXCEPT !.pc = "read", !.token = jar[b]] \in Request
      <3>1. jar[b] \in Tokens \cup {None}  BY DEF TypeOK
      <3> QED  BY <3>1, IdleType, RequestEdits
    <2> QED  BY <1>1, <2>1 DEF Arrive, TypeOK
  <1>2. CASE ReadSession(r)
    <2>1. ASSUME NEW i \in Ids  PROVE Loaded(q, i) \in Request
      <3>1. table[i].data \in Values \cup {NoData}  BY DEF TypeOK, Row
      <3>2. (now - table[i].active >= TouchInterval) \in BOOLEAN  OBVIOUS
      <3> QED  BY <1>q, <3>1, <3>2 DEF Loaded, Request
    <2>2. ASSUME NEW i \in Ids  PROVE [q EXCEPT !.pc = "mismatch", !.made = i] \in Request
      BY <1>q DEF Request
    <2>3. /\ [q EXCEPT !.pc = "handler"] \in Request
          /\ [q EXCEPT !.pc = "handler", !.failed = TRUE] \in Request
      BY <1>q, RequestEdits
    <2>4. \E x \in Request : req' = [req EXCEPT ![r] = x]
      BY <1>2, <2>1, <2>2, <2>3 DEF ReadSession, Matches
    <2> QED  BY <1>2, <2>4 DEF ReadSession, TypeOK
  <1>3. CASE DestroyMismatched(r)
    <2>1. table' \in [Ids -> Row]
      BY <1>3, DeletedLemma DEF DestroyMismatched, TypeOK
    <2>2. [q EXCEPT !.pc = "handler", !.made = None] \in Request  BY <1>q DEF Request
    <2> QED  BY <1>3, <2>1, <2>2 DEF DestroyMismatched, TypeOK
  <1>4. ASSUME NEW v \in Values, SetData(r, v)  PROVE TypeOK'
    <2>1. [q EXCEPT !.data = v, !.dirty = TRUE, !.ops = @ + 1] \in Request
      BY <1>q, RequestEdits
    <2>2. req' = [req EXCEPT ![r] = [q EXCEPT !.data = v, !.dirty = TRUE, !.ops = @ + 1]]
      BY <1>4, <1>q DEF SetData, TypeOK, Request
    <2> QED  BY <1>4, <2>1, <2>2 DEF SetData, TypeOK
  <1>5. ASSUME NEW u \in Users, Authenticate(r, u)  PROVE TypeOK'
    <2>1. [q EXCEPT !.pc = "create", !.user = u, !.ops = @ + 1] \in Request
      BY <1>q, RequestEdits
    <2>2. req' = [req EXCEPT ![r] = [q EXCEPT !.pc = "create", !.user = u, !.ops = @ + 1]]
      BY <1>5, <1>q DEF Authenticate, TypeOK, Request
    <2>3. table' \in [Ids -> Row]  BY <1>5, DeletedLemma DEF Authenticate
    <2> QED  BY <1>5, <2>1, <2>2, <2>3, ZenonT(30) DEF Authenticate, TypeOK
  <1>6. ASSUME NEW i \in Ids, NEW t \in Tokens, CreateRow(r, i, t)  PROVE TypeOK'
    <2>1. [q EXCEPT !.pc = "trim", !.made = i, !.fresh = t, !.stamp = now] \in Request
      BY <1>q, TimesLemma DEF Request
    <2>2. table' \in [Ids -> Row]
      <3>1. q.user \in Users \cup {None}  BY <1>q DEF Request
      <3> QED  BY <1>6, <3>1, InsertedLemma DEF CreateRow
    <2> QED  BY <1>6, <2>1, <2>2 DEF CreateRow, TypeOK
  <1>7. CASE TrimSessions(r)
    <2>1. [Resumed(q) EXCEPT !.current = q.made, !.data = NoData, !.dirty = FALSE,
                             !.action = "set", !.set = q.fresh] \in Request
      <3>1. q.made \in Ids \cup {None} /\ q.fresh \in Tokens \cup {None}
        BY <1>q DEF Request
      <3>2. Resumed(q) \in Request  BY <1>q, ResumedType
      <3> QED  BY <3>1, <3>2, ZenonT(30) DEF Request
    <2>2. table' \in [Ids -> Row]  BY <1>7, DeletedLemma DEF TrimSessions
    <2> QED  BY <1>7, <2>1, <2>2 DEF TrimSessions, TypeOK
  <1>8. ASSUME NEW t \in Tokens, RotateToken(r, t)  PROVE TypeOK'
    <2>1. [q EXCEPT !.pc = "touch", !.fresh = t, !.ops = @ + 1] \in Request
      BY <1>q, RequestEdits
    <2>2. table' \in [Ids -> Row]
      <3>1. q.current \in Ids  BY <1>8, <1>q DEF RotateToken, Request
      <3> QED  BY <1>8, <3>1, RotatedLemma DEF RotateToken
    <2> QED  BY <1>8, <2>1, <2>2 DEF RotateToken, TypeOK
  <1>9. CASE TouchRotated(r)
    <2>1. [Resumed(q) EXCEPT !.action = "set", !.set = q.fresh] \in Request
      <3>1. q.fresh \in Tokens \cup {None}  BY <1>q DEF Request
      <3>2. Resumed(q) \in Request  BY <1>q, ResumedType
      <3> QED  BY <3>1, <3>2, ZenonT(30) DEF Request
    <2>2. table' \in [Ids -> Row]
      <3>1. CASE q.current \in Ids  BY <1>9, <3>1, TouchedLemma DEF TouchRotated
      <3>2. CASE q.current = None
        BY <1>9, <3>2, SessionsAssumption DEF TouchRotated, Touched, Updated, Live, TypeOK
      <3> QED  BY <3>1, <3>2, <1>q DEF Request
    <2> QED  BY <1>9, <2>1, <2>2 DEF TouchRotated, TypeOK
  <1>10. CASE StatementFails(r)
    BY <1>10, <1>q, ResumedType DEF StatementFails, TypeOK
  <1>11. ASSUME NEW S \in SUBSET Ids, Revoke(r, S)  PROVE TypeOK'
    <2>1. [q EXCEPT !.ops = @ + 1] \in Request  BY <1>q, RequestEdits
    <2>2. req' = [req EXCEPT ![r] = [q EXCEPT !.ops = @ + 1]]
      BY <1>11, <1>q DEF Revoke, TypeOK, Request
    <2>3. table' \in [Ids -> Row]  BY <1>11, DeletedLemma DEF Revoke
    <2> QED  BY <1>11, <2>1, <2>2, <2>3 DEF Revoke, TypeOK
  <1>12. ASSUME NEW S \in {{req[r].current}, OwnSessions(r)}, Logout(r, S)
         PROVE  TypeOK'
    <2>1. [q EXCEPT !.action = "remove", !.current = None, !.ops = @ + 1] \in Request
      BY <1>q, RequestEdits
    <2>2. req' = [req EXCEPT ![r] =
                    [q EXCEPT !.action = "remove", !.current = None, !.ops = @ + 1]]
      BY <1>12, <1>q DEF Logout, TypeOK, Request
    <2>3. table' \in [Ids -> Row]  BY <1>12, DeletedLemma DEF Logout
    <2> QED  BY <1>12, <2>1, <2>2, <2>3 DEF Logout, TypeOK
  <1>13. CASE Respond(r)
    <2>1. [Idle(q.browser) EXCEPT !.pc = "respond", !.set = Cookie(q)] \in Request
      <3>1. Idle(q.browser) \in Request  BY <1>q, IdleType DEF Request
      <3>2. Cookie(q) \in Tokens \cup {None, "keep"}  BY <1>q, CookieType
      <3> QED  BY <3>1, <3>2, ZenonT(30) DEF Request
    <2>2. table' \in [Ids -> Row]
      BY <1>13, <1>q, WrittenBackLemma DEF Respond, TypeOK
    <2> QED  BY <1>13, <2>1, <2>2 DEF Respond, TypeOK
  <1>14. CASE Deliver(r)
    <2>1. Idle(q.browser) \in Request /\ q.browser \in Browsers
      BY <1>q, IdleType DEF Request
    <2>2. jar' \in [Browsers -> Tokens \cup {None}]
      BY <1>14, <1>q, <2>1 DEF Deliver, TypeOK, Request
    <2> QED  BY <1>14, <2>1, <2>2 DEF Deliver, TypeOK
  <1> QED
    BY <1>1, <1>2, <1>3, <1>4, <1>5, <1>6, <1>7, <1>8, <1>9, <1>10, <1>11, <1>12,
       <1>13, <1>14 DEF CookieStep

LEMMA JwtStepType ==
  ASSUME TypeOK, NEW c \in Calls, JwtStep(c)
  PROVE  TypeOK'
  <1> DEFINE k == call[c]
  <1>k. k \in JwtCall  BY DEF TypeOK
  <1>n. NoCall \in JwtCall  BY DEF NoCall, JwtCall
  <1>m. ASSUME NEW u \in Users \cup {None}, NEW t \in Tokens \cup {None},
               NEW f \in Tokens \cup {None}
        PROVE  mint_pair(u, t, f) \in Pair
    BY TimesLemma DEF mint_pair, Pair
  <1>1. ASSUME NEW u \in Users, NEW i \in Ids, NEW t \in Tokens, JwtAuthenticate(c, u, i, t)
        PROVE  TypeOK'
    <2>1. [pc |-> "trim", token |-> t, id |-> i, user |-> u, stamp |-> now] \in JwtCall
      BY TimesLemma DEF JwtCall
    <2>2. table' \in [Ids -> Row]  BY <1>1, InsertedLemma DEF JwtAuthenticate
    <2> QED  BY <1>1, <2>1, <2>2 DEF JwtAuthenticate, TypeOK
  <1>2. CASE JwtTrim(c)
    <2>1. table' \in [Ids -> Row]  BY <1>2, DeletedLemma DEF JwtTrim
    <2>2. mint_pair(k.user, k.token, None) \in Pair  BY <1>k, <1>m DEF JwtCall
    <2> QED  BY <1>2, <1>n, <2>1, <2>2 DEF JwtTrim, TypeOK
  <1>3. ASSUME NEW p \in pairs, NEW then \in {"rotate", "destroy"}, JwtLookup(c, p, then)
        PROVE  TypeOK'
    <2>1. ASSUME NEW i \in Ids
          PROVE  [pc |-> then, token |-> p.token, id |-> i, user |-> p.user,
                  stamp |-> 0] \in JwtCall
      BY DEF JwtCall, TypeOK, Pair
    <2> QED  BY <1>3, <2>1 DEF JwtLookup, TypeOK, Matches
  <1>4. ASSUME NEW t \in Tokens, JwtRotate(c, t)  PROVE TypeOK'
    <2>1. table' \in [Ids -> Row]
      <3>1. CASE k.id \in Ids  BY <1>4, <3>1, RotatedLemma DEF JwtRotate
      <3>2. CASE k.id = None
        BY <1>4, <3>2, SessionsAssumption DEF JwtRotate, Rotated, Updated, Live, TypeOK
      <3> QED  BY <3>1, <3>2, <1>k DEF JwtCall
    <2>2. mint_pair(k.user, t, k.token) \in Pair  BY <1>k, <1>m DEF JwtCall
    <2> QED  BY <1>4, <1>n, <2>1, <2>2 DEF JwtRotate, TypeOK
  <1>5. CASE JwtDestroy(c)
    BY <1>5, <1>n, DeletedLemma DEF JwtDestroy, TypeOK
  <1>6. CASE JwtFails(c)  BY <1>6, <1>n DEF JwtFails, TypeOK
  <1> QED  BY <1>1, <1>2, <1>3, <1>4, <1>5, <1>6 DEF JwtStep

LEMMA TypeStep == TypeOK /\ [Next]_vars => TypeOK'
  <1> SUFFICES ASSUME TypeOK, [Next]_vars  PROVE TypeOK'  OBVIOUS
  <1>1. ASSUME NEW r \in Requests, CookieStep(r)  PROVE TypeOK'
    BY <1>1, RequestStepType
  <1>2. ASSUME NEW c \in Calls, JwtStep(c)  PROVE TypeOK'
    BY <1>2, JwtStepType
  <1>3. ASSUME NEW u \in Users, NEW S \in SUBSET Ids, RevokeFor(u, S)  PROVE TypeOK'
    BY <1>3, DeletedLemma DEF RevokeFor, TypeOK
  <1>4. CASE cleanup_expired  BY <1>4, DeletedLemma DEF cleanup_expired, TypeOK
  <1>5. CASE Tick  BY <1>5 DEF Tick, TypeOK
  <1>6. CASE UNCHANGED vars  BY <1>6 DEF vars, TypeOK
  <1> QED  BY <1>1, <1>2, <1>3, <1>4, <1>5, <1>6 DEF Next

LEMMA TypeInit == Init => TypeOK
  <1> SUFFICES ASSUME Init  PROVE TypeOK  OBVIOUS
  <1>1. NoRow \in Row  BY DEF NoRow, Row
  <1>2. NoCall \in JwtCall  BY DEF NoCall, JwtCall
  <1>3. {Idle(b) : b \in Browsers} \subseteq Request  BY IdleType
  <1> QED  BY <1>1, <1>2, <1>3 DEF Init, TypeOK

(* The session table, the requests and the JWT calls stay well typed.      *)
THEOREM TypeCorrect == Spec => []TypeOK
  BY TypeInit, TypeStep, PTL DEF Spec

-----------------------------------------------------------------------------
(* What a step may do to the tokens: a row keeps its token or goes, except *)
(* one row, that may get a token nobody had before.                        *)

Keeps(i) == Live(i)' => Live(i) /\ table'[i].token = table[i].token

Issues(k, t) ==
  /\ t \notin used /\ t \in used'
  /\ Live(k)' => table'[k].token = t
  /\ \A i \in Ids \ {k} : Keeps(i)

TokenStep ==
  /\ used \subseteq used'
  /\ (\A i \in Ids : Keeps(i)) \/ (\E k \in Ids, t \in Tokens : Issues(k, t))

LEMMA DeleteKeeps ==
  ASSUME TypeOK, NEW S, table' = Deleted(S)
  PROVE  \A i \in Ids : Keeps(i)
  BY DeletedLemma DEF Keeps, Live

LEMMA CookieTokenStep ==
  ASSUME TypeOK, NEW r \in Requests, CookieStep(r)
  PROVE  TokenStep
  <1> DEFINE q == req[r]
  <1>q. q \in Request  BY DEF TypeOK
  <1>u. ASSUME UNCHANGED table  PROVE \A i \in Ids : Keeps(i)
    BY <1>u DEF Keeps, Live
  <1>1. ASSUME NEW i \in Ids, NEW t \in Tokens, CreateRow(r, i, t)  PROVE TokenStep
    <2>1. q.user \in Users \cup {None}  BY <1>q DEF Request
    <2>2. Issues(i, t)
      BY <1>1, <2>1, InsertedLemma DEF CreateRow, Issues, Keeps, Live
    <2> QED  BY <1>1, <2>2 DEF TokenStep, CreateRow
  <1>2. ASSUME NEW t \in Tokens, RotateToken(r, t)  PROVE TokenStep
    <2>1. q.current \in Ids  BY <1>2, <1>q DEF RotateToken, Request
    <2>2. Issues(q.current, t)
      BY <1>2, <2>1, RotatedLemma DEF RotateToken, Issues, Keeps, Live
    <2> QED  BY <1>2, <2>1, <2>2 DEF TokenStep, RotateToken
  <1>3. CASE TouchRotated(r)
    <2>1. CASE q.current \in Ids
      BY <1>3, <2>1, TouchedLemma DEF TouchRotated, TokenStep, Keeps, Live
    <2>2. CASE q.current = None
      <3>1. UNCHANGED table
        BY <1>3, <2>2, SessionsAssumption DEF TouchRotated, Touched, Updated, Live, TypeOK
      <3> QED  BY <1>3, <3>1, <1>u DEF TouchRotated, TokenStep
    <2> QED  BY <2>1, <2>2, <1>q DEF Request
  <1>4. CASE Respond(r)
    <2>1. \A i \in Ids : Keeps(i)
      BY <1>4, <1>q, <1>u, WrittenBackLemma DEF Respond, Keeps, Live
    <2> QED  BY <1>4, <2>1 DEF Respond, TokenStep
  <1>5. ASSUME NEW b \in Browsers, Arrive(r, b)  PROVE TokenStep
    BY <1>5, <1>u DEF Arrive, TokenStep
  <1>6. CASE ReadSession(r)  BY <1>6, <1>u DEF ReadSession, TokenStep
  <1>7. CASE DestroyMismatched(r)
    BY <1>7, <1>u, DeleteKeeps DEF DestroyMismatched, TokenStep
  <1>8. ASSUME NEW v \in Values, SetData(r, v)  PROVE TokenStep
    BY <1>8, <1>u DEF SetData, TokenStep
  <1>9. ASSUME NEW u \in Users, Authenticate(r, u)  PROVE TokenStep
    BY <1>9, DeleteKeeps DEF Authenticate, TokenStep
  <1>10. CASE TrimSessions(r)  BY <1>10, DeleteKeeps DEF TrimSessions, TokenStep
  <1>11. CASE StatementFails(r)  BY <1>11, <1>u DEF StatementFails, TokenStep
  <1>12. ASSUME NEW S \in SUBSET Ids, Revoke(r, S)  PROVE TokenStep
    BY <1>12, DeleteKeeps DEF Revoke, TokenStep
  <1>13. ASSUME NEW S \in {{req[r].current}, OwnSessions(r)}, Logout(r, S)
         PROVE  TokenStep
    BY <1>13, DeleteKeeps DEF Logout, TokenStep
  <1>14. CASE Deliver(r)  BY <1>14, <1>u DEF Deliver, TokenStep
  <1> QED
    BY <1>1, <1>2, <1>3, <1>4, <1>5, <1>6, <1>7, <1>8, <1>9, <1>10, <1>11, <1>12,
       <1>13, <1>14 DEF CookieStep

LEMMA JwtTokenStep ==
  ASSUME TypeOK, NEW c \in Calls, JwtStep(c)
  PROVE  TokenStep
  <1> DEFINE k == call[c]
  <1>k. k \in JwtCall  BY DEF TypeOK
  <1>u. ASSUME UNCHANGED table  PROVE \A i \in Ids : Keeps(i)
    BY <1>u DEF Keeps, Live
  <1>1. ASSUME NEW u \in Users, NEW i \in Ids, NEW t \in Tokens, JwtAuthenticate(c, u, i, t)
        PROVE  TokenStep
    <2>1. Issues(i, t)
      BY <1>1, InsertedLemma DEF JwtAuthenticate, Issues, Keeps, Live
    <2> QED  BY <1>1, <2>1 DEF TokenStep, JwtAuthenticate
  <1>2. CASE JwtTrim(c)  BY <1>2, DeleteKeeps DEF JwtTrim, TokenStep
  <1>3. ASSUME NEW p \in pairs, NEW then \in {"rotate", "destroy"}, JwtLookup(c, p, then)
        PROVE  TokenStep
    BY <1>3, <1>u DEF JwtLookup, TokenStep
  <1>4. ASSUME NEW t \in Tokens, JwtRotate(c, t)  PROVE TokenStep
    <2>1. CASE k.id \in Ids
      <3>1. PICK i \in Ids : i = k.id  BY <2>1
      <3>2. table' = Rotated(i, t) /\ t \notin used /\ t \in used' /\ used \subseteq used'
        BY <1>4, <3>1 DEF JwtRotate
      <3>3. Issues(i, t)  BY <3>2, RotatedLemma DEF Issues, Keeps, Live
      <3> QED  BY <3>2, <3>3 DEF TokenStep
    <2>2. CASE k.id = None
      <3>1. UNCHANGED table
        BY <1>4, <2>2, SessionsAssumption DEF JwtRotate, Rotated, Updated, Live, TypeOK
      <3> QED  BY <1>4, <3>1, <1>u DEF JwtRotate, TokenStep
    <2> QED  BY <2>1, <2>2, <1>k DEF JwtCall
  <1>5. CASE JwtDestroy(c)  BY <1>5, DeleteKeeps DEF JwtDestroy, TokenStep
  <1>6. CASE JwtFails(c)  BY <1>6, <1>u DEF JwtFails, TokenStep
  <1> QED  BY <1>1, <1>2, <1>3, <1>4, <1>5, <1>6 DEF JwtStep

LEMMA EveryTokenStep == TypeOK /\ [Next]_vars => TokenStep
  <1> SUFFICES ASSUME TypeOK, [Next]_vars  PROVE TokenStep  OBVIOUS
  <1>u. ASSUME UNCHANGED table  PROVE \A i \in Ids : Keeps(i)
    BY <1>u DEF Keeps, Live
  <1>1. ASSUME NEW r \in Requests, CookieStep(r)  PROVE TokenStep
    BY <1>1, CookieTokenStep
  <1>2. ASSUME NEW c \in Calls, JwtStep(c)  PROVE TokenStep
    BY <1>2, JwtTokenStep
  <1>3. ASSUME NEW u \in Users, NEW S \in SUBSET Ids, RevokeFor(u, S)  PROVE TokenStep
    BY <1>3, DeleteKeeps DEF RevokeFor, TokenStep
  <1>4. CASE cleanup_expired  BY <1>4, DeleteKeeps DEF cleanup_expired, TokenStep
  <1>5. CASE Tick  BY <1>5, <1>u DEF Tick, TokenStep
  <1>6. CASE UNCHANGED vars  BY <1>6, <1>u DEF vars, TokenStep
  <1> QED  BY <1>1, <1>2, <1>3, <1>4, <1>5, <1>6 DEF Next

(* A dead token is not revived by a step. *)
LEMMA DeadStep ==
  ASSUME TokenStep, NEW t \in used, ~Bound(t)
  PROVE  ~Bound(t)'
  BY DEF TokenStep, Issues, Keeps, Bound, Live

(* A token that was rotated away, logged out, revoked, evicted or cleaned  *)
(* up never names a session again: no UPDATE or INSERT of a request or a   *)
(* call that is still under way brings it back.                            *)
THEOREM DeadTokensNeverReturn == Spec => DeadTokensStayDead
  <1>1. TypeOK /\ [Next]_vars => [\A t \in used : ~Bound(t) => ~Bound(t)']_vars
    <2> SUFFICES ASSUME TypeOK, [Next]_vars, NEW t \in used, ~Bound(t)
                 PROVE  ~Bound(t)'
      OBVIOUS
    <2> QED  BY EveryTokenStep, DeadStep
  <1> QED  BY <1>1, TypeCorrect, PTL DEF Spec, DeadTokensStayDead

-----------------------------------------------------------------------------
(* The inductive invariant of OldTokenEnds. *)

(* Tokens name one row, and were generated. *)
TokensInv ==
  /\ \A i \in Ids : Live(i) => table[i].token \in used
  /\ \A i, k \in Ids : Live(i) /\ Live(k) /\ table[i].token = table[k].token => i = k

(* Only the row the request read can bear the token it came with. *)
Reader(q) ==
  q.start # None =>
    /\ q.token \in used
    /\ \A i \in Ids : Live(i) /\ table[i].token = q.token => i = q.start

(* Before an operation succeeds, the current session is the one read. *)
Flow(q) ==
  /\ q.pc \in {"idle", "read", "mismatch", "respond"} =>
       q.start = None /\ q.action = "none"
  /\ q.start # None /\ q.action = "none" => q.current = q.start

(* The first statement of an operation ends the token already. *)
Ended(q) ==
  q.start # None /\ (q.action # "none" \/ q.pc \in {"create", "trim", "touch"})
    => ~Bound(q.token)

RequestInv(q) == Reader(q) /\ Flow(q) /\ Ended(q)

RequestsInv == \A r \in Requests, q \in Request : req[r] = q => RequestInv(q)

SessionInv == TypeOK /\ TokensInv /\ RequestsInv

LEMMA TokensStep ==
  ASSUME TokensInv, TokenStep
  PROVE  TokensInv'
  BY DEF TokensInv, TokenStep, Issues, Keeps, Live

(* A request that does not move keeps its part of the invariant. *)
LEMMA OthersStep ==
  ASSUME TokenStep, NEW q, RequestInv(q)
  PROVE  RequestInv(q)'
  <1>1. Reader(q)'  BY DEF RequestInv, Reader, TokenStep, Issues, Keeps, Live
  <1>2. Flow(q)'  BY DEF RequestInv, Flow
  <1>3. Ended(q)'
    <2>1. CASE q.start # None /\ (q.action # "none" \/ q.pc \in {"create", "trim", "touch"})
      <3>1. q.token \in used /\ ~Bound(q.token)  BY <2>1 DEF RequestInv, Reader, Ended
      <3> QED  BY <3>1, DeadStep DEF Ended
    <2>2. CASE ~(q.start # None /\ (q.action # "none" \/ q.pc \in {"create", "trim", "touch"}))
      BY <2>2 DEF Ended
    <2> QED  BY <2>1, <2>2
  <1> QED  BY <1>1, <1>2, <1>3 DEF RequestInv

(* A request without a session satisfies it. *)
LEMMA NoSession ==
  ASSUME NEW q, q.start = None,
         q.pc \in {"idle", "read", "mismatch", "respond"} => q.action = "none"
  PROVE  RequestInv(q) /\ RequestInv(q)'
  BY DEF RequestInv, Reader, Flow, Ended

(* One that goes on with its session satisfies it if its operations have   *)
(* ended the token.                                                        *)
LEMMA GoesOn ==
  ASSUME TokenStep, NEW q, NEW x, RequestInv(q),
         x.start = q.start, x.token = q.token,
         x.pc \notin {"idle", "read", "mismatch", "respond"},
         x.start # None /\ x.action = "none" => x.current = x.start,
         x.start # None /\ (x.action # "none" \/ x.pc \in {"create", "trim", "touch"})
           => ~Bound(x.token)'
  PROVE  RequestInv(x)'
  <1>1. Reader(q)'  BY DEF RequestInv, Reader, TokenStep, Issues, Keeps, Live
  <1>2. Reader(x)'  BY <1>1 DEF Reader
  <1>3. Flow(x)'  BY DEF Flow
  <1>4. Ended(x)'  BY DEF Ended
  <1> QED  BY <1>2, <1>3, <1>4 DEF RequestInv

(* The same operations, the same sessions: what was ended stays ended. *)
LEMMA StaysEnded ==
  ASSUME TokenStep, NEW q, RequestInv(q), q.start # None,
         q.action # "none" \/ q.pc \in {"create", "trim", "touch"}
  PROVE  ~Bound(q.token)'
  <1>1. q.token \in used /\ ~Bound(q.token)  BY DEF RequestInv, Reader, Ended
  <1> QED  BY <1>1, DeadStep

(* Deleting the current session, or giving it a fresh token, ends the      *)
(* token of the request.                                                   *)
LEMMA DeleteEnds ==
  ASSUME TypeOK, TokenStep, NEW q, RequestInv(q), q.start \in Ids,
         q.pc = "handler", NEW S, table' = Deleted(S),
         Live(q.current) => q.current \in S
  PROVE  ~Bound(q.token)'
  <1>1. CASE q.action # "none"
    <2>1. q.start # None  BY SessionsAssumption
    <2> QED  BY <1>1, <2>1, StaysEnded
  <1>2. CASE q.action = "none"
    <2>1. q.start # None  BY SessionsAssumption
    <2>2. q.current = q.start  BY <1>2, <2>1 DEF RequestInv, Flow
    <2>3. \A i \in Ids : Live(i) /\ table[i].token = q.token => i = q.start
      BY <2>1 DEF RequestInv, Reader
    <2>4. \A i \in Ids : Live(i)' => i \notin S /\ table'[i] = table[i] /\ Live(i)
      BY DeletedLemma DEF Live
    <2> QED  BY <2>2, <2>3, <2>4 DEF Bound, Live
  <1> QED  BY <1>1, <1>2

LEMMA RotateEnds ==
  ASSUME TypeOK, TokenStep, NEW q, RequestInv(q), q.start \in Ids, q.current \in Ids,
         q.pc = "handler", NEW t \in Tokens, t \notin used, table' = Rotated(q.current, t)
  PROVE  ~Bound(q.token)'
  <1>0. q.start # None  BY SessionsAssumption
  <1>1. CASE q.action # "none"  BY <1>0, <1>1, StaysEnded
  <1>2. CASE q.action = "none"
    <2>1. PICK i \in Ids : i = q.start /\ i = q.current
      BY <1>0, <1>2 DEF RequestInv, Flow
    <2>2. q.token # t /\ \A k \in Ids : Live(k) /\ table[k].token = q.token => k = i
      BY <1>0, <2>1 DEF RequestInv, Reader
    <2>3. \A k \in Ids : Live(k)' => Live(k) /\ table'[k].token =
                                       IF k = i THEN t ELSE table[k].token
      BY <2>1, RotatedLemma DEF Live
    <2> QED  BY <2>2, <2>3 DEF Bound, Live
  <1> QED  BY <1>1, <1>2

LEMMA MoveStep ==
  ASSUME SessionInv, TokenStep, NEW r \in Requests, NEW x \in Request,
         req' = [req EXCEPT ![r] = x], RequestInv(x)'
  PROVE  RequestsInv'
  <1> SUFFICES ASSUME NEW s \in Requests, NEW q \in Request, req'[s] = q
               PROVE  RequestInv(q)'
    BY DEF RequestsInv
  <1>1. CASE s = r  BY <1>1 DEF SessionInv, TypeOK
  <1>2. CASE s # r
    <2>1. req[s] = q  BY <1>2 DEF SessionInv, TypeOK
    <2>2. RequestInv(q)  BY <2>1 DEF SessionInv, RequestsInv
    <2> QED  BY <2>2, OthersStep
  <1> QED  BY <1>1, <1>2

(* Reading a session binds the request to the one row with its token. *)
LEMMA ReadStep ==
  ASSUME SessionInv, TokenStep, NEW r \in Requests, ReadSession(r)
  PROVE  RequestsInv'
  <1>1. PICK q \in Request : q = req[r]  BY DEF SessionInv, TypeOK
  <1>2. q.start = None /\ q.action = "none"
    BY <1>1 DEF ReadSession, SessionInv, RequestsInv, RequestInv, Flow
  <1>3. PICK x \in Request : req' = [req EXCEPT ![r] = x]
    <2>1. req'[r] \in Request
      <3>1. TypeOK'
        BY RequestStepType DEF SessionInv, CookieStep
      <3> QED  BY <3>1 DEF TypeOK
    <2>2. req' = [req EXCEPT ![r] = req'[r]]  BY DEF ReadSession, SessionInv, TypeOK
    <2> QED  BY <2>1, <2>2
  <1>4. req'[r] = x  BY <1>3 DEF SessionInv, TypeOK
  <1>5. CASE \E i \in Matches(q.token) : x = Loaded(q, i)
    <2>1. PICK i \in Ids : /\ x = Loaded(q, i)
                           /\ Live(i) /\ table[i].token = q.token
      BY <1>5 DEF Matches
    <2>2. /\ x.pc = "handler" /\ x.start = i /\ x.current = i
          /\ x.token = q.token /\ x.action = "none"
      BY <1>2, <2>1 DEF Loaded, Request
    <2>3. table' = table /\ used' = used  BY DEF ReadSession
    <2>4. Reader(x)'
      BY <2>1, <2>2, <2>3 DEF Reader, SessionInv, TokensInv, Live
    <2>5. Flow(x)' /\ Ended(x)'  BY <2>2 DEF Flow, Ended
    <2> QED  BY <1>3, <2>4, <2>5, MoveStep DEF RequestInv
  <1>6. CASE x.start = None /\ x.action = "none"
    BY <1>3, <1>6, NoSession, MoveStep
  <1>7. \/ \E i \in Matches(q.token) : x = Loaded(q, i)
        \/ \E i : x = [q EXCEPT !.pc = "mismatch", !.made = i]
        \/ x = [q EXCEPT !.pc = "handler"]
        \/ x = [q EXCEPT !.pc = "handler", !.failed = TRUE]
    <2>1. \A y : req' = [req EXCEPT ![r] = y] => y = x
      BY <1>4 DEF SessionInv, TypeOK
    <2> QED  BY <1>1, <2>1 DEF ReadSession
  <1>8. ASSUME NEW i, x = [q EXCEPT !.pc = "mismatch", !.made = i]
        PROVE  x.start = None /\ x.action = "none"
    BY <1>2, <1>8 DEF Request
  <1>9. ASSUME \/ x = [q EXCEPT !.pc = "handler"]
               \/ x = [q EXCEPT !.pc = "handler", !.failed = TRUE]
        PROVE  x.start = None /\ x.action = "none"
    BY <1>2, <1>9, ZenonT(30) DEF Request
  <1> QED  BY <1>5, <1>6, <1>7, <1>8, <1>9

LEMMA RequestStep ==
  ASSUME SessionInv, TokenStep, TypeOK', NEW r \in Requests, CookieStep(r)
  PROVE  RequestsInv'
  <1>q. PICK q \in Request : q = req[r] /\ RequestInv(q)
    BY DEF SessionInv, TypeOK, RequestsInv
  <1>t. TypeOK  BY DEF SessionInv
  <1>x. PICK x \in Request : x = req'[r]  BY DEF TypeOK
  <1>m. ASSUME req' = [req EXCEPT ![r] = req'[r]], RequestInv(x)'  PROVE RequestsInv'
    BY <1>m, <1>x, MoveStep
  <1>i. q.start # None => q.start \in Ids  BY DEF Request
  <1>1. ASSUME NEW b \in Browsers, Arrive(r, b)  PROVE RequestsInv'
    <2>1. x = [Idle(b) EXCEPT !.pc = "read", !.token = jar[b]]
      BY <1>1, <1>t, <1>x DEF Arrive, TypeOK
    <2>2. x.start = None /\ x.action = "none"  BY <2>1 DEF Idle
    <2>3. req' = [req EXCEPT ![r] = req'[r]]  BY <1>1, <1>t DEF Arrive, TypeOK
    <2> QED  BY <1>m, <2>2, <2>3, NoSession
  <1>2. CASE ReadSession(r)  BY <1>2, ReadStep
  <1>3. CASE DestroyMismatched(r)
    <2>1. x = [q EXCEPT !.pc = "handler", !.made = None] /\ q.pc = "mismatch"
      BY <1>3, <1>t, <1>x, <1>q DEF DestroyMismatched, TypeOK
    <2>2. x.start = None /\ x.action = "none"
      BY <1>q, <2>1 DEF RequestInv, Flow, Request
    <2>3. req' = [req EXCEPT ![r] = req'[r]]  BY <1>3, <1>t DEF DestroyMismatched, TypeOK
    <2> QED  BY <1>m, <2>2, <2>3, NoSession
  <1>4. ASSUME NEW v \in Values, SetData(r, v)  PROVE RequestsInv'
    <2>1. x = [q EXCEPT !.data = v, !.dirty = TRUE, !.ops = @ + 1] /\ q.pc = "handler"
      BY <1>4, <1>t, <1>x, <1>q DEF SetData, Handling, TypeOK, Request
    <2>2. /\ x.start = q.start /\ x.token = q.token /\ x.pc = "handler"
          /\ x.action = q.action /\ x.current = q.current
      BY <2>1 DEF Request
    <2>3. req' = [req EXCEPT ![r] = req'[r]]  BY <1>4, <1>t DEF SetData, TypeOK
    <2>4. RequestInv(x)'
      BY <1>q, <2>2, GoesOn, StaysEnded DEF RequestInv, Flow
    <2> QED  BY <1>m, <2>3, <2>4
  <1>5. ASSUME NEW u \in Users, Authenticate(r, u)  PROVE RequestsInv'
    <2>1. /\ x = [q EXCEPT !.pc = "create", !.user = u, !.ops = @ + 1]
          /\ q.pc = "handler" /\ table' = Deleted({q.current})
      BY <1>5, <1>t, <1>x, <1>q DEF Authenticate, Handling, TypeOK, Request
    <2>2. /\ x.start = q.start /\ x.token = q.token /\ x.pc = "create"
          /\ x.action = q.action /\ x.current = q.current
      BY <2>1 DEF Request
    <2>3. req' = [req EXCEPT ![r] = req'[r]]  BY <1>5, <1>t DEF Authenticate, TypeOK
    <2>4. q.start # None => ~Bound(q.token)'
      BY <1>t, <1>q, <1>i, <2>1, DeleteEnds
    <2>5. RequestInv(x)'
      BY <1>q, <2>2, <2>4, GoesOn DEF RequestInv, Flow
    <2> QED  BY <1>m, <2>3, <2>5
  <1>6. ASSUME NEW i \in Ids, NEW t \in Tokens, CreateRow(r, i, t)  PROVE RequestsInv'
    <2>1. /\ x = [q EXCEPT !.pc = "trim", !.made = i, !.fresh = t, !.stamp = now]
          /\ q.pc = "create"
      BY <1>6, <1>t, <1>x, <1>q DEF CreateRow, TypeOK
    <2>2. /\ x.start = q.start /\ x.token = q.token /\ x.pc = "trim"
          /\ x.action = q.action /\ x.current = q.current
      BY <2>1 DEF Request
    <2>3. req' = [req EXCEPT ![r] = req'[r]]  BY <1>6, <1>t DEF CreateRow, TypeOK
    <2>4. RequestInv(x)'
      BY <1>q, <2>1, <2>2, GoesOn, StaysEnded DEF RequestInv, Flow
    <2> QED  BY <1>m, <2>3, <2>4
  <1>7. CASE TrimSessions(r)
    <2>1. /\ x = [Resumed(q) EXCEPT !.current = q.made, !.data = NoData, !.dirty = FALSE,
                                    !.action = "set", !.set = q.fresh]
          /\ q.pc = "trim"
      BY <1>7, <1>t, <1>x, <1>q DEF TrimSessions, TypeOK
    <2>2. /\ x.start = q.start /\ x.token = q.token /\ x.pc = "handler"
          /\ x.action = "set"
      BY <2>1, ResumedType DEF Request
    <2>3. req' = [req EXCEPT ![r] = req'[r]]  BY <1>7, <1>t DEF TrimSessions, TypeOK
    <2>4. RequestInv(x)'
      BY <1>q, <2>1, <2>2, GoesOn, StaysEnded
    <2> QED  BY <1>m, <2>3, <2>4
  <1>8. ASSUME NEW t \in Tokens, RotateToken(r, t)  PROVE RequestsInv'
    <2>1. /\ x = [q EXCEPT !.pc = "touch", !.fresh = t, !.ops = @ + 1]
          /\ q.pc = "handler" /\ table' = Rotated(q.current, t) /\ t \notin used
          /\ q.current \in Ids
      BY <1>8, <1>t, <1>x, <1>q DEF RotateToken, Handling, TypeOK, Request
    <2>2. /\ x.start = q.start /\ x.token = q.token /\ x.pc = "touch"
          /\ x.action = q.action /\ x.current = q.current
      BY <2>1 DEF Request
    <2>3. req' = [req EXCEPT ![r] = req'[r]]  BY <1>8, <1>t DEF RotateToken, TypeOK
    <2>4. q.start # None => ~Bound(q.token)'
      BY <1>t, <1>q, <1>i, <2>1, RotateEnds
    <2>5. RequestInv(x)'
      BY <1>q, <2>2, <2>4, GoesOn DEF RequestInv, Flow
    <2> QED  BY <1>m, <2>3, <2>5
  <1>9. CASE TouchRotated(r)
    <2>1. /\ x = [Resumed(q) EXCEPT !.action = "set", !.set = q.fresh]
          /\ q.pc = "touch"
      BY <1>9, <1>t, <1>x, <1>q DEF TouchRotated, TypeOK
    <2>2. /\ x.start = q.start /\ x.token = q.token /\ x.pc = "handler"
          /\ x.action = "set"
      BY <2>1, ResumedType DEF Request
    <2>3. req' = [req EXCEPT ![r] = req'[r]]  BY <1>9, <1>t DEF TouchRotated, TypeOK
    <2>4. RequestInv(x)'
      BY <1>q, <2>1, <2>2, GoesOn, StaysEnded
    <2> QED  BY <1>m, <2>3, <2>4
  <1>10. CASE StatementFails(r)
    <2>1. x = Resumed(q)
      BY <1>10, <1>t, <1>x, <1>q DEF StatementFails, TypeOK
    <2>2. req' = [req EXCEPT ![r] = req'[r]]  BY <1>10, <1>t DEF StatementFails, TypeOK
    <2>3. RequestInv(x)'
      BY <1>q, <2>1, ResumedType, GoesOn, StaysEnded DEF RequestInv, Flow
    <2> QED  BY <1>m, <2>2, <2>3
  <1>11. ASSUME NEW S \in SUBSET Ids, Revoke(r, S)  PROVE RequestsInv'
    <2>1. x = [q EXCEPT !.ops = @ + 1] /\ q.pc = "handler"
      BY <1>11, <1>t, <1>x, <1>q DEF Revoke, Handling, TypeOK, Request
    <2>2. /\ x.start = q.start /\ x.token = q.token /\ x.pc = "handler"
          /\ x.action = q.action /\ x.current = q.current
      BY <2>1 DEF Request
    <2>3. req' = [req EXCEPT ![r] = req'[r]]  BY <1>11, <1>t DEF Revoke, TypeOK
    <2>4. RequestInv(x)'
      BY <1>q, <2>2, GoesOn, StaysEnded DEF RequestInv, Flow
    <2> QED  BY <1>m, <2>3, <2>4
  <1>12. ASSUME NEW S \in {{req[r].current}, OwnSessions(r)}, Logout(r, S)
         PROVE  RequestsInv'
    <2>1. /\ x = [q EXCEPT !.action = "remove", !.current = None, !.ops = @ + 1]
          /\ q.pc = "handler" /\ table' = Deleted(S)
      BY <1>12, <1>t, <1>x, <1>q DEF Logout, Handling, TypeOK, Request
    <2>2. /\ x.start = q.start /\ x.token = q.token /\ x.pc = "handler"
          /\ x.action = "remove"
      BY <2>1 DEF Request
    <2>3. req' = [req EXCEPT ![r] = req'[r]]  BY <1>12, <1>t DEF Logout, TypeOK
    <2>4. q.current # None /\ Live(q.current) => q.current \in S
      <3>1. q.current # None => q.current \in Ids  BY DEF Request
      <3> QED  BY <1>12, <1>q, <3>1 DEF OwnSessions, SessionsOf
    <2>5. ASSUME q.start # None  PROVE ~Bound(q.token)'
      <3>1. CASE q.action # "none"  BY <1>q, <2>5, <3>1, StaysEnded
      <3>2. CASE q.action = "none"
        <4>1. q.current = q.start  BY <1>q, <2>5, <3>2 DEF RequestInv, Flow
        <4> QED  BY <1>t, <1>q, <1>i, <2>1, <2>4, <2>5, <4>1, DeleteEnds
      <3> QED  BY <3>1, <3>2
    <2>6. RequestInv(x)'  BY <1>q, <2>2, <2>5, GoesOn
    <2> QED  BY <1>m, <2>3, <2>6
  <1>13. CASE Respond(r)
    <2>1. x = [Idle(q.browser) EXCEPT !.pc = "respond", !.set = Cookie(q)]
      BY <1>13, <1>t, <1>x, <1>q DEF Respond, TypeOK
    <2>2. x.start = None /\ x.action = "none"  BY <2>1 DEF Idle
    <2>3. req' = [req EXCEPT ![r] = req'[r]]  BY <1>13, <1>t DEF Respond, TypeOK
    <2> QED  BY <1>m, <2>2, <2>3, NoSession
  <1>14. CASE Deliver(r)
    <2>1. x = Idle(q.browser)
      BY <1>14, <1>t, <1>x, <1>q DEF Deliver, TypeOK
    <2>2. x.start = None /\ x.action = "none"  BY <2>1 DEF Idle
    <2>3. req' = [req EXCEPT ![r] = req'[r]]  BY <1>14, <1>t DEF Deliver, TypeOK
    <2> QED  BY <1>m, <2>2, <2>3, NoSession
  <1> QED
    BY <1>1, <1>2, <1>3, <1>4, <1>5, <1>6, <1>7, <1>8, <1>9, <1>10, <1>11, <1>12,
       <1>13, <1>14 DEF CookieStep

LEMMA SessionStep == SessionInv /\ [Next]_vars => SessionInv'
  <1> SUFFICES ASSUME SessionInv, [Next]_vars  PROVE SessionInv'  OBVIOUS
  <1>1. TypeOK' /\ TokenStep  BY TypeStep, EveryTokenStep DEF SessionInv
  <1>2. TokensInv'  BY <1>1, TokensStep DEF SessionInv
  <1>3. ASSUME UNCHANGED req  PROVE RequestsInv'
    <2> SUFFICES ASSUME NEW s \in Requests, NEW q \in Request, req'[s] = q
                 PROVE  RequestInv(q)'
      BY DEF RequestsInv
    <2>1. RequestInv(q)  BY <1>3 DEF SessionInv, RequestsInv
    <2> QED  BY <1>1, <2>1, OthersStep
  <1>4. RequestsInv'
    <2>1. ASSUME NEW r \in Requests, CookieStep(r)  PROVE RequestsInv'
      BY <1>1, <2>1, RequestStep
    <2>2. ASSUME NEW c \in Calls, JwtStep(c)  PROVE UNCHANGED req
      BY <2>2 DEF JwtStep, JwtAuthenticate, JwtTrim, JwtLookup, JwtRotate, JwtDestroy, JwtFails
    <2>3. ASSUME NEW u \in Users, NEW S \in SUBSET Ids, RevokeFor(u, S)
          PROVE  UNCHANGED req
      BY <2>3 DEF RevokeFor
    <2>4. cleanup_expired \/ Tick \/ UNCHANGED vars => UNCHANGED req
      BY DEF cleanup_expired, Tick, vars
    <2> QED  BY <1>3, <2>1, <2>2, <2>3, <2>4 DEF Next
  <1> QED  BY <1>1, <1>2, <1>4 DEF SessionInv

LEMMA SessionInit == Init => SessionInv
  <1> SUFFICES ASSUME Init  PROVE SessionInv  OBVIOUS
  <1>1. TokensInv  BY DEF Init, TokensInv, Live, NoRow
  <1>2. RequestsInv
    <2> SUFFICES ASSUME NEW r \in Requests, NEW q \in Request, req[r] = q
                 PROVE  RequestInv(q)
      BY DEF RequestsInv
    <2>1. q.start = None /\ q.action = "none"  BY DEF Init, Idle
    <2> QED  BY <2>1, NoSession
  <1> QED  BY <1>1, <1>2, TypeInit DEF SessionInv

(* After a login, a logout or a rotation, the token the request came with  *)
(* opens no session any more, whatever the other requests of its browser,  *)
(* the JWT calls and the cleanup do in between (authenticate_with, rotate, *)
(* logout and logout_all of CookieSession).                                *)
THEOREM OldTokensEnd == Spec => []OldTokenEnds
  <1>1. SessionInv => OldTokenEnds
    <2> SUFFICES ASSUME SessionInv, NEW r \in Requests,
                        req[r].start # None, req[r].action # "none"
                 PROVE  ~Bound(req[r].token)
      BY DEF OldTokenEnds
    <2>1. RequestInv(req[r])  BY DEF SessionInv, RequestsInv, TypeOK
    <2> QED  BY <2>1 DEF RequestInv, Ended
  <1> QED  BY <1>1, SessionInit, SessionStep, PTL DEF Spec
=============================================================================
