--------------------------- MODULE BrowserCookies ---------------------------
(***************************************************************************)
(* What the CSRF and flash middlewares keep in a browser's cookies         *)
(* (src/middleware/csrf.rs, src/flash).  The server keeps nothing: a       *)
(* request carries the cookies the browser held when it was sent, its tab  *)
(* the token of the page it shows, and the response sets cookies when it   *)
(* arrives, if it does.  Requests of one browser overlap.                  *)
(***************************************************************************)
EXTENDS Integers, FiniteSets

CONSTANTS
  Tabs,
  Requests,        \* requests that can be under way at a time
  CsrfTokens,      \* what ulid() returns for new tokens, each once
  Messages,        \* flash messages, each queued once
  None             \* no cookie, no token

VARIABLES
  jar,             \* the browser's csrf and flash cookies
  tab,             \* per tab: the token in the page it shows
  req,             \* per request slot: the request under way
  minted,          \* the tokens generated so far
  queued,          \* the messages queued so far
  shown,           \* messages whose reader's response arrived
  overlap          \* whether a cookie expired or two first visits overlapped

vars == <<jar, tab, req, minted, queued, shown, overlap>>

Request ==
  [pc : {"idle", "sent", "handler", "response"}, tab : Tabs \cup {None},
   safe : BOOLEAN,                     \* an exempt method
   cookie : CsrfTokens \cup {None},    \* the csrf cookie, verified
   submitted : CsrfTokens \cup {None}, \* the X-CSRF-Token header
   token : CsrfTokens \cup {None},     \* CsrfToken, for the page
   set : CsrfTokens \cup {None},       \* the csrf cookie of the response
   incoming : SUBSET Messages,         \* FlashState::incoming
   outgoing : SUBSET Messages,         \* FlashState::outgoing
   read : BOOLEAN,                     \* FlashState::read
   flash : {"keep", "write", "remove"}]

NoRequest ==
  [pc |-> "idle", tab |-> None, safe |-> TRUE, cookie |-> None, submitted |-> None,
   token |-> None, set |-> None, incoming |-> {}, outgoing |-> {}, read |-> FALSE,
   flash |-> "keep"]

Init ==
  /\ jar = [csrf |-> None, flash |-> {}]
  /\ tab = [t \in Tabs |-> None]
  /\ req = [r \in Requests |-> NoRequest]
  /\ minted = {} /\ queued = {} /\ shown = {}
  /\ overlap = FALSE

(* A visit that will be given a new token is under way. *)
FirstVisit(q) == q.pc # "idle" /\ q.safe /\ q.cookie = None

Send(r, t, safe) ==
  LET q == [NoRequest EXCEPT !.pc = "sent", !.tab = t, !.safe = safe, !.cookie = jar.csrf,
              !.submitted = IF safe THEN None ELSE tab[t], !.incoming = jar.flash] IN
  /\ req[r].pc = "idle"
  /\ req' = [req EXCEPT ![r] = q]
  /\ overlap' = 
       (overlap \/ (FirstVisit(q) /\ \E s \in Requests : FirstVisit(req[s])))
  /\ UNCHANGED <<jar, tab, minted, queued, shown>>

-----------------------------------------------------------------------------
(* CsrfService::call up to the handler. *)

(* Fault: every safe request gets a new token. *)
SafeRotates(r) ==
  /\ req[r].pc = "sent" /\ req[r].safe
  /\ \E t \in CsrfTokens \ minted :
       /\ minted' = minted \cup {t}
       /\ req' = [req EXCEPT ![r].pc = "handler", ![r].token = t, ![r].set = t]
  /\ UNCHANGED <<jar, tab, queued, shown, overlap>>

(* An exempt method: the cookie's token, or a new one and its cookie. *)
Safe(r) ==
  /\ req[r].pc = "sent" /\ req[r].safe
  /\ IF req[r].cookie # None
     THEN /\ req' = [req EXCEPT ![r].pc = "handler", ![r].token = req[r].cookie]
          /\ UNCHANGED minted
     ELSE \E t \in CsrfTokens \ minted :
            /\ minted' = minted \cup {t}
            /\ req' = [req EXCEPT ![r].pc = "handler", ![r].token = t, ![r].set = t]
  /\ UNCHANGED <<jar, tab, queued, shown, overlap>>

(* Any other: the header must repeat the cookie's token, or it is a 403. *)
Unsafe(r) ==
  LET verified == req[r].cookie # None /\ req[r].submitted = req[r].cookie IN
  /\ req[r].pc = "sent" /\ ~req[r].safe
  /\ req' = [req EXCEPT ![r].pc = IF verified THEN "handler" ELSE "response"]
  /\ UNCHANGED <<jar, tab, minted, queued, shown, overlap>>

-----------------------------------------------------------------------------
(* The handler's Flash extractor. *)

set(r, m) ==
  /\ req[r].pc = "handler" /\ m \notin queued
  /\ queued' = queued \cup {m}
  /\ req' = [req EXCEPT ![r].outgoing = @ \cup {m}]
  /\ UNCHANGED <<jar, tab, minted, shown, overlap>>

(* messages(), or flash_messages() in the template. *)
messages(r) ==
  /\ req[r].pc = "handler" /\ ~req[r].read
  /\ req' = [req EXCEPT ![r].read = TRUE]
  /\ UNCHANGED <<jar, tab, minted, queued, shown, overlap>>

(* Fault: the cookie goes even if nobody read it; or what was read stays. *)
FlashActionAlways(q) == IF q.outgoing # {} THEN "write" ELSE "remove"

FlashActionKeeps(q) == IF q.outgoing # {} THEN "write" ELSE "keep"

(* FlashMiddleware::call after the handler. *)
FlashAction(q) ==
  IF q.outgoing # {} THEN "write" ELSE IF q.read THEN "remove" ELSE "keep"

Respond(r) ==
  /\ req[r].pc = "handler"
  /\ req' = [req EXCEPT ![r].pc = "response", ![r].flash = FlashAction(req[r])]
  /\ UNCHANGED <<jar, tab, minted, queued, shown, overlap>>

-----------------------------------------------------------------------------
(* The browser. *)

(* The response arrives: its cookies go into the jar, its page in the tab. *)
Deliver(r) ==
  LET q == req[r] IN
  /\ q.pc = "response"
  /\ jar' = [csrf |-> IF q.set # None THEN q.set ELSE jar.csrf,
             flash |-> CASE q.flash = "write" -> q.outgoing
                         [] q.flash = "remove" -> {}
                         [] q.flash = "keep" -> jar.flash]
  /\ tab' = IF q.safe THEN [tab EXCEPT ![q.tab] = q.token] ELSE tab
  /\ shown' = IF q.read THEN shown \cup q.incoming ELSE shown
  /\ req' = [req EXCEPT ![r] = NoRequest]
  /\ UNCHANGED <<minted, queued, overlap>>

Lose(r) ==
  /\ req[r].pc = "response"
  /\ req' = [req EXCEPT ![r] = NoRequest]
  /\ UNCHANGED <<jar, tab, minted, queued, shown, overlap>>

(* Max-Age: a cookie is not renewed by the requests that use it. *)
Expire ==
  \/ /\ jar.csrf # None
     /\ jar' = [jar EXCEPT !.csrf = None]
     /\ overlap' = TRUE
     /\ UNCHANGED <<tab, req, minted, queued, shown>>
  \/ /\ jar.flash # {}
     /\ jar' = [jar EXCEPT !.flash = {}]
     /\ UNCHANGED <<tab, req, minted, queued, shown, overlap>>

Next ==
  \/ \E r \in Requests :
       \/ \E t \in Tabs, safe \in BOOLEAN : Send(r, t, safe)
       \/ Safe(r) \/ Unsafe(r)
       \/ \E m \in Messages : set(r, m)
       \/ messages(r)
       \/ Respond(r) \/ Deliver(r) \/ Lose(r)
  \/ Expire

Spec == Init /\ [][Next]_vars

-----------------------------------------------------------------------------
(* "Rotating on every GET would invalidate tokens already rendered into    *)
(* open tabs": a page's token stops matching the cookie only if the cookie *)
(* expired or two first visits overlapped (CsrfService::call).             *)
TabsStayValid ==
  ~overlap => \A t \in Tabs : tab[t] \in {None, jar.csrf}

(* A message leaves the cookie unread only for newer messages, by its      *)
(* expiry, or through a response whose request was sent before it came     *)
(* (FlashMiddleware::call).                                                *)
UnreadLeavesForACause ==
  [][\A m \in jar.flash \ (jar'.flash \cup shown') :
       \/ jar'.flash # {}
       \/ Expire
       \/ \E r \in Requests : Deliver(r) /\ m \notin req[r].incoming]_vars

(* A message whose reader's response arrived is shown to no request that   *)
(* is sent afterwards ("cleared after being read").                        *)
ShownOnce == shown \cap jar.flash = {}
=============================================================================
