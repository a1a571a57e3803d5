--------------------------- MODULE RequestsProofs ---------------------------
(***************************************************************************)
(* Proofs about requests, for all values of the parameters: what they keep *)
(* between them (the cookies of a browser, the domain claims of tenants    *)
(* and the API keys) and the stack of layers, for every sequence of        *)
(* layers, every catalog of translations and every set of hosts.           *)
(*                                                                         *)
(* The layers are reduced to three kinds of steps: one goes on with the    *)
(* request, one answers it and one lets the response out.  Each invariant  *)
(* is then proved for the three.                                           *)
(***************************************************************************)
EXTENDS RequestState, SequenceTheorems, WellFoundedInduction, TLAPS

-----------------------------------------------------------------------------
(* The cookies of a browser. *)

Tokens == CsrfTokens \cup {None}

BrowserTypeOK ==
  /\ jar \in [csrf : Tokens, flash : SUBSET Messages]
  /\ tab \in [Tabs -> Tokens]
  /\ req \in [Requests -> Browser!Request]
  /\ \A r \in Requests : /\ req[r].pc = "idle" => req[r] = Browser!NoRequest
                         /\ req[r].pc # "idle" => req[r].tab \in Tabs
  /\ queued \subseteq Messages /\ shown \subseteq Messages

LEMMA NoRequestType ==
  /\ Browser!NoRequest \in Browser!Request
  /\ Browser!NoRequest.pc = "idle" /\ Browser!NoRequest.outgoing = {}
  /\ Browser!NoRequest.incoming = {} /\ Browser!NoRequest.set = None
  /\ Browser!NoRequest.read = FALSE
  BY DEF Browser!NoRequest, Browser!Request

(* The request that is sent. *)
Sent(t, safe) ==
  [Browser!NoRequest EXCEPT !.pc = "sent", !.tab = t, !.safe = safe, !.cookie = jar.csrf,
     !.submitted = IF safe THEN None ELSE tab[t], !.incoming = jar.flash]

LEMMA SentType ==
  ASSUME BrowserTypeOK, NEW t \in Tabs, NEW safe \in BOOLEAN
  PROVE  /\ Sent(t, safe) \in Browser!Request
         /\ Sent(t, safe).pc = "sent" /\ Sent(t, safe).tab = t
         /\ Sent(t, safe).safe = safe /\ Sent(t, safe).cookie = jar.csrf
         /\ Sent(t, safe).incoming = jar.flash /\ Sent(t, safe).outgoing = {}
         /\ Sent(t, safe).set = None /\ Sent(t, safe).read = FALSE
         /\ Sent(t, safe).flash = "keep"
  <1>1. /\ jar.csrf \in Tokens /\ jar.flash \in SUBSET Messages
        /\ (IF safe THEN None ELSE tab[t]) \in Tokens
    BY DEF BrowserTypeOK, Tokens
  <1>2. Sent(t, safe) \in Browser!Request
    BY <1>1 DEF Sent, Browser!NoRequest, Browser!Request, Tokens
  <1>3. QED
    BY <1>2 DEF Sent, Browser!NoRequest

(* Nothing of a request changes at the server but where it is, and what    *)
(* the response will say.                                                  *)
Keeps(q, p) ==
  q.tab = p.tab /\ q.safe = p.safe /\ q.cookie = p.cookie /\ q.incoming = p.incoming

OthersKept(r) == \A s \in Requests : s # r => req'[s] = req[s]

(* What each step of the middlewares and the handler does to its request. *)
LEMMA SafeStep ==
  ASSUME BrowserTypeOK, NEW r \in Requests, Browser!Safe(r)
  PROVE  /\ req' \in [Requests -> Browser!Request] /\ OthersKept(r)
         /\ Keeps(req'[r], req[r]) /\ req[r].pc = "sent" /\ req[r].safe
         /\ req'[r].pc = "handler" /\ req'[r].outgoing = req[r].outgoing
         /\ req'[r].read = req[r].read /\ req'[r].flash = req[r].flash
         /\ IF req[r].cookie # None
            THEN req'[r].token = req[r].cookie /\ req'[r].set = req[r].set
            ELSE req'[r].token = req'[r].set
         /\ UNCHANGED <<jar, tab, queued, shown, overlap>>
  <1>t. req \in [Requests -> Browser!Request] /\ req[r] \in Browser!Request
    BY DEF BrowserTypeOK
  <1>1. CASE req[r].cookie # None
    <2> DEFINE q == [req[r] EXCEPT !.pc = "handler", !.token = req[r].cookie]
    <2>1. req' = [req EXCEPT ![r] = q]
      BY <1>1, <1>t DEF Browser!Safe
    <2>2. q \in Browser!Request
      BY <1>t DEF Browser!Request
    <2>3. /\ Keeps(q, req[r]) /\ q.pc = "handler" /\ q.outgoing = req[r].outgoing
          /\ q.read = req[r].read /\ q.flash = req[r].flash
          /\ q.token = req[r].cookie /\ q.set = req[r].set
      BY <1>t DEF Browser!Request, Keeps
    <2> HIDE DEF q
    <2>4. QED
      BY <2>1, <2>2, <2>3, <1>1, <1>t DEF Browser!Safe, OthersKept
  <1>2. CASE req[r].cookie = None
    <2>1. PICK t \in CsrfTokens :
            req' = [req EXCEPT ![r].pc = "handler", ![r].token = t, ![r].set = t]
      BY <1>2 DEF Browser!Safe
    <2> DEFINE q == [req[r] EXCEPT !.pc = "handler", !.token = t, !.set = t]
    <2>2. req' = [req EXCEPT ![r] = q]
      BY <2>1, <1>t
    <2>3. q \in Browser!Request
      BY <1>t DEF Browser!Request
    <2>4. /\ Keeps(q, req[r]) /\ q.pc = "handler" /\ q.outgoing = req[r].outgoing
          /\ q.read = req[r].read /\ q.flash = req[r].flash
          /\ q.token = t /\ q.set = t
      BY <1>t DEF Browser!Request, Keeps
    <2> HIDE DEF q
    <2>5. QED
      BY <2>2, <2>3, <2>4, <1>2, <1>t DEF Browser!Safe, OthersKept
  <1>3. QED
    BY <1>1, <1>2

LEMMA UnsafeStep ==
  ASSUME BrowserTypeOK, NEW r \in Requests, Browser!Unsafe(r)
  PROVE  /\ req' \in [Requests -> Browser!Request] /\ OthersKept(r)
         /\ Keeps(req'[r], req[r]) /\ req[r].pc = "sent" /\ ~req[r].safe
         /\ req'[r].pc \in {"handler", "response"} /\ req'[r].outgoing = req[r].outgoing
         /\ req'[r].read = req[r].read /\ req'[r].flash = req[r].flash
         /\ req'[r].token = req[r].token /\ req'[r].set = req[r].set
         /\ UNCHANGED <<jar, tab, queued, shown, overlap>>
  BY DEF BrowserTypeOK, Browser!Request, Browser!Unsafe, OthersKept, Keeps

LEMMA setStep ==
  ASSUME BrowserTypeOK, NEW r \in Requests, NEW m \in Messages, Browser!set(r, m)
  PROVE  /\ req' \in [Requests -> Browser!Request] /\ OthersKept(r)
         /\ Keeps(req'[r], req[r]) /\ req[r].pc = "handler" /\ req'[r].pc = "handler"
         /\ req'[r].outgoing = req[r].outgoing \cup {m}
         /\ req'[r].read = req[r].read /\ req'[r].flash = req[r].flash
         /\ req'[r].token = req[r].token /\ req'[r].set = req[r].set
         /\ m \notin queued /\ queued' = queued \cup {m}
         /\ UNCHANGED <<jar, tab, shown, overlap>>
  BY DEF BrowserTypeOK, Browser!Request, Browser!set, OthersKept, Keeps

LEMMA messagesStep ==
  ASSUME BrowserTypeOK, NEW r \in Requests, Browser!messages(r)
  PROVE  /\ req' \in [Requests -> Browser!Request] /\ OthersKept(r)
         /\ Keeps(req'[r], req[r]) /\ req[r].pc = "handler" /\ req'[r].pc = "handler"
         /\ req'[r].outgoing = req[r].outgoing
         /\ req'[r].flash = req[r].flash
         /\ req'[r].token = req[r].token /\ req'[r].set = req[r].set
         /\ UNCHANGED <<jar, tab, queued, shown, overlap>>
  <1>t. req \in [Requests -> Browser!Request] /\ req[r] \in Browser!Request
    BY DEF BrowserTypeOK
  <1> DEFINE q == [req[r] EXCEPT !.read = TRUE]
  <1>1. req' = [req EXCEPT ![r] = q] /\ req[r].pc = "handler"
    BY <1>t DEF Browser!messages
  <1>2. q \in Browser!Request
    BY <1>t DEF Browser!Request
  <1>3. /\ Keeps(q, req[r]) /\ q.pc = req[r].pc /\ q.outgoing = req[r].outgoing
        /\ q.flash = req[r].flash /\ q.token = req[r].token /\ q.set = req[r].set
    BY <1>t DEF Browser!Request, Keeps
  <1> HIDE DEF q
  <1>4. QED
    BY <1>1, <1>2, <1>3, <1>t DEF Browser!messages, OthersKept

LEMMA RespondStep ==
  ASSUME BrowserTypeOK, NEW r \in Requests, Browser!Respond(r)
  PROVE  /\ req' \in [Requests -> Browser!Request] /\ OthersKept(r)
         /\ Keeps(req'[r], req[r]) /\ req[r].pc = "handler" /\ req'[r].pc = "response"
         /\ req'[r].outgoing = req[r].outgoing /\ req'[r].read = req[r].read
         /\ req'[r].flash = Browser!FlashAction(req[r])
         /\ req'[r].token = req[r].token /\ req'[r].set = req[r].set
         /\ UNCHANGED <<jar, tab, queued, shown, overlap>>
  <1>t. req \in [Requests -> Browser!Request] /\ req[r] \in Browser!Request
    BY DEF BrowserTypeOK
  <1> DEFINE action == Browser!FlashAction(req[r])
             q == [req[r] EXCEPT !.pc = "response", !.flash = action]
  <1>1. req' = [req EXCEPT ![r] = q] /\ req[r].pc = "handler"
    BY <1>t DEF Browser!Respond
  <1>2. action \in {"keep", "write", "remove"}
    BY DEF Browser!FlashAction
  <1> HIDE DEF action
  <1>3. q \in Browser!Request
    BY <1>2, <1>t DEF Browser!Request
  <1>4. /\ Keeps(q, req[r]) /\ q.pc = "response" /\ q.outgoing = req[r].outgoing
        /\ q.read = req[r].read /\ q.flash = action
        /\ q.token = req[r].token /\ q.set = req[r].set
    BY <1>t DEF Browser!Request, Keeps
  <1> HIDE DEF q
  <1>5. QED
    BY <1>1, <1>3, <1>4, <1>t DEF Browser!Respond, OthersKept, action

LEMMA SendStep ==
  ASSUME BrowserTypeOK, NEW r \in Requests, NEW t \in Tabs, NEW safe \in BOOLEAN,
         Browser!Send(r, t, safe)
  PROVE  /\ req' \in [Requests -> Browser!Request] /\ OthersKept(r)
         /\ req[r].pc = "idle" /\ req'[r] = Sent(t, safe)
         /\ overlap' = (overlap \/ (/\ Browser!FirstVisit(Sent(t, safe))
                                   /\ \E s \in Requests : Browser!FirstVisit(req[s])))
         /\ UNCHANGED <<jar, tab, queued, shown>>
  <1> DEFINE q == Sent(t, safe)
  <1>1. q \in Browser!Request
    BY SentType
  <1>2. /\ req' = [req EXCEPT ![r] = q] /\ req[r].pc = "idle"
        /\ overlap' = (overlap \/ (/\ Browser!FirstVisit(q)
                                  /\ \E s \in Requests : Browser!FirstVisit(req[s])))
        /\ UNCHANGED <<jar, tab, queued, shown>>
    BY DEF Browser!Send, Sent
  <1>3. req \in [Requests -> Browser!Request]
    BY DEF BrowserTypeOK
  <1> HIDE DEF q
  <1>4. req' \in [Requests -> Browser!Request] /\ OthersKept(r) /\ req'[r] = q
    BY <1>1, <1>2, <1>3 DEF OthersKept
  <1>5. QED
    BY <1>2, <1>4 DEF q

(* The end of a request, delivered or lost. *)
LEMMA EndStep ==
  ASSUME BrowserTypeOK, NEW r \in Requests, req' = [req EXCEPT ![r] = Browser!NoRequest]
  PROVE  /\ req' \in [Requests -> Browser!Request] /\ OthersKept(r)
         /\ req'[r] = Browser!NoRequest
  BY NoRequestType DEF BrowserTypeOK, OthersKept

(* What the browser's jar and tabs become when a response arrives. *)
LEMMA DeliverStep ==
  ASSUME BrowserTypeOK, NEW r \in Requests, Browser!Deliver(r)
  PROVE  /\ req[r].pc = "response"
         /\ jar' \in [csrf : Tokens, flash : SUBSET Messages]
         /\ jar'.csrf = IF req[r].set # None THEN req[r].set ELSE jar.csrf
         /\ req[r].flash = "write" => jar'.flash = req[r].outgoing
         /\ req[r].flash = "remove" => jar'.flash = {}
         /\ req[r].flash = "keep" => jar'.flash = jar.flash
         /\ tab' \in [Tabs -> Tokens]
         /\ \A t \in Tabs : \/ tab'[t] = tab[t]
                            \/ req[r].safe /\ tab'[t] = req[r].token
         /\ shown' = (IF req[r].read THEN shown \cup req[r].incoming ELSE shown)
         /\ req' = [req EXCEPT ![r] = Browser!NoRequest]
         /\ UNCHANGED <<queued, overlap>>
  <1>t. /\ req[r] \in Browser!Request /\ tab \in [Tabs -> Tokens]
        /\ jar.csrf \in Tokens /\ jar.flash \in SUBSET Messages
    BY DEF BrowserTypeOK
  <1>1. /\ req[r].set \in Tokens /\ req[r].token \in Tokens
        /\ req[r].outgoing \in SUBSET Messages
        /\ req[r].flash \in {"keep", "write", "remove"}
    BY <1>t DEF Browser!Request, Tokens
  <1> DEFINE csrf == IF req[r].set # None THEN req[r].set ELSE jar.csrf
             flash == CASE req[r].flash = "write" -> req[r].outgoing
                        [] req[r].flash = "remove" -> {}
                        [] req[r].flash = "keep" -> jar.flash
  <1>2. jar' = [csrf |-> csrf, flash |-> flash]
    BY DEF Browser!Deliver
  <1>3. csrf \in Tokens
    BY <1>1, <1>t
  <1>4. /\ flash \in SUBSET Messages
        /\ req[r].flash = "write" => flash = req[r].outgoing
        /\ req[r].flash = "remove" => flash = {}
        /\ req[r].flash = "keep" => flash = jar.flash
    BY <1>1, <1>t
  <1> HIDE DEF flash
  <1>5. /\ tab' \in [Tabs -> Tokens]
        /\ \A t \in Tabs : \/ tab'[t] = tab[t]
                           \/ req[r].safe /\ tab'[t] = req[r].token
    BY <1>1, <1>t DEF Browser!Deliver
  <1>6. /\ req[r].pc = "response"
        /\ shown' = (IF req[r].read THEN shown \cup req[r].incoming ELSE shown)
        /\ req' = [req EXCEPT ![r] = Browser!NoRequest]
        /\ UNCHANGED <<queued, overlap>>
    BY DEF Browser!Deliver
  <1>7. jar'.csrf = IF req[r].set # None THEN req[r].set ELSE jar.csrf
    BY <1>2
  <1> HIDE DEF csrf
  <1>8. jar' \in [csrf : Tokens, flash : SUBSET Messages] /\ jar'.flash = flash
    BY <1>2, <1>3, <1>4
  <1>9. QED
    BY <1>4, <1>5, <1>6, <1>7, <1>8

(* The types are kept by every step. *)
LEMMA BrowserTypeStep ==
  ASSUME BrowserTypeOK, [Browser!Next]_(Browser!vars)
  PROVE  BrowserTypeOK'
  <1>s. \A r, s \in Requests :
          /\ req[s].pc = "idle" => req[s] = Browser!NoRequest
          /\ req[s].pc # "idle" => req[s].tab \in Tabs
    BY DEF BrowserTypeOK
  <1>1. ASSUME NEW r \in Requests, NEW t \in Tabs, NEW safe \in BOOLEAN,
               Browser!Send(r, t, safe)
        PROVE  BrowserTypeOK'
    <2> DEFINE q == Sent(t, safe)
    <2>1. /\ req' \in [Requests -> Browser!Request] /\ OthersKept(r) /\ req'[r] = q
          /\ UNCHANGED <<jar, tab, queued, shown>>
      BY <1>1, SendStep
    <2>2. q.pc = "sent" /\ q.tab \in Tabs
      <3>1. Sent(t, safe).pc = "sent" /\ Sent(t, safe).tab = t
        BY SentType, Zenon
      <3>2. QED
        BY <3>1
    <2> HIDE DEF q
    <2>3. QED
      BY <2>1, <2>2, <1>s DEF BrowserTypeOK, OthersKept
  <1>2. ASSUME NEW r \in Requests, Browser!Safe(r)
        PROVE  BrowserTypeOK'
    BY <1>2, <1>s, SafeStep DEF BrowserTypeOK, OthersKept, Keeps
  <1>3. ASSUME NEW r \in Requests, Browser!Unsafe(r)
        PROVE  BrowserTypeOK'
    BY <1>3, <1>s, UnsafeStep DEF BrowserTypeOK, OthersKept, Keeps
  <1>4. ASSUME NEW r \in Requests, NEW m \in Messages, Browser!set(r, m)
        PROVE  BrowserTypeOK'
    BY <1>4, <1>s, setStep DEF BrowserTypeOK, OthersKept, Keeps
  <1>5. ASSUME NEW r \in Requests, Browser!messages(r)
        PROVE  BrowserTypeOK'
    BY <1>5, <1>s, messagesStep DEF BrowserTypeOK, OthersKept, Keeps
  <1>6. ASSUME NEW r \in Requests, Browser!Respond(r)
        PROVE  BrowserTypeOK'
    BY <1>6, <1>s, RespondStep DEF BrowserTypeOK, OthersKept, Keeps
  <1>7. ASSUME NEW r \in Requests, Browser!Deliver(r)
        PROVE  BrowserTypeOK'
    <2>1. req[r].incoming \subseteq Messages
      BY DEF BrowserTypeOK, Browser!Request
    <2>2. QED
      BY <1>7, <1>s, <2>1, DeliverStep, EndStep, NoRequestType DEF BrowserTypeOK, OthersKept
  <1>8. ASSUME NEW r \in Requests, Browser!Lose(r)
        PROVE  BrowserTypeOK'
    BY <1>8, <1>s, EndStep, NoRequestType DEF Browser!Lose, BrowserTypeOK, OthersKept
  <1>9. CASE Browser!Expire
    <2>1. jar' \in [csrf : Tokens, flash : SUBSET Messages]
      BY <1>9 DEF Browser!Expire, BrowserTypeOK, Tokens
    <2>2. UNCHANGED <<tab, req, queued, shown>>
      BY <1>9 DEF Browser!Expire
    <2>3. QED
      BY <2>1, <2>2 DEF BrowserTypeOK
  <1>10. CASE UNCHANGED Browser!vars
    BY <1>10 DEF BrowserTypeOK, Browser!vars
  <1>11. QED
    BY <1>1, <1>2, <1>3, <1>4, <1>5, <1>6, <1>7, <1>8, <1>9, <1>10 DEF Browser!Next

(* What keeps the pages' tokens valid: a response sets a new token only    *)
(* for a first visit, and unless a cookie expired or two first visits      *)
(* overlapped, every token under way is the jar's.                         *)
TokenInv ==
  /\ \A r \in Requests :
       /\ req[r].set # None => Browser!FirstVisit(req[r])
       /\ req[r].pc \in {"handler", "response"} /\ req[r].safe =>
            req[r].token = IF req[r].cookie # None THEN req[r].cookie ELSE req[r].set
  /\ ~overlap =>
       /\ \A r, s \in Requests :
            Browser!FirstVisit(req[r]) /\ Browser!FirstVisit(req[s]) => r = s
       /\ \A r \in Requests :
            /\ Browser!FirstVisit(req[r]) => jar.csrf = None
            /\ req[r].pc # "idle" /\ req[r].cookie # None => req[r].cookie = jar.csrf
       /\ \A t \in Tabs : tab[t] \in {None, jar.csrf}

(* Where a message can be: with the request that queued it, or in the jar, *)
(* or with the requests that were sent with it, or shown.                  *)
FlashInv ==
  /\ jar.flash \subseteq queued /\ shown \subseteq queued
  /\ shown \cap jar.flash = {}
  /\ \A r \in Requests :
       /\ req[r].outgoing \subseteq queued /\ req[r].incoming \subseteq queued
       /\ req[r].outgoing \cap (jar.flash \cup shown) = {}
       /\ req[r].pc = "sent" =>
            req[r].outgoing = {} /\ ~req[r].read /\ req[r].flash = "keep"
       /\ req[r].pc = "response" =>
            /\ req[r].flash = "write" <=> req[r].outgoing # {}
            /\ req[r].flash = "remove" => req[r].read
            /\ req[r].flash = "keep" => ~req[r].read
  /\ \A r, s \in Requests :
       /\ req[r].outgoing \cap req[s].incoming = {}
       /\ r # s => req[r].outgoing \cap req[s].outgoing = {}

LEMMA TokenStep ==
  ASSUME BrowserTypeOK, TokenInv, [Browser!Next]_(Browser!vars)
  PROVE  TokenInv'
  <1>1. ASSUME NEW r \in Requests, NEW t \in Tabs, NEW safe \in BOOLEAN,
               Browser!Send(r, t, safe)
        PROVE  TokenInv'
    <2> DEFINE q == Sent(t, safe)
    <2>1. /\ OthersKept(r) /\ req[r].pc = "idle" /\ req'[r] = q
          /\ overlap' = (overlap \/ (/\ Browser!FirstVisit(q)
                                    /\ \E s \in Requests : Browser!FirstVisit(req[s])))
          /\ UNCHANGED <<jar, tab>>
      BY <1>1, SendStep
    <2>2. q.pc = "sent" /\ q.cookie = jar.csrf /\ q.set = None
      BY SentType, ZenonT(30)
    <2> HIDE DEF q
    <2>3. QED
      <3>1. \A p \in Requests :
              /\ req'[p].set # None => Browser!FirstVisit(req'[p])
              /\ req'[p].pc \in {"handler", "response"} /\ req'[p].safe =>
                   req'[p].token = IF req'[p].cookie # None THEN req'[p].cookie ELSE req'[p].set
        BY <2>1, <2>2 DEF TokenInv, OthersKept
      <3>2. ASSUME ~overlap'
            PROVE  \A p, s \in Requests :
                     Browser!FirstVisit(req'[p]) /\ Browser!FirstVisit(req'[s]) => p = s
        BY <3>2, <2>1, ZenonT(30) DEF TokenInv, OthersKept
      <3>3. ASSUME ~overlap'
            PROVE  /\ \A p \in Requests :
                        /\ Browser!FirstVisit(req'[p]) => jar.csrf = None
                        /\ req'[p].pc # "idle" /\ req'[p].cookie # None => req'[p].cookie = jar.csrf
                   /\ \A u \in Tabs : tab[u] \in {None, jar.csrf}
        <4>1. ~overlap
          BY <3>3, <2>1
        <4>2. Browser!FirstVisit(q) => jar.csrf = None
          BY <2>2 DEF Browser!FirstVisit
        <4>3. QED
          BY <4>1, <4>2, <2>1, <2>2 DEF TokenInv, OthersKept
      <3>4. QED
        BY <2>1, <3>1, <3>2, <3>3 DEF TokenInv, Browser!FirstVisit
  <1>2. ASSUME NEW r \in Requests, Browser!Safe(r)
        PROVE  TokenInv'
    BY <1>2, SafeStep DEF TokenInv, Browser!FirstVisit, OthersKept, Keeps
  <1>3. ASSUME NEW r \in Requests, Browser!Unsafe(r)
        PROVE  TokenInv'
    BY <1>3, UnsafeStep DEF TokenInv, Browser!FirstVisit, OthersKept, Keeps
  <1>4. ASSUME NEW r \in Requests, NEW m \in Messages, Browser!set(r, m)
        PROVE  TokenInv'
    BY <1>4, setStep DEF TokenInv, Browser!FirstVisit, OthersKept, Keeps
  <1>5. ASSUME NEW r \in Requests, Browser!messages(r)
        PROVE  TokenInv'
    BY <1>5, messagesStep DEF TokenInv, Browser!FirstVisit, OthersKept, Keeps
  <1>6. ASSUME NEW r \in Requests, Browser!Respond(r)
        PROVE  TokenInv'
    BY <1>6, RespondStep DEF TokenInv, Browser!FirstVisit, OthersKept, Keeps
  <1>7. ASSUME NEW r \in Requests, Browser!Deliver(r)
        PROVE  TokenInv'
    BY <1>7, DeliverStep, EndStep, NoRequestType DEF TokenInv, Browser!FirstVisit, OthersKept
  <1>8. ASSUME NEW r \in Requests, Browser!Lose(r)
        PROVE  TokenInv'
    BY <1>8, EndStep, NoRequestType DEF Browser!Lose, TokenInv, Browser!FirstVisit, OthersKept
  <1>9. CASE Browser!Expire
    BY <1>9 DEF Browser!Expire, TokenInv, Browser!FirstVisit, BrowserTypeOK
  <1>10. CASE UNCHANGED Browser!vars
    BY <1>10 DEF TokenInv, Browser!vars, Browser!FirstVisit
  <1>11. QED
    BY <1>1, <1>2, <1>3, <1>4, <1>5, <1>6, <1>7, <1>8, <1>9, <1>10 DEF Browser!Next

LEMMA FlashStep ==
  ASSUME BrowserTypeOK, FlashInv, [Browser!Next]_(Browser!vars)
  PROVE  FlashInv'
  <1>1. ASSUME NEW r \in Requests, NEW t \in Tabs, NEW safe \in BOOLEAN,
               Browser!Send(r, t, safe)
        PROVE  FlashInv'
    <2> DEFINE q == Sent(t, safe)
    <2>1. OthersKept(r) /\ req'[r] = q /\ UNCHANGED <<jar, queued, shown>>
      BY <1>1, SendStep
    <2>2. /\ q.pc = "sent" /\ q.incoming = jar.flash /\ q.outgoing = {}
          /\ q.read = FALSE /\ q.flash = "keep"
      BY SentType, ZenonT(30)
    <2> HIDE DEF q
    <2>3. QED
      BY <2>1, <2>2 DEF FlashInv, OthersKept
  <1>2. ASSUME NEW r \in Requests, Browser!Safe(r)
        PROVE  FlashInv'
    BY <1>2, SafeStep DEF FlashInv, OthersKept, Keeps
  <1>3. ASSUME NEW r \in Requests, Browser!Unsafe(r)
        PROVE  FlashInv'
    BY <1>3, UnsafeStep DEF FlashInv, OthersKept, Keeps
  <1>4. ASSUME NEW r \in Requests, NEW m \in Messages, Browser!set(r, m)
        PROVE  FlashInv'
    BY <1>4, setStep DEF FlashInv, OthersKept, Keeps
  <1>5. ASSUME NEW r \in Requests, Browser!messages(r)
        PROVE  FlashInv'
    BY <1>5, messagesStep DEF FlashInv, OthersKept, Keeps
  <1>6. ASSUME NEW r \in Requests, Browser!Respond(r)
        PROVE  FlashInv'
    BY <1>6, RespondStep DEF FlashInv, OthersKept, Keeps, Browser!FlashAction
  <1>7. ASSUME NEW r \in Requests, Browser!Deliver(r)
        PROVE  FlashInv'
    <2>1. req[r].flash \in {"keep", "write", "remove"} /\ req[r].read \in BOOLEAN
      BY DEF BrowserTypeOK, Browser!Request
    <2>2. QED
      BY <1>7, <2>1, DeliverStep, EndStep, NoRequestType DEF FlashInv, OthersKept
  <1>8. ASSUME NEW r \in Requests, Browser!Lose(r)
        PROVE  FlashInv'
    BY <1>8, EndStep, NoRequestType DEF Browser!Lose, FlashInv, OthersKept
  <1>9. CASE Browser!Expire
    BY <1>9 DEF Browser!Expire, FlashInv, BrowserTypeOK
  <1>10. CASE UNCHANGED Browser!vars
    BY <1>10 DEF FlashInv, Browser!vars, Browser!FirstVisit
  <1>11. QED
    BY <1>1, <1>2, <1>3, <1>4, <1>5, <1>6, <1>7, <1>8, <1>9, <1>10 DEF Browser!Next

LEMMA BrowserInit ==
  ASSUME Browser!Init
  PROVE  BrowserTypeOK /\ TokenInv /\ FlashInv
  <1>1. /\ jar = [csrf |-> None, flash |-> {}] /\ tab = [t \in Tabs |-> None]
        /\ \A r \in Requests : req[r] = Browser!NoRequest
        /\ queued = {} /\ shown = {} /\ overlap = FALSE
        /\ req = [r \in Requests |-> Browser!NoRequest]
    BY DEF Browser!Init
  <1>2. BrowserTypeOK
    BY <1>1, NoRequestType DEF BrowserTypeOK, Tokens
  <1>3. TokenInv
    BY <1>1, NoRequestType DEF TokenInv, Browser!FirstVisit
  <1>4. FlashInv
    BY <1>1, NoRequestType DEF FlashInv
  <1>5. QED
    BY <1>2, <1>3, <1>4

(* The page of every open tab holds the token of the cookie, or none: no   *)
(* response rotates the token under it (CsrfService::call), however the    *)
(* browser's requests overlap.                                             *)
THEOREM OpenTabsStayValid == Browser!Spec => []TabsStayValid
  <1>1. BrowserTypeOK /\ TokenInv /\ [Browser!Next]_(Browser!vars)
          => BrowserTypeOK' /\ TokenInv'
    BY BrowserTypeStep, TokenStep
  <1>2. TokenInv => TabsStayValid
    BY DEF TokenInv, TabsStayValid, Browser!TabsStayValid
  <1>3. QED
    BY BrowserInit, <1>1, <1>2, PTL DEF Browser!Spec

(* A message whose reader's response arrived is gone from the cookie, and  *)
(* no response still under way brings it back (FlashMiddleware::call).     *)
THEOREM FlashShownOnce == Browser!Spec => []ShownOnce
  <1>1. BrowserTypeOK /\ FlashInv /\ [Browser!Next]_(Browser!vars)
          => BrowserTypeOK' /\ FlashInv'
    BY BrowserTypeStep, FlashStep
  <1>2. FlashInv => ShownOnce
    BY DEF FlashInv, ShownOnce, Browser!ShownOnce
  <1>3. QED
    BY BrowserInit, <1>1, <1>2, PTL DEF Browser!Spec

(* A message nobody read leaves the cookie only for newer ones, by its     *)
(* expiry, or through a response to a request that did not carry it.       *)
THEOREM UnreadFlashIsKept == Browser!Spec => UnreadLeavesForACause
  <1> DEFINE Caused == \A m \in jar.flash \ (jar'.flash \cup shown') :
                         \/ jar'.flash # {}
                         \/ Browser!Expire
                         \/ \E r \in Requests : Browser!Deliver(r) /\ m \notin req[r].incoming
  <1>1. BrowserTypeOK /\ FlashInv /\ [Browser!Next]_(Browser!vars)
          => BrowserTypeOK' /\ FlashInv'
    BY BrowserTypeStep, FlashStep
  <1>2. ASSUME BrowserTypeOK, FlashInv, [Browser!Next]_(Browser!vars)
        PROVE  [Caused]_(Browser!vars)
    <2>1. ASSUME NEW r \in Requests, Browser!Deliver(r)
          PROVE  Caused
      <3>1. req[r].flash \in {"keep", "write", "remove"}
        BY <1>2 DEF BrowserTypeOK, Browser!Request
      <3>2. /\ req[r].flash = "write" => jar'.flash # {}
            /\ req[r].flash = "remove" => shown' = shown \cup req[r].incoming
            /\ req[r].flash = "keep" => jar'.flash = jar.flash
        BY <1>2, <2>1, DeliverStep DEF FlashInv
      <3>3. QED
        BY <2>1, <3>1, <3>2
    <2>2. CASE jar' = jar
      BY <2>2
    <2>3. CASE Browser!Expire
      BY <2>3
    <2>4. Browser!Next => \/ jar' = jar \/ Browser!Expire
                          \/ \E r \in Requests : Browser!Deliver(r)
      BY DEF Browser!Next, Browser!Send, Browser!Safe, Browser!Unsafe, Browser!set,
             Browser!messages, Browser!Respond, Browser!Lose
    <2>5. QED
      BY <1>2, <2>1, <2>2, <2>3, <2>4
  <1>3. QED
    BY BrowserInit, <1>1, <1>2, PTL DEF Browser!Spec, UnreadLeavesForACause,
       Browser!UnreadLeavesForACause

-----------------------------------------------------------------------------
(* The domain claims. *)

ClaimsTypeOK ==
  /\ Claims!TypeOK
  /\ used \subseteq ClaimIds
  /\ dns \in [DomainNames -> SUBSET ClaimIds]

(* An id is given out once, so that a call which awaits DNS still names    *)
(* the claim it read or a claim that is gone.                              *)
ClaimsInv ==
  /\ \A i \in ClaimIds :
       claims[i].in =>
         /\ i \in used /\ claims[i].domain \in DomainNames
         /\ claims[i].status = "verified" => <<claims[i].domain, i>> \in served
  /\ \A d \in DomainNames : \A i \in dns[d] : <<d, i>> \in served
  /\ \A c \in ClaimCalls :
       /\ claimCall[c].pc = "insert" => claimCall[c].domain \in DomainNames
       /\ claimCall[c].pc \in {"expire", "dns", "confirm", "enable"} => claimCall[c].id \in used
       /\ claimCall[c].pc \in {"dns", "confirm"} =>
            /\ claimCall[c].domain \in DomainNames
            /\ claims[claimCall[c].id].in => claims[claimCall[c].id].domain = claimCall[c].domain
       /\ claimCall[c].pc = "confirm" => <<claimCall[c].domain, claimCall[c].id>> \in served

LEMMA NoClaimType ==
  /\ Claims!NoClaim \in Claims!DomainRow /\ Claims!NoClaim.in = FALSE
  /\ Claims!NoCall \in Claims!Call /\ Claims!NoCall.pc = "idle"
  BY DEF Claims!NoClaim, Claims!DomainRow, Claims!NoCall, Claims!Call

(* A call that begins, goes on or ends changes no other call. *)
LEMMA CallStep ==
  ASSUME ClaimsTypeOK, NEW c \in ClaimCalls, NEW q \in Claims!Call,
         claimCall' = [claimCall EXCEPT ![c] = q]
  PROVE  /\ claimCall' \in [ClaimCalls -> Claims!Call] /\ claimCall'[c] = q
         /\ \A b \in ClaimCalls : b # c => claimCall'[b] = claimCall[b]
  BY DEF ClaimsTypeOK, Claims!TypeOK

(* Writing a column of a claim leaves its domain and whether it exists. *)
LEMMA StatusStep ==
  ASSUME ClaimsTypeOK, NEW i \in ClaimIds, NEW status \in {"verified", "failed"},
         Claims!SetStatus(i, status)
  PROVE  /\ claims' \in [ClaimIds -> Claims!DomainRow]
         /\ \A j \in ClaimIds : j # i => claims'[j] = claims[j]
         /\ claims'[i].in = claims[i].in /\ claims'[i].domain = claims[i].domain
         /\ claims[i].in => claims'[i].status = status
  BY DEF ClaimsTypeOK, Claims!TypeOK, Claims!DomainRow, Claims!SetStatus

LEMMA FlagStep ==
  ASSUME ClaimsTypeOK, NEW i \in ClaimIds, NEW what, NEW value \in BOOLEAN,
         Claims!SetFlag(i, what, value)
  PROVE  /\ claims' \in [ClaimIds -> Claims!DomainRow]
         /\ \A j \in ClaimIds : /\ claims'[j].in = claims[j].in
                           /\ claims'[j].domain = claims[j].domain
                           /\ claims'[j].status = claims[j].status
  BY DEF ClaimsTypeOK, Claims!TypeOK, Claims!DomainRow, Claims!SetFlag

(* Every step keeps the invariant, and brings back no claim of an id that  *)
(* was given out.                                                          *)
LEMMA ClaimsStep ==
  ASSUME ClaimsTypeOK, ClaimsInv, [Claims!Next]_(Claims!vars)
  PROVE  /\ ClaimsTypeOK' /\ ClaimsInv'
         /\ \A i \in used : ~claims[i].in => ~claims'[i].in
  <1> DEFINE Goal == /\ ClaimsTypeOK' /\ ClaimsInv'
                     /\ \A i \in used : ~claims[i].in => ~claims'[i].in
  <1>t. /\ hours \in Nat /\ claims \in [ClaimIds -> Claims!DomainRow] /\ used \subseteq ClaimIds
        /\ claimCall \in [ClaimCalls -> Claims!Call] /\ dns \in [DomainNames -> SUBSET ClaimIds]
    BY DEF ClaimsTypeOK, Claims!TypeOK
  <1>e. ASSUME NEW c \in ClaimCalls, Claims!Ends(c)
        PROVE  /\ claimCall' \in [ClaimCalls -> Claims!Call] /\ claimCall'[c].pc = "idle"
               /\ \A b \in ClaimCalls : b # c => claimCall'[b] = claimCall[b]
    BY <1>e, CallStep, NoClaimType DEF Claims!Ends
  <1>1. ASSUME NEW c \in ClaimCalls, NEW t \in Tenants, NEW d \in DomainNames,
               Claims!Register(c, t, d)
        PROVE  Goal
    <2> DEFINE q == [Claims!NoCall EXCEPT !.pc = "insert", !.tenant = t, !.domain = d]
    <2>1. q \in Claims!Call
      BY DEF Claims!Call, Claims!NoCall
    <2>2. q.pc = "insert" /\ q.domain = d
      BY DEF Claims!NoCall
    <2>3. claimCall' = [claimCall EXCEPT ![c] = q] /\ UNCHANGED <<hours, claims, used, dns, served>>
      BY <1>1 DEF Claims!Register
    <2> HIDE DEF q
    <2>4. /\ claimCall' \in [ClaimCalls -> Claims!Call] /\ claimCall'[c] = q
          /\ \A b \in ClaimCalls : b # c => claimCall'[b] = claimCall[b]
      BY <2>1, <2>3, CallStep
    <2>5. QED
      BY <2>2, <2>3, <2>4, <1>t DEF ClaimsTypeOK, Claims!TypeOK, ClaimsInv
  <1>2. ASSUME NEW c \in ClaimCalls, Claims!RegisterInsert(c)
        PROVE  Goal
    <2>1. PICK i \in ClaimIds \ used :
            /\ claimCall[c].pc = "insert" /\ used' = used \cup {i}
            /\ claims' = [claims EXCEPT ![i] =
                 [Claims!NoClaim EXCEPT !.in = TRUE, !.tenant = claimCall[c].tenant,
                                        !.domain = claimCall[c].domain, !.created_at = hours]]
            /\ Claims!Ends(c) /\ UNCHANGED <<hours, dns, served>>
      BY <1>2 DEF Claims!RegisterInsert
    <2> DEFINE row == [Claims!NoClaim EXCEPT !.in = TRUE, !.tenant = claimCall[c].tenant,
                                             !.domain = claimCall[c].domain, !.created_at = hours]
    <2>2. /\ claimCall[c].tenant \in Tenants \cup {None}
          /\ claimCall[c].domain \in DomainNames \cup {None}
      BY <1>t DEF Claims!Call
    <2>3. row \in Claims!DomainRow
      BY <2>2, <1>t DEF Claims!NoClaim, Claims!DomainRow
    <2>4. row.domain = claimCall[c].domain /\ row.status = "pending"
      BY DEF Claims!NoClaim
    <2>5. claims' = [claims EXCEPT ![i] = row]
      BY <2>1
    <2> HIDE DEF row
    <2>6. /\ claims' \in [ClaimIds -> Claims!DomainRow] /\ claims'[i] = row
          /\ \A j \in ClaimIds : j # i => claims'[j] = claims[j]
      BY <2>3, <2>5, <1>t
    <2>7. claimCall[c].domain \in DomainNames
      BY <2>1 DEF ClaimsInv
    <2>8. ClaimsTypeOK'
      BY <2>1, <2>6, <1>e, <1>t DEF ClaimsTypeOK, Claims!TypeOK
    <2>9. \A j \in used : claims'[j] = claims[j]
      BY <2>6, <1>t
    <2>10. \A j \in ClaimIds :
             claims'[j].in =>
               /\ j \in used' /\ claims'[j].domain \in DomainNames
               /\ claims'[j].status = "verified" => <<claims'[j].domain, j>> \in served
      BY <2>1, <2>4, <2>6, <2>7 DEF ClaimsInv
    <2>11. /\ claimCall'[c].pc = "idle"
           /\ \A b \in ClaimCalls : b # c => claimCall'[b] = claimCall[b]
      BY <2>1, <1>e
    <2>12. \A b \in ClaimCalls :
             /\ claimCall'[b].pc = "insert" => claimCall'[b].domain \in DomainNames
             /\ claimCall'[b].pc \in {"expire", "dns", "confirm", "enable"}
                  => claimCall'[b].id \in used
             /\ claimCall'[b].pc \in {"dns", "confirm"} =>
                  /\ claimCall'[b].domain \in DomainNames
                  /\ claims[claimCall'[b].id].in
                       => claims[claimCall'[b].id].domain = claimCall'[b].domain
             /\ claimCall'[b].pc = "confirm"
                  => <<claimCall'[b].domain, claimCall'[b].id>> \in served
      BY <2>11 DEF ClaimsInv
    <2>13. ClaimsInv'
      BY <2>1, <2>9, <2>10, <2>12 DEF ClaimsInv
    <2>14. QED
      BY <2>8, <2>9, <2>13
  <1>3. ASSUME NEW c \in ClaimCalls, NEW i \in ClaimIds, Claims!Verify(c, i)
        PROVE  Goal
    <2> DEFINE pc == IF Claims!is_expired(claims[i]) THEN "expire" ELSE "dns"
               q == [Claims!NoCall EXCEPT !.pc = pc, !.id = i, !.domain = claims[i].domain]
    <2>1. claims[i].in /\ i \in used /\ claims[i].domain \in DomainNames
      BY <1>3 DEF Claims!Verify, ClaimsInv
    <2>2. pc \in {"expire", "dns"}
      OBVIOUS
    <2>3. claimCall' = [claimCall EXCEPT ![c] = q] /\ UNCHANGED <<hours, claims, used, dns, served>>
      BY <1>3 DEF Claims!Verify
    <2> HIDE DEF pc
    <2>4. q \in Claims!Call
      BY <2>1, <2>2 DEF Claims!Call, Claims!NoCall
    <2>5. q.pc = pc /\ q.id = i /\ q.domain = claims[i].domain
      BY DEF Claims!NoCall
    <2> HIDE DEF q
    <2>6. /\ claimCall' \in [ClaimCalls -> Claims!Call] /\ claimCall'[c] = q
          /\ \A b \in ClaimCalls : b # c => claimCall'[b] = claimCall[b]
      BY <2>3, <2>4, CallStep
    <2>7. QED
      BY <2>1, <2>2, <2>3, <2>5, <2>6, <1>t DEF ClaimsTypeOK, Claims!TypeOK, ClaimsInv
  <1>4. ASSUME NEW c \in ClaimCalls, NEW i \in ClaimIds, NEW what \in {"email", "routing"},
               Claims!Enable(c, i, what)
        PROVE  Goal
    <2> DEFINE q == [Claims!NoCall EXCEPT !.pc = "enable", !.id = i, !.what = what]
    <2>1. q \in Claims!Call
      BY DEF Claims!Call, Claims!NoCall
    <2>2. q.pc = "enable" /\ q.id = i
      BY DEF Claims!NoCall
    <2>3. /\ claimCall' = [claimCall EXCEPT ![c] = q] /\ i \in used
          /\ UNCHANGED <<hours, claims, used, dns, served>>
      BY <1>4 DEF Claims!Enable, ClaimsInv
    <2> HIDE DEF q
    <2>4. /\ claimCall' \in [ClaimCalls -> Claims!Call] /\ claimCall'[c] = q
          /\ \A b \in ClaimCalls : b # c => claimCall'[b] = claimCall[b]
      BY <2>1, <2>3, CallStep
    <2>5. QED
      BY <2>2, <2>3, <2>4, <1>t DEF ClaimsTypeOK, Claims!TypeOK, ClaimsInv
  <1>5. ASSUME NEW c \in ClaimCalls, Claims!VerifyExpire(c)
        PROVE  Goal
    <2> DEFINE i == claimCall[c].id
    <2>1. /\ i \in ClaimIds /\ Claims!SetStatus(i, "failed") /\ Claims!Ends(c)
          /\ UNCHANGED <<hours, used, dns, served>>
      BY <1>5, <1>t DEF Claims!VerifyExpire, ClaimsInv
    <2>2. /\ claims' \in [ClaimIds -> Claims!DomainRow]
          /\ \A j \in ClaimIds : j # i => claims'[j] = claims[j]
          /\ claims'[i].in = claims[i].in /\ claims'[i].domain = claims[i].domain
          /\ claims[i].in => claims'[i].status = "failed"
      BY <2>1, StatusStep
    <2> HIDE DEF i
    <2>3. QED
      BY <2>1, <2>2, <1>e, <1>t DEF ClaimsTypeOK, Claims!TypeOK, ClaimsInv
  <1>6. ASSUME NEW c \in ClaimCalls, Claims!VerifyDns(c)
        PROVE  Goal
    <2>1. /\ claimCall[c].pc = "dns" /\ UNCHANGED <<hours, claims, used, dns, served>>
          /\ \/ Claims!Ends(c)
             \/ /\ claimCall' = [claimCall EXCEPT ![c].pc = "confirm"]
                /\ claimCall[c].id \in dns[claimCall[c].domain]
      BY <1>6 DEF Claims!VerifyDns, Claims!check_txt, Claims!extract_txt_records
    <2>2. CASE Claims!Ends(c)
      BY <2>1, <2>2, <1>e, <1>t DEF ClaimsTypeOK, Claims!TypeOK, ClaimsInv
    <2>3. CASE /\ claimCall' = [claimCall EXCEPT ![c].pc = "confirm"]
               /\ claimCall[c].id \in dns[claimCall[c].domain]
      <3>1. /\ claimCall' \in [ClaimCalls -> Claims!Call] /\ claimCall'[c].pc = "confirm"
            /\ claimCall'[c].id = claimCall[c].id /\ claimCall'[c].domain = claimCall[c].domain
            /\ \A b \in ClaimCalls : b # c => claimCall'[b] = claimCall[b]
        BY <2>3, <1>t DEF Claims!Call
      <3>2. <<claimCall[c].domain, claimCall[c].id>> \in served
        BY <2>1, <2>3 DEF ClaimsInv
      <3>3. QED
        BY <2>1, <3>1, <3>2, <1>t DEF ClaimsTypeOK, Claims!TypeOK, ClaimsInv
    <2>4. QED
      BY <2>1, <2>2, <2>3
  <1>7. ASSUME NEW c \in ClaimCalls, Claims!VerifyConfirm(c)
        PROVE  Goal
    <2> DEFINE i == claimCall[c].id
    <2>1. /\ i \in ClaimIds /\ Claims!SetStatus(i, "verified") /\ Claims!Ends(c)
          /\ claimCall[c].pc = "confirm" /\ UNCHANGED <<hours, used, dns, served>>
      BY <1>7, <1>t DEF Claims!VerifyConfirm, ClaimsInv
    <2>2. claims[i].in => <<claims[i].domain, i>> \in served
      BY <2>1 DEF ClaimsInv
    <2>3. /\ claims' \in [ClaimIds -> Claims!DomainRow]
          /\ \A j \in ClaimIds : j # i => claims'[j] = claims[j]
          /\ claims'[i].in = claims[i].in /\ claims'[i].domain = claims[i].domain
      BY <2>1, StatusStep
    <2> HIDE DEF i
    <2>4. QED
      BY <2>1, <2>2, <2>3, <1>e, <1>t DEF ClaimsTypeOK, Claims!TypeOK, ClaimsInv
  <1>8. ASSUME NEW c \in ClaimCalls, Claims!EnableSet(c)
        PROVE  Goal
    <2>1. /\ claimCall[c].id \in ClaimIds
          /\ Claims!SetFlag(claimCall[c].id, claimCall[c].what, TRUE)
          /\ Claims!Ends(c) /\ UNCHANGED <<hours, used, dns, served>>
      BY <1>8, <1>t DEF Claims!EnableSet, ClaimsInv
    <2>2. /\ claims' \in [ClaimIds -> Claims!DomainRow]
          /\ \A j \in ClaimIds : /\ claims'[j].in = claims[j].in
                            /\ claims'[j].domain = claims[j].domain
                            /\ claims'[j].status = claims[j].status
      BY <2>1, FlagStep
    <2>3. QED
      BY <2>1, <2>2, <1>e, <1>t DEF ClaimsTypeOK, Claims!TypeOK, ClaimsInv
  <1>9. ASSUME NEW i \in ClaimIds, Claims!Remove(i)
        PROVE  Goal
    <2>1. /\ claims' \in [ClaimIds -> Claims!DomainRow] /\ claims'[i].in = FALSE
          /\ \A j \in ClaimIds : j # i => claims'[j] = claims[j]
          /\ UNCHANGED <<hours, used, dns, served, claimCall>>
      BY <1>9, <1>t, NoClaimType DEF Claims!Remove
    <2>2. QED
      BY <2>1, <1>t DEF ClaimsTypeOK, Claims!TypeOK, ClaimsInv
  <1>10. ASSUME NEW i \in ClaimIds, NEW what \in {"email", "routing"}, Claims!Disable(i, what)
         PROVE  Goal
    <2>1. /\ Claims!SetFlag(i, what, FALSE) /\ UNCHANGED <<hours, used, dns, served, claimCall>>
      BY <1>10 DEF Claims!Disable
    <2>2. /\ claims' \in [ClaimIds -> Claims!DomainRow]
          /\ \A j \in ClaimIds : /\ claims'[j].in = claims[j].in
                            /\ claims'[j].domain = claims[j].domain
                            /\ claims'[j].status = claims[j].status
      BY <2>1, FlagStep
    <2>3. QED
      BY <2>1, <2>2, <1>t DEF ClaimsTypeOK, Claims!TypeOK, ClaimsInv
  <1>11. ASSUME NEW i \in ClaimIds, NEW d \in DomainNames, Claims!Publish(d, i)
         PROVE  Goal
    BY <1>11, <1>t DEF Claims!Publish, ClaimsTypeOK, Claims!TypeOK, ClaimsInv
  <1>12. ASSUME NEW d \in DomainNames, Claims!Unpublish(d)
         PROVE  Goal
    BY <1>12, <1>t DEF Claims!Unpublish, ClaimsTypeOK, Claims!TypeOK, ClaimsInv
  <1>13. CASE Claims!Tick
    BY <1>13, <1>t DEF Claims!Tick, ClaimsTypeOK, Claims!TypeOK, ClaimsInv
  <1>14. CASE UNCHANGED Claims!vars
    BY <1>14, <1>t DEF Claims!vars, ClaimsTypeOK, Claims!TypeOK, ClaimsInv
  <1>15. QED
    BY <1>1, <1>2, <1>3, <1>4, <1>5, <1>6, <1>7, <1>8, <1>9, <1>10, <1>11, <1>12, <1>13, <1>14
       DEF Claims!Next

LEMMA ClaimsInit ==
  ASSUME Claims!Init
  PROVE  ClaimsTypeOK /\ ClaimsInv
  <1>1. /\ \A i \in ClaimIds : claims[i] = Claims!NoClaim
        /\ \A c \in ClaimCalls : claimCall[c] = Claims!NoCall
    BY DEF Claims!Init
  <1>2. ClaimsTypeOK
    BY NoClaimType DEF Claims!Init, ClaimsTypeOK, Claims!TypeOK
  <1>3. ClaimsInv
    BY <1>1, NoClaimType DEF Claims!Init, ClaimsInv
  <1>4. QED
    BY <1>2, <1>3

(* A tenant whose claim routes a domain, or has its mail, proved that      *)
(* domain with the token of that claim, whatever calls of verify, remove   *)
(* and enable_* were under way (DomainService).                            *)
THEOREM RoutedDomainsWereProved == Claims!Spec => []RoutedWasProved
  <1>1. ClaimsTypeOK /\ ClaimsInv /\ [Claims!Next]_(Claims!vars)
          => ClaimsTypeOK' /\ ClaimsInv'
    BY ClaimsStep
  <1>2. ClaimsInv => RoutedWasProved
    BY DEF ClaimsInv, RoutedWasProved, Claims!RoutedWasProved,
           Claims!lookup_routing_domain, Claims!lookup_email_domain
  <1>3. QED
    BY ClaimsInit, <1>1, <1>2, PTL DEF Claims!Spec

(* No verify or enable_* that was under way when a claim was removed       *)
(* brings it back (DomainService::remove).                                 *)
THEOREM RemovedClaimsStayRemoved == Claims!Spec => RemovedStaysRemoved
  <1>1. ClaimsTypeOK /\ ClaimsInv /\ [Claims!Next]_(Claims!vars)
          => /\ ClaimsTypeOK' /\ ClaimsInv'
             /\ [\A i \in used : ~claims[i].in => ~claims'[i].in]_(Claims!vars)
    BY ClaimsStep
  <1>2. QED
    BY ClaimsInit, <1>1, PTL DEF Claims!Spec, RemovedStaysRemoved, Claims!RemovedStaysRemoved

-----------------------------------------------------------------------------
(* The API keys. *)

KeysTypeOK == Store!TypeOK /\ seconds \in Store!Times /\ touches \subseteq KeyIds

(* Only the record of a key that was created is ever revoked or refreshed, *)
(* and a verify that began with a dead key holds a record that is refused  *)
(* at whatever time it decides.                                            *)
KeysInv ==
  /\ \A k \in KeyIds : ~records[k].in => records[k].revoked_at = None
  /\ \A c \in KeyCalls :
       /\ keyCall[c].pc # "idle" => keyCall[c].key \in KeyIds
       /\ keyCall[c].pc \in {"revoke", "refresh"} => records[keyCall[c].key].in
       /\ keyCall[c].dead => ~keyCall[c].ok
       /\ keyCall[c].pc = "verify" /\ keyCall[c].dead => Store!Unusable(keyCall[c].record)

LEMMA NoRecordType ==
  /\ Store!NoRecord \in Store!ApiKeyRecord /\ Store!NoRecord.in = FALSE
  /\ Store!NoRecord.revoked_at = None
  /\ Store!NoCaller \in Store!Caller /\ Store!NoCaller.pc = "idle"
  /\ Store!NoCaller.dead = FALSE /\ Store!NoCaller.ok = FALSE
  <1>1. Store!NoRecord \in Store!ApiKeyRecord
    BY DEF Store!NoRecord, Store!ApiKeyRecord
  <1>2. QED
    BY <1>1 DEF Store!NoRecord, Store!NoCaller, Store!Caller

(* A call that begins or ends changes no other call. *)
LEMMA CallerStep ==
  ASSUME KeysTypeOK, NEW c \in KeyCalls, NEW q \in Store!Caller,
         keyCall' = [keyCall EXCEPT ![c] = q]
  PROVE  /\ keyCall' \in [KeyCalls -> Store!Caller] /\ keyCall'[c] = q
         /\ \A b \in KeyCalls : b # c => keyCall'[b] = keyCall[b]
  BY DEF KeysTypeOK, Store!TypeOK

(* Every step keeps the invariant, and un-revokes no key. *)
LEMMA KeysStep ==
  ASSUME MaxSeconds \in Nat, None \notin Nat, KeysTypeOK, KeysInv,
         [Store!Next]_(Store!vars)
  PROVE  /\ KeysTypeOK' /\ KeysInv'
         /\ \A k \in KeyIds : records[k].revoked_at # None => records'[k].revoked_at # None
  <1> DEFINE Goal ==
        /\ KeysTypeOK' /\ KeysInv'
        /\ \A k \in KeyIds : records[k].revoked_at # None => records'[k].revoked_at # None
  <1>t. /\ records \in [KeyIds -> Store!ApiKeyRecord] /\ keyCall \in [KeyCalls -> Store!Caller]
        /\ seconds \in Store!Times /\ touches \subseteq KeyIds
    BY DEF KeysTypeOK, Store!TypeOK
  <1>e. ASSUME NEW c \in KeyCalls, keyCall' = [keyCall EXCEPT ![c] = Store!NoCaller]
        PROVE  /\ keyCall' \in [KeyCalls -> Store!Caller] /\ keyCall'[c] = Store!NoCaller
               /\ \A b \in KeyCalls : b # c => keyCall'[b] = keyCall[b]
    BY <1>e, CallerStep, NoRecordType
  <1>1. ASSUME NEW k \in KeyIds, NEW e \in Store!Times \cup {None}, Store!Create(k, e)
        PROVE  Goal
    <2> DEFINE row == [Store!NoRecord EXCEPT !.in = TRUE, !.expires_at = e]
    <2>1. row \in Store!ApiKeyRecord
      BY DEF Store!NoRecord, Store!ApiKeyRecord
    <2>2. row.in = TRUE
      BY DEF Store!NoRecord
    <2>3. /\ ~records[k].in /\ records' = [records EXCEPT ![k] = row]
          /\ UNCHANGED <<seconds, keyCall, touches>>
      BY <1>1 DEF Store!Create
    <2> HIDE DEF row
    <2>4. /\ records' \in [KeyIds -> Store!ApiKeyRecord] /\ records'[k].in = TRUE
          /\ \A j \in KeyIds : j # k => records'[j] = records[j]
      BY <2>1, <2>2, <2>3, <1>t
    <2>5. QED
      BY <2>3, <2>4, <1>t DEF KeysTypeOK, Store!TypeOK, KeysInv, Store!Unusable,
         Store!expires_at_passed
  <1>2. ASSUME NEW c \in KeyCalls, NEW k \in KeyIds, NEW secret \in BOOLEAN,
               Store!Lookup(c, k, secret)
        PROVE  Goal
    <2> DEFINE dead == Store!Unusable(records[k])
               q == [Store!NoCaller EXCEPT !.pc = "verify", !.key = k, !.record = records[k],
                                           !.secret = secret, !.dead = dead]
    <2>1. dead \in BOOLEAN
      BY <1>t DEF Store!Unusable, Store!expires_at_passed, Store!ApiKeyRecord
    <2>2. keyCall' = [keyCall EXCEPT ![c] = q] /\ UNCHANGED <<seconds, records, touches>>
      BY <1>2 DEF Store!Lookup
    <2>3. records[k] \in Store!ApiKeyRecord
      BY <1>t
    <2> HIDE DEF dead
    <2>4. q \in Store!Caller
      BY <2>1, <2>3 DEF Store!NoCaller, Store!Caller
    <2>5. /\ q.pc = "verify" /\ q.key = k /\ q.record = records[k] /\ q.ok = FALSE
          /\ q.dead => Store!Unusable(q.record)
      BY <2>1 DEF Store!NoCaller, dead
    <2> HIDE DEF q
    <2>6. /\ keyCall' \in [KeyCalls -> Store!Caller] /\ keyCall'[c] = q
          /\ \A b \in KeyCalls : b # c => keyCall'[b] = keyCall[b]
      BY <2>2, <2>4, CallerStep
    <2>7. QED
      BY <2>2, <2>5, <2>6, <1>t DEF KeysTypeOK, Store!TypeOK, KeysInv, Store!Unusable,
         Store!expires_at_passed
  <1>3. ASSUME NEW c \in KeyCalls, NEW k \in KeyIds, NEW pc \in {"revoke", "refresh"},
               NEW e \in Store!Times \cup {None}, Store!Begin(c, k, pc, e)
        PROVE  Goal
    <2> DEFINE q == [Store!NoCaller EXCEPT !.pc = pc, !.key = k, !.expires_at = e]
    <2>1. q \in Store!Caller
      BY NoRecordType DEF Store!NoCaller, Store!Caller
    <2>2. q.pc = pc /\ q.key = k /\ q.dead = FALSE
      BY DEF Store!NoCaller
    <2>3. /\ records[k].in /\ keyCall' = [keyCall EXCEPT ![c] = q]
          /\ UNCHANGED <<seconds, records, touches>>
      BY <1>3 DEF Store!Begin
    <2> HIDE DEF q
    <2>4. /\ keyCall' \in [KeyCalls -> Store!Caller] /\ keyCall'[c] = q
          /\ \A b \in KeyCalls : b # c => keyCall'[b] = keyCall[b]
      BY <2>1, <2>3, CallerStep
    <2>5. QED
      BY <2>2, <2>3, <2>4, <1>t DEF KeysTypeOK, Store!TypeOK, KeysInv, Store!Unusable,
         Store!expires_at_passed
  <1>4. ASSUME NEW c \in KeyCalls, Store!Verify(c)
        PROVE  Goal
    <2> DEFINE ok == Store!Verified(c)
               q == [keyCall[c] EXCEPT !.pc = "idle", !.ok = ok]
    <2>1. /\ ok \in BOOLEAN /\ keyCall[c].pc = "verify"
          /\ ok => ~Store!Unusable(keyCall[c].record)
      BY <1>4, <1>t DEF Store!Verify, Store!Verified, Store!Caller
    <2>2. keyCall' = [keyCall EXCEPT ![c] = q] /\ UNCHANGED <<seconds, records>>
      BY <1>4, <1>t DEF Store!Verify
    <2>3. touches' \subseteq KeyIds
      BY <1>4, <2>1, <1>t DEF Store!Verify, KeysInv
    <2> HIDE DEF ok
    <2>4. q \in Store!Caller
      BY <2>1, <1>t DEF Store!Caller
    <2>5. q.pc = "idle" /\ q.ok = ok /\ q.dead = keyCall[c].dead
      BY <1>t DEF Store!Caller
    <2> HIDE DEF q
    <2>6. /\ keyCall' \in [KeyCalls -> Store!Caller] /\ keyCall'[c] = q
          /\ \A b \in KeyCalls : b # c => keyCall'[b] = keyCall[b]
      BY <2>2, <2>4, CallerStep
    <2>7. QED
      BY <2>1, <2>2, <2>3, <2>5, <2>6, <1>t DEF KeysTypeOK, Store!TypeOK, KeysInv,
         Store!Unusable, Store!expires_at_passed
  <1>5. ASSUME NEW c \in KeyCalls, Store!Revoke(c)
        PROVE  Goal
    <2> DEFINE k == keyCall[c].key
    <2>1. /\ k \in KeyIds /\ records[k].in
          /\ keyCall' = [keyCall EXCEPT ![c] = Store!NoCaller]
          /\ records' = [records EXCEPT ![k].revoked_at = seconds] /\ UNCHANGED <<seconds, touches>>
      BY <1>5 DEF Store!Revoke, KeysInv
    <2>2. seconds # None
      BY <1>t DEF Store!Times
    <2> HIDE DEF k
    <2>3. /\ records' \in [KeyIds -> Store!ApiKeyRecord]
          /\ records'[k].in = records[k].in /\ records'[k].revoked_at # None
          /\ \A j \in KeyIds : j # k => records'[j] = records[j]
      BY <2>1, <2>2, <1>t DEF Store!ApiKeyRecord
    <2>4. QED
      BY <2>1, <2>3, <1>e, <1>t, NoRecordType DEF KeysTypeOK, Store!TypeOK, KeysInv,
         Store!Unusable, Store!expires_at_passed
  <1>6. ASSUME NEW c \in KeyCalls, Store!Refresh(c)
        PROVE  Goal
    <2> DEFINE k == keyCall[c].key
               e == keyCall[c].expires_at
    <2>1. /\ k \in KeyIds /\ keyCall' = [keyCall EXCEPT ![c] = Store!NoCaller]
          /\ records' = [records EXCEPT ![k].expires_at = e] /\ UNCHANGED <<seconds, touches>>
      BY <1>6 DEF Store!Refresh, KeysInv
    <2>2. e \in Store!Times \cup {None}
      BY <1>t DEF Store!Caller
    <2> HIDE DEF k, e
    <2>3. /\ records' \in [KeyIds -> Store!ApiKeyRecord]
          /\ \A j \in KeyIds : /\ records'[j].in = records[j].in
                             /\ records'[j].revoked_at = records[j].revoked_at
      BY <2>1, <2>2, <1>t DEF Store!ApiKeyRecord
    <2>4. QED
      BY <2>1, <2>3, <1>e, <1>t, NoRecordType DEF KeysTypeOK, Store!TypeOK, KeysInv,
         Store!Unusable, Store!expires_at_passed
  <1>7. ASSUME NEW k \in touches, Store!Touch(k)
        PROVE  Goal
    <2>1. k \in KeyIds /\ touches' \subseteq KeyIds /\ UNCHANGED <<seconds, keyCall>>
      BY <1>7, <1>t DEF Store!Touch
    <2>2. /\ records' \in [KeyIds -> Store!ApiKeyRecord]
          /\ \A j \in KeyIds : /\ records'[j].in = records[j].in
                             /\ records'[j].revoked_at = records[j].revoked_at
      BY <1>7, <2>1, <1>t DEF Store!Touch, Store!ApiKeyRecord
    <2>3. QED
      BY <2>1, <2>2, <1>t DEF KeysTypeOK, Store!TypeOK, KeysInv, Store!Unusable,
         Store!expires_at_passed
  <1>8. CASE Store!Tick
    <2>1. /\ seconds' \in Store!Times /\ seconds \in Nat /\ seconds' = seconds + 1
          /\ UNCHANGED <<records, keyCall, touches>>
      BY <1>8, <1>t DEF Store!Tick, Store!Times
    <2>2. \A c \in KeyCalls : keyCall[c].record \in Store!ApiKeyRecord
      BY <1>t DEF Store!Caller
    <2>3. ASSUME NEW c \in KeyCalls, Store!Unusable(keyCall[c].record)
          PROVE  Store!Unusable(keyCall[c].record)'
      <3> DEFINE r == keyCall[c].record
      <3>1. /\ r \in Store!ApiKeyRecord /\ keyCall'[c].record = r
            /\ ~r.in \/ r.revoked_at # None \/ (r.expires_at # None /\ r.expires_at <= seconds)
        BY <2>1, <2>2, <2>3 DEF Store!Unusable, Store!expires_at_passed
      <3>2. r.expires_at # None => r.expires_at \in Nat
        BY <3>1 DEF Store!ApiKeyRecord, Store!Times
      <3> HIDE DEF r
      <3>3. ~r.in \/ r.revoked_at # None \/ (r.expires_at # None /\ r.expires_at <= seconds')
        BY <2>1, <3>1, <3>2
      <3>4. QED
        BY <3>1, <3>3 DEF Store!Unusable, Store!expires_at_passed
    <2>4. \A c \in KeyCalls : keyCall[c].pc = "verify" /\ keyCall[c].dead
                               => Store!Unusable(keyCall[c].record)'
      BY <2>3 DEF KeysInv
    <2>5. QED
      BY <2>1, <2>4, <1>t DEF KeysTypeOK, Store!TypeOK, KeysInv, Store!Times
  <1>9. CASE UNCHANGED Store!vars
    BY <1>9, <1>t DEF Store!vars, KeysTypeOK, Store!TypeOK, KeysInv, Store!Unusable,
       Store!expires_at_passed
  <1>10. QED
    BY <1>1, <1>2, <1>3, <1>4, <1>5, <1>6, <1>7, <1>8, <1>9 DEF Store!Next

LEMMA KeysInit ==
  ASSUME MaxSeconds \in Nat, Store!Init
  PROVE  KeysTypeOK /\ KeysInv
  <1>1. /\ \A k \in KeyIds : records[k] = Store!NoRecord
        /\ \A c \in KeyCalls : keyCall[c] = Store!NoCaller
        /\ touches = {} /\ seconds = 0
        /\ records = [k \in KeyIds |-> Store!NoRecord]
        /\ keyCall = [c \in KeyCalls |-> Store!NoCaller]
    BY DEF Store!Init
  <1>2. KeysTypeOK
    BY <1>1, NoRecordType DEF KeysTypeOK, Store!TypeOK, Store!Times
  <1>3. KeysInv
    BY <1>1, NoRecordType DEF KeysInv
  <1>4. QED
    BY <1>2, <1>3

(* A revoked key stays revoked and no verify that began after a key died   *)
(* accepts it: neither a refresh that was under way nor the late record of *)
(* a use brings it back (ApiKeyStore).                                     *)
THEOREM RevokedKeysStayRevoked == Store!Spec => RevokedStaysRevoked
  <1>1. Store!Init => KeysTypeOK /\ KeysInv
    BY KeysInit, RequestStateAssumption
  <1>2. ASSUME KeysTypeOK, KeysInv, [Store!Next]_(Store!vars)
        PROVE  /\ KeysTypeOK' /\ KeysInv'
               /\ [/\ \A k \in KeyIds : records[k].revoked_at # None
                                          => records'[k].revoked_at # None
                   /\ \A c \in KeyCalls : keyCall[c].dead
                                          => ~keyCall'[c].ok \/ ~keyCall'[c].dead]_(Store!vars)
    <2>1. /\ KeysTypeOK' /\ KeysInv'
          /\ \A k \in KeyIds : records[k].revoked_at # None => records'[k].revoked_at # None
      BY <1>2, KeysStep, RequestStateAssumption
    <2>2. \A c \in KeyCalls : keyCall'[c].dead => ~keyCall'[c].ok
      BY <2>1 DEF KeysInv
    <2>3. QED
      BY <2>1, <2>2
  <1>3. QED
    BY <1>1, <1>2, PTL DEF Store!Spec, RevokedStaysRevoked, Store!RevokedStaysRevoked

-----------------------------------------------------------------------------
(* The steps of the stack, of three kinds. *)

LayersTypeOK ==
  /\ stack \in Seq(STRING)
  /\ dir \in {"in", "out"}
  /\ at \in 0 .. Len(stack) + 1
  /\ dir = "in" => at > 0
  /\ dir = "out" => at <= Len(stack)
  /\ DOMAIN ext = Stack!Extensions
  /\ ext = [x \in Stack!Extensions |-> ext[x]]
  /\ DOMAIN saved = DOMAIN stack
  /\ saved = [i \in DOMAIN stack |-> saved[i]]

(* A layer that goes on with the request. *)
Onward ==
  /\ dir = "in" /\ at <= Len(stack)
  /\ dir' = "in" /\ at' = at + 1
  /\ UNCHANGED <<stack, resp>>

(* What it may have done to the extensions. *)
Inserted ==
  /\ DOMAIN ext' = Stack!Extensions /\ ext' = [x \in Stack!Extensions |-> ext'[x]]
  /\ ext'["Session"] # ext["Session"] => stack[at] \in {"session", "jwt"} /\ ext'["Session"] = TRUE
  /\ ext'["Role"] # ext["Role"] => stack[at] = "role" /\ ext'["Role"] \in {"admin", "user"}
  /\ ext'["ApiKeyMeta"] # ext["ApiKeyMeta"] =>
       stack[at] = "api_key" /\ ext'["ApiKeyMeta"] \in SUBSET {"scope"}
  /\ ext'["TierInfo"] # ext["TierInfo"] =>
       stack[at] = "tier" /\ ext'["TierInfo"] \in Stack!Features
  /\ IF stack[at] = "i18n" THEN ext'["Translator"] # None
     ELSE ext'["Translator"] = ext["Translator"]
  /\ IF stack[at] = "template"
     THEN ext'["TemplateContext"].locale = IF ext["Translator"] = None THEN "" ELSE ext["Translator"]
     ELSE ext'["TemplateContext"] = ext["TemplateContext"]

(* The guards that let the request pass. *)
Allowed ==
  /\ stack[at] = "require_role" => ext["Role"] \notin {None, "user"}
  /\ stack[at] = "require_authenticated" => ext["Session"] # None
  /\ stack[at] = "require_unauthenticated" => ext["Session"] = None
  /\ stack[at] = "require_scope" => ext["ApiKeyMeta"] # None /\ "scope" \in ext["ApiKeyMeta"]
  /\ stack[at] \in {"require_feature", "require_limit"} =>
       ext["TierInfo"] # None /\ (ext["TierInfo"] \in Stack!Features => ext["TierInfo"].n > 0)

Kept ==
  IF stack[at] = "error_handler" THEN saved' = [saved EXCEPT ![at] = ext] ELSE saved' = saved

LookedAt == parts' = parts \/ \E p \in Stack!Seen : 
               parts' = p \/ parts' = [p EXCEPT !.path = Stack!RewrittenPath(p.path)]

OnwardStep == Onward /\ Inserted /\ Allowed /\ Kept /\ LookedAt

(* A layer or the handler that answers. *)
Answering ==
  /\ dir = "in" /\ at <= Len(stack) + 1
  /\ dir' = "out" /\ at' = at - 1
  /\ UNCHANGED <<stack, ext, saved>>

Page ==
  \E own, key, count :
    /\ key \in LocaleKeys
    /\ count \in {{}} \cup {{n} : n \in Counts}
    /\ at = Len(stack) + 1
    /\ ext["TemplateContext"] # None
    /\ resp' = [Stack!Response(200) EXCEPT
                  !.page = [own |-> own, key |-> key, count |-> count,
                            text |-> Stack!make_t_function(Stack!merge(own), key, count, <<>>)]]

Answered ==
  \/ \E e \in Errors : resp' = Stack!into_response(e)
  \/ \E status \in Nat : resp' = Stack!Response(status)
  \/ Page
  \/ resp' = Stack!Panicked

AnsweringStep == Answering /\ Answered /\ LookedAt

(* A layer on the way out. *)
OutwardStep ==
  /\ dir = "out" /\ at > 0
  /\ dir' = "out" /\ at' = at - 1
  /\ UNCHANGED <<stack, ext, saved, parts>>
  /\ resp' =
       CASE stack[at] = "catch_panic" ->
              IF Stack!Aborted THEN Stack!into_response(Stack!internal) ELSE resp
         [] stack[at] = "error_handler" ->
              IF resp.error # None THEN Stack!default_error_handler(resp.error, saved[at])
              ELSE resp
         [] stack[at] \in {"security_headers", "cors", "request_id"} ->
              IF Stack!Aborted THEN resp ELSE [resp EXCEPT !.headers = @ \cup {at}]
         [] OTHER -> resp

(* An insertion changes one extension. *)
LEMMA InsertStep ==
  ASSUME LayersTypeOK, NEW x \in Stack!Extensions, NEW v, Stack!Insert(x, v)
  PROVE  /\ DOMAIN ext' = Stack!Extensions /\ ext' = [y \in Stack!Extensions |-> ext'[y]]
         /\ ext'[x] = v /\ \A y \in Stack!Extensions : y # x => ext'[y] = ext[y]
  BY DEF Stack!Insert, LayersTypeOK

(* What is so of an error that a response is made from. *)
IsError(e) ==
  /\ {"status", "message", "locale_key", "details"} \subseteq DOMAIN e
  /\ e.status \in Nat
  /\ e.locale_key \in LocaleKeys \cup {None}

(* The constructors of src/error make errors, *)
LEMMA NewIsError ==
  /\ \A status \in Nat : \A message : IsError(Stack!Error(status, message))
  /\ \A status \in Nat : \A message : IsError(Stack!with_source(status, message))
  /\ \A status \in Nat, key \in LocaleKeys : IsError(Stack!localized(status, key))
  BY DEF Stack!Error, Stack!with_source, Stack!localized, IsError

(* and so do the methods that change one. *)
LEMMA VariantIsError ==
  ASSUME NEW e, IsError(e)
  PROVE  /\ IsError(Stack!chain(e))
         /\ \A code : IsError(Stack!with_code(e, code))
         /\ \A key \in LocaleKeys : IsError(Stack!with_locale_key(e, key))
         /\ \A d : IsError(Stack!with_details(e, d))
  BY DEF Stack!chain, Stack!with_code, Stack!with_locale_key, Stack!with_details, IsError

(* The copy that into_response keeps says the same. *)
LEMMA CloneKeeps ==
  ASSUME NEW e, IsError(e)
  PROVE  /\ IsError(Stack!clone(e))
         /\ Stack!clone(e).status = e.status /\ Stack!clone(e).message = e.message
         /\ Stack!clone(e).locale_key = e.locale_key /\ Stack!clone(e).details = e.details
  BY DEF Stack!clone, IsError

LEMMA InternalIsError == IsError(Stack!internal)
  BY NewIsError DEF Stack!internal

(* What the extractors reject with. *)
LEMMA RejectionsAreErrors ==
  ASSUME NEW x \in DOMAIN Stack!Rejections
  PROVE  IsError(Stack!Rejections[x])
  <1>1. IsError(Stack!RejectClaims) /\ IsError(Stack!RejectApiKeyMeta)
    BY NewIsError DEF Stack!RejectClaims, Stack!RejectApiKeyMeta
  <1>2. IsError(Stack!RejectTranslator)
    BY VariantIsError, InternalIsError DEF Stack!RejectTranslator
  <1>3. QED
    BY <1>1, <1>2, InternalIsError
    DEF Stack!Rejections, Stack!RejectRole, Stack!RejectTierInfo, Stack!RejectTenant,
        Stack!RejectClientIp, Stack!RejectMatchedHost, Stack!RejectRenderer

(* What the registry and the token sources answer. *)
LEMMA FoundErrorsAreErrors ==
  ASSUME NEW e \in Stack!FoundErrors
  PROVE  IsError(e)
  <1> DEFINE Missing(status, message, code) == Stack!with_code(Stack!Error(status, message), code)
  <1>1. \A status \in Nat : \A message, code : IsError(Missing(status, message, code))
    BY NewIsError, VariantIsError
  <1>2. IsError(Stack!Error(500, "unsupported"))
    BY NewIsError
  <1>3. \A source, found : Stack!find_access_token(source, found) = None
                             \/ IsError(Stack!find_access_token(source, found))
    BY <1>1, <1>2 DEF Stack!find_access_token
  <1>4. \A source, body, found : Stack!find_refresh_token(source, body, found) = None
                                   \/ IsError(Stack!find_refresh_token(source, body, found))
    <2> TAKE source, body, found
    <2>1. /\ IsError(Missing(400, "refresh_token_missing", "auth:refresh_missing"))
          /\ IsError(Missing(401, "unauthorized", "auth:refresh_missing"))
      BY <1>1
    <2>2. QED
      BY <2>1, <1>3 DEF Stack!find_refresh_token
  <1>5. \A r \in BOOLEAN : Stack!ServiceError(r) = None \/ IsError(Stack!ServiceError(r))
    BY InternalIsError DEF Stack!ServiceError
  <1>6. QED
    BY <1>3, <1>4, <1>5 DEF Stack!FoundErrors

(* What a handler returns. *)
LEMMA HandlerErrorsAreErrors ==
  ASSUME NEW e \in Stack!HandlerErrors
  PROVE  IsError(e)
  <1>1. Stack!status_code["Conflict"] = 409
    BY DEF Stack!status_code
  <1>2. IsError(Stack!FromHttpError("Conflict"))
    BY <1>1, NewIsError DEF Stack!FromHttpError
  <1>3. \A kind : IsError(Stack!FromError(kind))
    BY NewIsError DEF Stack!FromError
  <1>4. IsError(Stack!chain(Stack!with_code(Stack!Error(502, "m"), "c")))
    BY NewIsError, VariantIsError
  <1>5. \A errors : IsError(Stack!check(errors))
    <2>1. IsError(Stack!unprocessable_entity)
      BY NewIsError DEF Stack!unprocessable_entity
    <2>2. QED
      BY <2>1, VariantIsError DEF Stack!check
  <1>6. \A errors : \A k \in LocaleKeys : IsError(Stack!with_locale_key(Stack!check(errors), k))
    BY <1>5, VariantIsError
  <1>7. QED
    BY <1>2, <1>3, <1>4, <1>6 DEF Stack!HandlerErrors

(* Whatever a response is made from is an error, and so is its copy. *)
LEMMA ErrorsAreErrors ==
  ASSUME NEW e \in Errors
  PROVE  IsError(e) /\ e # None /\ Stack!clone(e) # None
  <1>1. IsError(Stack!RejectBearer)
    BY NewIsError, VariantIsError DEF Stack!RejectBearer
  <1>2. \A l \in Stack!Localized : IsError(l)
    BY NewIsError DEF Stack!Localized
  <1>3. \A status \in 400 .. 599 : IsError(Stack!Error(status, "refused"))
    BY NewIsError
  <1>4. IsError(e)
    BY <1>1, <1>2, <1>3, RejectionsAreErrors, FoundErrorsAreErrors, HandlerErrorsAreErrors,
       InternalIsError DEF Errors, Worded
  <1>5. QED
    BY <1>4, RequestStateAssumption DEF Errors

(* The ways to answer. *)
LEMMA RefuseStep ==
  ASSUME LayersTypeOK, NEW status \in 400 .. 599, dir = "in", Stack!Refuse(status)
  PROVE  AnsweringStep
  <1>1. Stack!Error(status, "refused") \in Errors
    BY DEF Errors, Worded
  <1>2. QED
    BY <1>1 DEF Stack!Refuse, Stack!Answer, AnsweringStep, Answering, Answered, LookedAt, LayersTypeOK

LEMMA RefuseSeenStep ==
  ASSUME LayersTypeOK, NEW status \in 400 .. 599, dir = "in", NEW p \in Stack!Seen,
         Stack!RefuseSeen(p, status)
  PROVE  AnsweringStep
  <1>1. Stack!Error(status, "refused") \in Errors
    BY DEF Errors, Worded
  <1>2. QED
    BY <1>1 DEF Stack!RefuseSeen, AnsweringStep, Answering, Answered, LookedAt, LayersTypeOK

LEMMA RedirectStep ==
  ASSUME LayersTypeOK, dir = "in", Stack!redirect_response
  PROVE  AnsweringStep
  BY DEF Stack!redirect_response, Stack!Answer, AnsweringStep, Answering, Answered, LookedAt,
         LayersTypeOK

(* The ways to go on. *)
LEMMA PassStep ==
  ASSUME LayersTypeOK, dir = "in", at <= Len(stack), Stack!Pass, Allowed,
         stack[at] \notin {"i18n", "template", "error_handler"}
  PROVE  OnwardStep
  BY DEF Stack!Pass, Stack!Inward, OnwardStep, Onward, Inserted, Kept, LookedAt, LayersTypeOK

Guards ==
  {"require_role", "require_authenticated", "require_unauthenticated", "require_scope",
   "require_feature", "require_limit"}

LEMMA InsertOnward ==
  ASSUME LayersTypeOK, NEW x \in Stack!Extensions, NEW v, Stack!Insert(x, v),
         dir = "in", at <= Len(stack), stack[at] \notin Guards \cup {"error_handler"},
         LookedAt,
         x = "Session" => stack[at] \in {"session", "jwt"} /\ v = TRUE,
         x = "Role" => stack[at] = "role" /\ v \in {"admin", "user"},
         x = "ApiKeyMeta" => stack[at] = "api_key" /\ v \in SUBSET {"scope"},
         x = "TierInfo" => stack[at] = "tier" /\ v \in Stack!Features,
         x = "Translator" <=> stack[at] = "i18n",
         x = "Translator" => v # None,
         x = "TemplateContext" <=> stack[at] = "template",
         x = "TemplateContext" =>
           v.locale = IF ext["Translator"] = None THEN "" ELSE ext["Translator"]
  PROVE  OnwardStep
  <1>1. /\ DOMAIN ext' = Stack!Extensions /\ ext' = [y \in Stack!Extensions |-> ext'[y]]
        /\ ext'[x] = v /\ \A y \in Stack!Extensions : y # x => ext'[y] = ext[y]
    BY InsertStep
  <1>2. {"Session", "Role", "ApiKeyMeta", "TierInfo", "Translator", "TemplateContext"}
          \subseteq Stack!Extensions
    BY DEF Stack!Extensions
  <1>3. Inserted
    BY <1>1, <1>2 DEF Inserted
  <1>4. Allowed
    BY DEF Allowed, Guards
  <1>5. Onward /\ Kept
    BY DEF Onward, Kept, Stack!Insert, Stack!Inward
  <1>6. QED
    BY <1>3, <1>4, <1>5 DEF OnwardStep

(* A set of numbers has a least one: the induction of these proofs. *)
LEMMA LeastNat ==
  ASSUME NEW T, T \subseteq Nat, T # {}
  PROVE  \E x \in T : \A y \in T : x <= y
  <1> DEFINE R == OpToRel(<, Nat)
  <1>1. IsWellFoundedOn(R, Nat)
    BY NatLessThanWellFounded
  <1>2. \A x, y \in Nat : <<y, x>> \in R <=> y < x
    BY DEF OpToRel
  <1> HIDE DEF R
  <1>3. PICK x \in T : \A y \in T : ~ (<<y, x>> \in R)
    BY <1>1, WFMin
  <1>4. ASSUME NEW y \in T PROVE x <= y
    <2>1. x \in Nat /\ y \in Nat /\ ~(y < x)
      BY <1>2, <1>3
    <2>2. QED BY <2>1
  <1>5. QED
    BY <1>4

Stepped == OnwardStep \/ AnsweringStep

LEMMA UnchangedLooked ==
  ASSUME UNCHANGED parts
  PROVE  LookedAt
  BY DEF LookedAt

LEMMA ExtensionNames ==
  {"Session", "Claims", "ApiKeyMeta", "Role", "TierInfo", "Tenant", "MatchedHost",
   "ClientIp", "Location", "Translator", "TemplateContext", "RequestId"} = Stack!Extensions
  BY DEF Stack!Extensions

(* Each layer on the way in either goes on or answers. *)
LEMMA SessionLayerStep ==
  ASSUME LayersTypeOK, Stack!SessionLayer
  PROVE  Stepped
  <1>1. dir = "in" /\ at <= Len(stack) /\ stack[at] = "session"
    BY DEF Stack!SessionLayer, Stack!Entering
  <1>2. CASE Stack!Insert("Session", TRUE) /\ UNCHANGED parts
    BY <1>1, <1>2, InsertOnward, UnchangedLooked, ExtensionNames DEF Stepped, Guards
  <1>3. CASE Stack!Pass
    <2>1. Allowed
      BY <1>1 DEF Allowed
    <2>2. QED
      BY <1>1, <1>3, <2>1, PassStep DEF Stepped
  <1>4. QED
    BY <1>2, <1>3 DEF Stack!SessionLayer

LEMMA JwtLayerStep ==
  ASSUME LayersTypeOK, Stack!JwtLayer
  PROVE  Stepped
  <1>1. dir = "in" /\ at <= Len(stack) /\ stack[at] = "jwt"
    BY DEF Stack!JwtLayer, Stack!Entering
  <1>2. CASE Stack!Refuse(401)
    BY <1>1, <1>2, RefuseStep DEF Stepped
  <1>3. ASSUME NEW service,
               ext' = [ext EXCEPT !["Claims"] = TRUE,
                                  !["Session"] = IF service = "stateful" THEN TRUE ELSE @],
               Stack!Inward, UNCHANGED parts
        PROVE  Stepped
    <2>1. /\ DOMAIN ext' = Stack!Extensions /\ ext' = [x \in Stack!Extensions |-> ext'[x]]
          /\ ext'["Session"] \in {TRUE, ext["Session"]}
          /\ \A x \in Stack!Extensions \ {"Claims", "Session"} : ext'[x] = ext[x]
      BY <1>3, ExtensionNames DEF LayersTypeOK
    <2>2. Inserted
      BY <2>1, <1>1, ExtensionNames DEF Inserted
    <2>3. Onward /\ Kept /\ Allowed /\ LookedAt
      BY <1>1, <1>3 DEF Onward, Kept, Allowed, LookedAt, Stack!Inward
    <2>4. QED
      BY <2>2, <2>3 DEF Stepped, OnwardStep
  <1>4. QED
    BY <1>2, <1>3 DEF Stack!JwtLayer

LEMMA ApiKeyLayerStep ==
  ASSUME LayersTypeOK, Stack!ApiKeyLayer
  PROVE  Stepped
  <1>1. dir = "in" /\ at <= Len(stack) /\ stack[at] = "api_key"
    BY DEF Stack!ApiKeyLayer, Stack!Entering
  <1>2. CASE Stack!Refuse(401)
    BY <1>1, <1>2, RefuseStep DEF Stepped
  <1>3. ASSUME NEW scopes \in SUBSET {"scope"}, Stack!Insert("ApiKeyMeta", scopes), UNCHANGED parts
        PROVE  Stepped
    BY <1>1, <1>3, InsertOnward, UnchangedLooked, ExtensionNames DEF Stepped, Guards
  <1>4. QED
    BY <1>2, <1>3 DEF Stack!ApiKeyLayer

LEMMA RoleLayerStep ==
  ASSUME LayersTypeOK, Stack!RoleLayer
  PROVE  Stepped
  <1>1. dir = "in" /\ at <= Len(stack) /\ stack[at] = "role"
    BY DEF Stack!RoleLayer, Stack!Entering
  <1>2. CASE Stack!Refuse(401)
    BY <1>1, <1>2, RefuseStep DEF Stepped
  <1>3. ASSUME NEW role \in {"admin", "user"}, Stack!Insert("Role", role), UNCHANGED parts
        PROVE  Stepped
    BY <1>1, <1>3, InsertOnward, UnchangedLooked, ExtensionNames DEF Stepped, Guards
  <1>4. QED
    BY <1>2, <1>3 DEF Stack!RoleLayer

LEMMA TierLayerStep ==
  ASSUME LayersTypeOK, Stack!TierLayer
  PROVE  Stepped
  <1>1. dir = "in" /\ at <= Len(stack) /\ stack[at] = "tier"
    BY DEF Stack!TierLayer, Stack!Entering
  <1>2. CASE Stack!Refuse(500)
    BY <1>1, <1>2, RefuseStep DEF Stepped
  <1>3. ASSUME NEW f \in Stack!Features, Stack!Insert("TierInfo", f), UNCHANGED parts
        PROVE  Stepped
    BY <1>1, <1>3, InsertOnward, UnchangedLooked, ExtensionNames DEF Stepped, Guards
  <1>4. CASE Stack!Pass
    <2>1. Allowed
      BY <1>1 DEF Allowed
    <2>2. QED
      BY <1>1, <1>4, <2>1, PassStep DEF Stepped
  <1>5. QED
    BY <1>2, <1>3, <1>4 DEF Stack!TierLayer

LEMMA ClientIpLayerStep ==
  ASSUME LayersTypeOK, Stack!ClientIpLayer
  PROVE  Stepped
  <1>1. dir = "in" /\ at <= Len(stack) /\ stack[at] = "client_ip"
    BY DEF Stack!ClientIpLayer, Stack!Entering
  <1>2. PICK v : Stack!Insert("ClientIp", v) /\ UNCHANGED parts
    BY DEF Stack!ClientIpLayer
  <1>3. QED
    BY <1>1, <1>2, InsertOnward, UnchangedLooked, ExtensionNames DEF Stepped, Guards

LEMMA GeoLayerStep ==
  ASSUME LayersTypeOK, Stack!GeoLayer
  PROVE  Stepped
  <1>1. dir = "in" /\ at <= Len(stack) /\ stack[at] = "geo"
    BY DEF Stack!GeoLayer, Stack!Entering
  <1>2. CASE Stack!Insert("Location", TRUE) /\ UNCHANGED parts
    BY <1>1, <1>2, InsertOnward, UnchangedLooked, ExtensionNames DEF Stepped, Guards
  <1>3. CASE Stack!Pass
    <2>1. Allowed
      BY <1>1 DEF Allowed
    <2>2. QED
      BY <1>1, <1>3, <2>1, PassStep DEF Stepped
  <1>4. QED
    BY <1>2, <1>3 DEF Stack!GeoLayer

LEMMA RequestIdInStep ==
  ASSUME LayersTypeOK, Stack!RequestIdIn
  PROVE  Stepped
  <1>1. dir = "in" /\ at <= Len(stack) /\ stack[at] = "request_id"
    BY DEF Stack!RequestIdIn, Stack!Entering
  <1>2. Stack!Insert("RequestId", TRUE) /\ UNCHANGED parts
    BY DEF Stack!RequestIdIn
  <1>3. QED
    BY <1>1, <1>2, InsertOnward, UnchangedLooked, ExtensionNames DEF Stepped, Guards

(* A resolver that answers gives a locale. *)
LEMMA ResolvedLocale ==
  ASSUME NEW q, NEW c, NEW s, NEW langs
  PROVE  Stack!resolve_locale(q, c, s, langs) # None
  <1> DEFINE answers == <<Stack!QueryParamResolver(q), Stack!CookieResolver(c),
                          Stack!SessionResolver(s), Stack!AcceptLanguageResolver(langs)>>
             I == {i \in 1 .. Len(answers) : answers[i] # None}
  <1>1. Stack!resolve_locale(q, c, s, langs)
          = LET first == IF I # {} THEN Stack!Min(I) ELSE 0 IN
            IF first = 0 THEN DefaultLocale ELSE answers[first]
    BY DEF Stack!resolve_locale, Stack!SelectInSeq
  <1>2. DefaultLocale # None
    BY RequestStateAssumption
  <1>3. I \subseteq Nat
    OBVIOUS
  <1> HIDE DEF answers
  <1>4. I # {} => Stack!Min(I) \in I
    BY <1>3, LeastNat DEF Stack!Min
  <1>5. QED
    BY <1>1, <1>2, <1>4

LEMMA I18nLayerStep ==
  ASSUME LayersTypeOK, Stack!I18nLayer
  PROVE  Stepped
  <1>1. dir = "in" /\ at <= Len(stack) /\ stack[at] = "i18n"
    BY DEF Stack!I18nLayer, Stack!Entering
  <1>2. PICK v : Stack!Insert("Translator", v) /\ UNCHANGED parts /\ v # None
    BY ResolvedLocale DEF Stack!I18nLayer
  <1>3. QED
    BY <1>1, <1>2, InsertOnward, UnchangedLooked, ExtensionNames DEF Stepped, Guards

LEMMA TemplateContextLayerStep ==
  ASSUME LayersTypeOK, Stack!TemplateContextLayer
  PROVE  Stepped
  <1>1. dir = "in" /\ at <= Len(stack) /\ stack[at] = "template"
    BY DEF Stack!TemplateContextLayer, Stack!Entering
  <1> DEFINE v == [locale |-> IF ext["Translator"] = None THEN "" ELSE ext["Translator"],
                   others |-> {x \in {"TierInfo", "RequestId"} : ext[x] # None}]
  <1>2. /\ Stack!Insert("TemplateContext", v) /\ UNCHANGED parts
        /\ v.locale = IF ext["Translator"] = None THEN "" ELSE ext["Translator"]
    BY DEF Stack!TemplateContextLayer
  <1> HIDE DEF v
  <1>3. QED
    BY <1>1, <1>2, InsertOnward, UnchangedLooked, ExtensionNames DEF Stepped, Guards

LEMMA ErrorHandlerInStep ==
  ASSUME LayersTypeOK, Stack!ErrorHandlerIn
  PROVE  Stepped
  BY ExtensionNames
  DEF Stack!ErrorHandlerIn, Stack!Entering, Stepped, OnwardStep, Onward, Inserted, Allowed,
      Kept, LookedAt, LayersTypeOK

LEMMA PassPlainlyStep ==
  ASSUME LayersTypeOK, Stack!PassPlainly
  PROVE  Stepped
  <1>1. /\ dir = "in" /\ at <= Len(stack) /\ stack[at] \in {"catch_panic", "security_headers", "cors"}
        /\ Stack!Pass
    BY DEF Stack!PassPlainly, Stack!Plainly, Stack!Entering
  <1>2. Allowed
    BY <1>1 DEF Allowed
  <1>3. QED
    BY <1>1, <1>2, PassStep DEF Stepped

LEMMA StrategyStatus ==
  ASSUME NEW strategy \in Stack!Strategies, NEW p
  PROVE  Stack!TenantStrategy(strategy, p).status \in {200, 400, 500}
  <1>1. /\ \A kind, value : Stack!Ok(kind, value).status = 200
        /\ Stack!Err(400).status = 400 /\ Stack!Err(500).status = 500
    BY DEF Stack!Ok, Stack!Err
  <1>2. \A name : Stack!UnderBase(name).status \in {200, 400}
    BY DEF Stack!UnderBase, Stack!Ok, Stack!Err
  <1>3. /\ Stack!SubdomainStrategy(p).status \in {200, 400}
        /\ Stack!DomainStrategy(p).status \in {200, 400}
        /\ Stack!HeaderStrategy(p).status \in {200, 400}
        /\ Stack!ApiKeyHeaderStrategy(p).status \in {200, 400}
        /\ Stack!PathPrefixStrategy(p).status \in {200, 400}
        /\ Stack!PathParamStrategy(p).status \in {200, 500}
    <2>1. Stack!SubdomainStrategy(p).status \in {200, 400}
      BY <1>1, <1>2 DEF Stack!SubdomainStrategy
    <2>2. Stack!PathPrefixStrategy(p).status \in {200, 400}
      BY DEF Stack!PathPrefixStrategy, Stack!Ok, Stack!Err
    <2>3. QED
      BY <1>1, <2>1, <2>2 DEF Stack!DomainStrategy, Stack!HeaderStrategy,
         Stack!ApiKeyHeaderStrategy, Stack!PathParamStrategy
  <1>4. Stack!SubdomainOrDomainStrategy(p).status \in {200, 400}
    BY <1>1, <1>2 DEF Stack!SubdomainOrDomainStrategy
  <1>5. QED
    BY <1>3, <1>4 DEF Stack!TenantStrategy, Stack!Strategies

LEMMA TenantLayerStep ==
  ASSUME LayersTypeOK, Stack!TenantLayer
  PROVE  Stepped
  <1>1. dir = "in" /\ at <= Len(stack) /\ stack[at] = "tenant"
    BY DEF Stack!TenantLayer, Stack!Entering
  <1>2. ASSUME NEW p \in Stack!Seen, NEW status \in {400, 404, 500}, Stack!RefuseSeen(p, status)
        PROVE  Stepped
    <2>1. status \in 400 .. 599
      OBVIOUS
    <2>2. QED
      BY <1>1, <1>2, <2>1, RefuseSeenStep, ZenonT(30) DEF Stepped
  <1>3. ASSUME NEW p \in Stack!Seen, NEW strategy, NEW v, Stack!Insert("Tenant", v),
               parts' = IF strategy = "path_prefix"
                        THEN [p EXCEPT !.path = Stack!RewrittenPath(p.path)] ELSE p
        PROVE  Stepped
    <2>1. LookedAt
      BY <1>3 DEF LookedAt
    <2>2. QED
      BY <1>1, <1>3, <2>1, InsertOnward, ExtensionNames DEF Stepped, Guards
  <1>4. PICK p \in Stack!Seen, strategy \in Stack!Strategies, found \in BOOLEAN :
          LET id == Stack!TenantStrategy(strategy, p) IN
          CASE id.status # 200 -> Stack!RefuseSeen(p, id.status)
            [] id.status = 200 /\ ~found -> Stack!RefuseSeen(p, 404)
            [] OTHER ->
                 /\ Stack!Insert("Tenant", [kind |-> id.kind, value |-> id.value])
                 /\ parts' = IF strategy = "path_prefix"
                             THEN [p EXCEPT !.path = Stack!RewrittenPath(p.path)] ELSE p
    BY DEF Stack!TenantLayer
  <1>5. Stack!TenantStrategy(strategy, p).status \in {200, 400, 500}
    BY StrategyStatus
  <1>6. CASE Stack!TenantStrategy(strategy, p).status # 200
    BY <1>2, <1>4, <1>5, <1>6
  <1>7. CASE Stack!TenantStrategy(strategy, p).status = 200 /\ ~found
    BY <1>2, <1>4, <1>7
  <1>8. CASE Stack!TenantStrategy(strategy, p).status = 200 /\ found
    BY <1>3, <1>4, <1>8
  <1>9. QED
    BY <1>6, <1>7, <1>8

LEMMA HostRouterStep ==
  ASSUME LayersTypeOK, Stack!HostRouterService
  PROVE  Stepped
  <1>1. dir = "in" /\ at <= Len(stack) /\ stack[at] = "host_router"
    BY DEF Stack!HostRouterService, Stack!Entering
  <1>2. ASSUME NEW p \in Stack!Seen, NEW status \in {400, 404}, Stack!RefuseSeen(p, status)
        PROVE  Stepped
    <2>1. status \in 400 .. 599
      OBVIOUS
    <2>2. QED
      BY <1>1, <1>2, <2>1, RefuseSeenStep, ZenonT(30) DEF Stepped
  <1>3. ASSUME NEW p \in Stack!Seen, NEW v, Stack!Insert("MatchedHost", v), parts' = p
        PROVE  Stepped
    <2>1. LookedAt
      BY <1>3 DEF LookedAt
    <2>2. QED
      BY <1>1, <1>3, <2>1, InsertOnward, ExtensionNames DEF Stepped, Guards
  <1>4. QED
    BY <1>2, <1>3 DEF Stack!HostRouterService

(* The guards. *)
LEMMA RequireRoleStep ==
  ASSUME LayersTypeOK, Stack!RequireRole
  PROVE  Stepped
  <1>1. dir = "in" /\ at <= Len(stack) /\ stack[at] = "require_role"
    BY DEF Stack!RequireRole, Stack!Entering
  <1>2. ASSUME NEW status \in {401, 403}, Stack!Refuse(status)
        PROVE  Stepped
    <2>1. status \in 400 .. 599
      OBVIOUS
    <2>2. QED
      BY <1>1, <1>2, <2>1, RefuseStep, ZenonT(30) DEF Stepped
  <1>3. CASE ext["Role"] \notin {None, "user"}
    <2>1. Stack!Pass
      BY <1>3 DEF Stack!RequireRole
    <2>2. Allowed
      BY <1>1, <1>3 DEF Allowed
    <2>3. QED
      BY <1>1, <2>1, <2>2, PassStep DEF Stepped
  <1>4. CASE ext["Role"] \in {None, "user"}
    BY <1>2, <1>4 DEF Stack!RequireRole
  <1>5. QED
    BY <1>3, <1>4

LEMMA RequireAuthenticatedStep ==
  ASSUME LayersTypeOK, Stack!RequireAuthenticated
  PROVE  Stepped
  <1>1. dir = "in" /\ at <= Len(stack) /\ stack[at] = "require_authenticated"
    BY DEF Stack!RequireAuthenticated, Stack!Entering
  <1>2. CASE ext["Session"] = None
    BY <1>1, <1>2, RedirectStep DEF Stack!RequireAuthenticated, Stepped
  <1>3. CASE ext["Session"] # None
    <2>1. Stack!Pass
      BY <1>3 DEF Stack!RequireAuthenticated
    <2>2. Allowed
      BY <1>1, <1>3 DEF Allowed
    <2>3. QED
      BY <1>1, <2>1, <2>2, PassStep DEF Stepped
  <1>4. QED
    BY <1>2, <1>3

LEMMA RequireUnauthenticatedStep ==
  ASSUME LayersTypeOK, Stack!RequireUnauthenticated
  PROVE  Stepped
  <1>1. dir = "in" /\ at <= Len(stack) /\ stack[at] = "require_unauthenticated"
    BY DEF Stack!RequireUnauthenticated, Stack!Entering
  <1>2. CASE ext["Session"] # None
    BY <1>1, <1>2, RedirectStep DEF Stack!RequireUnauthenticated, Stepped
  <1>3. CASE ext["Session"] = None
    <2>1. Stack!Pass
      BY <1>3 DEF Stack!RequireUnauthenticated
    <2>2. Allowed
      BY <1>1, <1>3 DEF Allowed
    <2>3. QED
      BY <1>1, <2>1, <2>2, PassStep DEF Stepped
  <1>4. QED
    BY <1>2, <1>3

LEMMA RequireScopeStep ==
  ASSUME LayersTypeOK, Stack!RequireScope
  PROVE  Stepped
  <1>1. dir = "in" /\ at <= Len(stack) /\ stack[at] = "require_scope"
    BY DEF Stack!RequireScope, Stack!Entering
  <1>2. ASSUME NEW status \in {403, 500}, Stack!Refuse(status)
        PROVE  Stepped
    <2>1. status \in 400 .. 599
      OBVIOUS
    <2>2. QED
      BY <1>1, <1>2, <2>1, RefuseStep, ZenonT(30) DEF Stepped
  <1>3. CASE ext["ApiKeyMeta"] # None /\ "scope" \in ext["ApiKeyMeta"]
    <2>1. Stack!Pass
      BY <1>3 DEF Stack!RequireScope
    <2>2. Allowed
      BY <1>1, <1>3 DEF Allowed
    <2>3. QED
      BY <1>1, <2>1, <2>2, PassStep DEF Stepped
  <1>4. CASE ~(ext["ApiKeyMeta"] # None /\ "scope" \in ext["ApiKeyMeta"])
    BY <1>2, <1>4 DEF Stack!RequireScope
  <1>5. QED
    BY <1>3, <1>4

LEMMA RequireFeatureStep ==
  ASSUME LayersTypeOK, Stack!RequireFeature
  PROVE  Stepped
  <1>1. dir = "in" /\ at <= Len(stack) /\ stack[at] = "require_feature"
    BY DEF Stack!RequireFeature, Stack!Entering
  <1>2. ASSUME NEW status \in {403, 500}, Stack!Refuse(status)
        PROVE  Stepped
    <2>1. status \in 400 .. 599
      OBVIOUS
    <2>2. QED
      BY <1>1, <1>2, <2>1, RefuseStep, ZenonT(30) DEF Stepped
  <1>3. CASE ext["TierInfo"] # None /\ ext["TierInfo"].n > 0
    <2>1. Stack!Pass
      BY <1>3 DEF Stack!RequireFeature, Stack!has_feature
    <2>2. Allowed
      BY <1>1, <1>3 DEF Allowed
    <2>3. QED
      BY <1>1, <2>1, <2>2, PassStep DEF Stepped
  <1>4. CASE ~(ext["TierInfo"] # None /\ ext["TierInfo"].n > 0)
    BY <1>2, <1>4 DEF Stack!RequireFeature, Stack!has_feature
  <1>5. QED
    BY <1>3, <1>4

LEMMA RequireLimitStep ==
  ASSUME LayersTypeOK, Stack!RequireLimit
  PROVE  Stepped
  <1> DEFINE tier == ext["TierInfo"]
  <1>1. dir = "in" /\ at <= Len(stack) /\ stack[at] = "require_limit"
    BY DEF Stack!RequireLimit, Stack!Entering
  <1>2. ASSUME NEW status \in {403, 500}, Stack!Refuse(status)
        PROVE  Stepped
    <2>1. status \in 400 .. 599
      OBVIOUS
    <2>2. QED
      BY <1>1, <1>2, <2>1, RefuseStep, ZenonT(30) DEF Stepped
  <1>3. Stack!limit_ceiling(tier) \in {200, 403, 500}
    BY DEF Stack!limit_ceiling
  <1>4. ASSUME tier # None, NEW usage \in 0 .. MaxUsage, Stack!check_limit(tier, usage), Stack!Pass
        PROVE  Stepped
    <2>1. tier \in Stack!Features => tier.n \in Nat
      BY DEF Stack!Features
    <2>2. usage \in Nat /\ usage < tier.n
      BY <1>4 DEF Stack!check_limit
    <2>3. tier \in Stack!Features => tier.n > 0
      BY <2>1, <2>2
    <2>4. Allowed
      BY <1>1, <1>4, <2>3 DEF Allowed
    <2>5. QED
      BY <1>1, <1>4, <2>4, PassStep DEF Stepped
  <1>5. CASE tier = None
    BY <1>2, <1>5 DEF Stack!RequireLimit
  <1>6. CASE tier # None /\ Stack!limit_ceiling(tier) # 200
    BY <1>2, <1>3, <1>6 DEF Stack!RequireLimit
  <1>7. CASE tier # None /\ Stack!limit_ceiling(tier) = 200
    BY <1>2, <1>4, <1>7 DEF Stack!RequireLimit
  <1>8. QED
    BY <1>5, <1>6, <1>7

(* The handler. *)
LEMMA AnswerStep ==
  ASSUME LayersTypeOK, dir = "in", NEW r, Stack!Answer(r),
         \/ \E e \in Errors : r = Stack!into_response(e)
         \/ \E status \in Nat : r = Stack!Response(status)
         \/ r = Stack!Panicked
  PROVE  Stepped
  BY DEF Stack!Answer, Stepped, AnsweringStep, Answering, Answered, LookedAt, LayersTypeOK

LEMMA RenderingStep ==
  ASSUME LayersTypeOK, dir = "in", at = Len(stack) + 1, Stack!Rendering
  PROVE  Stepped
  <1>1. PICK outcome, own, key, count :
          /\ key \in LocaleKeys /\ count \in {{}} \cup {{n} : n \in Counts}
          /\ Stack!Answer(Stack!html_partial(outcome, own, key, count))
    BY DEF Stack!Rendering
  <1>2. CASE Stack!RenderError(outcome) # None
    <2>1. Stack!html_partial(outcome, own, key, count) = Stack!into_response(Stack!internal)
      BY <1>2 DEF Stack!html_partial, Stack!RenderError
    <2>2. Stack!internal \in Errors
      BY DEF Errors, Worded
    <2>3. QED
      BY <1>1, <2>1, <2>2, AnswerStep
  <1>3. CASE Stack!RenderError(outcome) = None
    <2>1. ext["TemplateContext"] # None
      BY DEF Stack!Rendering
    <2>2. resp' = Stack!html_partial(outcome, own, key, count)
      BY <1>1 DEF Stack!Answer
    <2>3. Page
      <3>1. key \in LocaleKeys /\ count \in {{}} \cup {{n} : n \in Counts}
        BY <1>1
      <3>2. resp' = [Stack!Response(200) EXCEPT
                       !.page = [own |-> own, key |-> key, count |-> count,
                                 text |-> Stack!make_t_function(Stack!merge(own), key, count, <<>>)]]
        BY <1>3, <2>2 DEF Stack!html_partial
      <3>3. QED
        BY <2>1, <3>1, <3>2 DEF Page
    <2>4. QED
      <3>0. dir' = "out" /\ at' = at - 1 /\ UNCHANGED <<stack, parts, ext, saved>>
        BY <1>1 DEF Stack!Answer
      <3>1. Answering /\ LookedAt
        BY <3>0, UnchangedLooked DEF Answering, LayersTypeOK
      <3>2. Answered
        BY <2>3 DEF Answered
      <3>3. QED
        BY <3>1, <3>2 DEF Stepped, AnsweringStep
  <1>4. QED
    BY <1>2, <1>3

LEMMA HandlerStep ==
  ASSUME LayersTypeOK, Stack!Handler
  PROVE  Stepped
  <1>1. dir = "in" /\ at = Len(stack) + 1
    BY DEF Stack!Handler
  <1>2. ASSUME NEW body \in Stack!Bodies, NEW status \in Stack!Extractors(body),
               IF status = 200 THEN Stack!Answer(Stack!Response(200)) ELSE Stack!Refuse(status)
        PROVE  Stepped
    <2>1. status \in {200, 400, 413}
      BY DEF Stack!Extractors, Stack!JsonRequest, Stack!FormRequest, Stack!Query, Stack!MultipartRequest
    <2>2. CASE status = 200
      BY <1>1, <1>2, <2>2, AnswerStep
    <2>3. CASE status # 200
      <3>1. status \in 400 .. 599 /\ Stack!Refuse(status)
        BY <1>2, <2>1, <2>3
      <3>2. QED
        BY <1>1, <3>1, RefuseStep DEF Stepped
    <2>4. QED
      BY <2>2, <2>3
  <1>3. ASSUME NEW results, Stack!Answer(Stack!Response(Stack!ready(results)))
        PROVE  Stepped
    <2>1. Stack!ready(results) \in Nat
      BY DEF Stack!ready
    <2>2. QED
      BY <1>1, <1>3, <2>1, AnswerStep
  <1>4. ASSUME NEW e \in Errors, Stack!Answer(Stack!into_response(e))
        PROVE  Stepped
    BY <1>1, <1>4, AnswerStep
  <1>5. CASE Stack!Rendering
    BY <1>1, <1>5, RenderingStep
  <1>6. CASE Stack!Answer(Stack!Panicked)
    BY <1>1, <1>6, AnswerStep
  <1>7. /\ Stack!HandlerErrors \cup Stack!FoundErrors \cup {Stack!RejectBearer} \subseteq Errors
        /\ Stack!Localized \subseteq Errors
        /\ \A x \in DOMAIN Stack!Rejections : Stack!Rejections[x] \in Errors
    BY DEF Errors, Worded
  <1>8. QED
    BY <1>2, <1>3, <1>4, <1>5, <1>6, <1>7 DEF Stack!Handler

(* The layers on the way out. *)
LEMMA OutSteps ==
  ASSUME LayersTypeOK,
         \/ Stack!catch_panic \/ Stack!ErrorHandlerOut \/ Stack!SecurityHeadersService
         \/ Stack!CorsLayer \/ Stack!PropagateRequestIdLayer \/ Stack!LeavesAlone
  PROVE  OutwardStep
  <1>1. CASE Stack!catch_panic
    BY <1>1 DEF Stack!catch_panic, Stack!Leaving, Stack!Outward, OutwardStep
  <1>2. CASE Stack!ErrorHandlerOut
    BY <1>2 DEF Stack!ErrorHandlerOut, Stack!Leaving, Stack!Outward, OutwardStep
  <1>3. CASE Stack!SecurityHeadersService
    BY <1>3 DEF Stack!SecurityHeadersService, Stack!AddsHeaders, Stack!Leaving, Stack!Outward, OutwardStep
  <1>4. CASE Stack!CorsLayer
    BY <1>4 DEF Stack!CorsLayer, Stack!AddsHeaders, Stack!Leaving, Stack!Outward, OutwardStep
  <1>5. CASE Stack!PropagateRequestIdLayer
    BY <1>5 DEF Stack!PropagateRequestIdLayer, Stack!AddsHeaders, Stack!Leaving, Stack!Outward, OutwardStep
  <1>6. CASE Stack!LeavesAlone
    BY <1>6 DEF Stack!LeavesAlone, Stack!Outward, OutwardStep
  <1>7. QED
    BY <1>1, <1>2, <1>3, <1>4, <1>5, <1>6

(* Every step of the stack is of one of the three kinds. *)
LEMMA StackStep ==
  ASSUME LayersTypeOK, Stack!Next
  PROVE  OnwardStep \/ AnsweringStep \/ OutwardStep
  BY SessionLayerStep, JwtLayerStep, ApiKeyLayerStep, RoleLayerStep, TenantLayerStep,
     HostRouterStep, TierLayerStep, ClientIpLayerStep, GeoLayerStep, I18nLayerStep,
     TemplateContextLayerStep, RequireRoleStep, RequireAuthenticatedStep,
     RequireUnauthenticatedStep, RequireScopeStep, RequireFeatureStep, RequireLimitStep,
     PassPlainlyStep, RequestIdInStep, ErrorHandlerInStep, HandlerStep, OutSteps
  DEF Stack!Next, Stepped

-----------------------------------------------------------------------------
(* The router and the tenant strategies. *)

LEMMA LayersTypeInit ==
  ASSUME Stack!Init
  PROVE  LayersTypeOK
  <1>1. stack \in Seq(STRING)
    BY RequestStateAssumption DEF Stack!Init
  <1>2. QED
    BY <1>1 DEF Stack!Init, LayersTypeOK, Stack!NoExtensions

LEMMA LayersTypeStep ==
  ASSUME LayersTypeOK, [Stack!Next]_Stack!vars
  PROVE  LayersTypeOK'
  <1>1. CASE OnwardStep
    <2>1. /\ stack' = stack /\ dir' = "in" /\ at' = at + 1 /\ at <= Len(stack)
          /\ DOMAIN ext' = Stack!Extensions /\ ext' = [x \in Stack!Extensions |-> ext'[x]]
      BY <1>1 DEF OnwardStep, Onward, Inserted
    <2>2. DOMAIN saved' = DOMAIN stack /\ saved' = [i \in DOMAIN stack |-> saved'[i]]
      BY <1>1 DEF OnwardStep, Kept, LayersTypeOK
    <2>3. QED
      BY <2>1, <2>2 DEF LayersTypeOK, Stack!Extensions
  <1>2. CASE AnsweringStep
    BY <1>2 DEF AnsweringStep, Answering, LayersTypeOK, Stack!Extensions
  <1>3. CASE OutwardStep
    BY <1>3 DEF OutwardStep, LayersTypeOK, Stack!Extensions
  <1>4. CASE UNCHANGED Stack!vars
    BY <1>4 DEF Stack!vars, LayersTypeOK, Stack!Extensions
  <1>5. QED
    BY <1>1, <1>2, <1>3, <1>4, StackStep

-----------------------------------------------------------------------------
(* The host of the request stays what it was when a layer first looked. *)
PartsOK ==
  parts # None =>
    /\ {"host", "x_forwarded_host", "forwarded"} \subseteq DOMAIN parts
    /\ parts.host \in Stack!Header \cup {None}

LEMMA PartsStep ==
  ASSUME PartsOK, LookedAt
  PROVE  PartsOK'
  <1>1. \A p \in Stack!Seen : /\ {"host", "x_forwarded_host", "forwarded"} \subseteq DOMAIN p
                              /\ p.host \in Stack!Header \cup {None}
    BY RequestStateAssumption DEF Stack!Seen, PartsOK
  <1>2. CASE parts' = parts
    BY <1>2 DEF PartsOK, Stack!Header
  <1>3. ASSUME NEW p \in Stack!Seen, NEW path, parts' = [p EXCEPT !.path = path]
        PROVE  PartsOK'
    <2>1. DOMAIN parts' = DOMAIN p /\ parts'.host = p.host
      BY <1>1, <1>3
    <2>2. QED
      BY <1>1, <2>1 DEF PartsOK, Stack!Header
  <1>4. ASSUME NEW p \in Stack!Seen, parts' = p
        PROVE  PartsOK'
    BY <1>1, <1>4 DEF PartsOK, Stack!Header
  <1>5. QED
    BY <1>2, <1>3, <1>4 DEF LookedAt

(* A name that ends in another and has one label more is that name under   *)
(* its first label.                                                        *)
LEMMA OneLabelMore ==
  ASSUME NEW base \in Seq(STRING), NEW name \in Seq(STRING), name # <<>>
  PROVE  Tail(name) = base <=> Stack!IsSuffix(base, name) /\ Len(name) = Len(base) + 1
  <1> DEFINE rb == Stack!Reverse(base)
             rn == Stack!Reverse(name)
  <1>0. Len(base) \in Nat /\ Len(name) \in Nat /\ Len(name) > 0
    OBVIOUS
  <1>1. /\ rb \in Seq(STRING) /\ Len(rb) = Len(base)
        /\ \A i \in 1 .. Len(base) : rb[i] = base[Len(base) - i + 1]
    BY DEF Stack!Reverse
  <1>2. /\ rn \in Seq(STRING) /\ Len(rn) = Len(name)
        /\ \A i \in 1 .. Len(name) : rn[i] = name[Len(name) - i + 1]
    BY DEF Stack!Reverse
  <1> HIDE DEF rb, rn
  <1>3. Stack!IsSuffix(base, name) <=>
          Len(rb) <= Len(rn) /\ SubSeq(rb, 1, Len(rb)) = SubSeq(rn, 1, Len(rb))
    BY DEF Stack!IsSuffix, Stack!IsPrefix, rb, rn
  <1>4. /\ Tail(name) \in Seq(STRING) /\ Len(Tail(name)) = Len(name) - 1
        /\ \A i \in 1 .. Len(name) - 1 : Tail(name)[i] = name[i + 1]
    BY <1>0
  <1>5. Len(base) <= Len(name) =>
         (SubSeq(rb, 1, Len(rb)) = SubSeq(rn, 1, Len(rb))
          <=> \A i \in 1 .. Len(base) : rb[i] = rn[i])
    <2> SUFFICES ASSUME Len(base) <= Len(name)
                 PROVE  SubSeq(rb, 1, Len(rb)) = SubSeq(rn, 1, Len(rb))
                          <=> \A i \in 1 .. Len(base) : rb[i] = rn[i]
      OBVIOUS
    <2>1. /\ SubSeq(rb, 1, Len(rb)) = [i \in 1 .. Len(base) |-> rb[i]]
          /\ SubSeq(rn, 1, Len(rb)) = [i \in 1 .. Len(base) |-> rn[i]]
      BY <1>0, <1>1, <1>2
    <2>2. QED
      BY <2>1
  <1>6. ASSUME Len(name) = Len(base) + 1
        PROVE  (\A i \in 1 .. Len(base) : rb[i] = rn[i]) <=> Tail(name) = base
    <2>1. \A i \in 1 .. Len(base) : rb[i] = base[Len(base) - i + 1] /\ rn[i] = name[Len(base) - i + 2]
      BY <1>0, <1>1, <1>2, <1>6
    <2>2. \A i \in 1 .. Len(base) : Tail(name)[i] = name[i + 1]
      BY <1>0, <1>4, <1>6
    <2>3. Tail(name) = base <=> \A i \in 1 .. Len(base) : Tail(name)[i] = base[i]
      <3>1. Len(Tail(name)) = Len(base)
        BY <1>0, <1>4, <1>6
      <3>2. (\A i \in 1 .. Len(Tail(name)) : Tail(name)[i] = base[i]) => Tail(name) = base
        BY <3>1, <1>4, SeqEqual
      <3>3. QED
        BY <3>1, <3>2
    <2>4. ASSUME \A i \in 1 .. Len(base) : rb[i] = rn[i]
          PROVE  Tail(name) = base
      <3> SUFFICES ASSUME NEW i \in 1 .. Len(base) PROVE Tail(name)[i] = base[i]
        BY <2>3
      <3> DEFINE j == Len(base) - i + 1
      <3>1. j \in 1 .. Len(base) /\ Len(base) - j + 1 = i /\ Len(base) - j + 2 = i + 1
        BY <1>0
      <3> HIDE DEF j
      <3>2. rb[j] = rn[j] /\ rb[j] = base[i] /\ rn[j] = name[i + 1]
        BY <3>1, <2>1, <2>4
      <3>3. QED
        BY <2>2, <3>2
    <2>5. ASSUME Tail(name) = base, NEW i \in 1 .. Len(base)
          PROVE  rb[i] = rn[i]
      <3> DEFINE j == Len(base) - i + 1
      <3>1. j \in 1 .. Len(base) /\ j + 1 = Len(base) - i + 2
        BY <1>0
      <3> HIDE DEF j
      <3>2. Tail(name)[j] = name[j + 1] /\ Tail(name)[j] = base[j]
        BY <3>1, <2>2, <2>5
      <3>3. rb[i] = base[j] /\ rn[i] = name[j + 1]
        BY <2>1, <3>1 DEF j
      <3>4. QED
        BY <3>2, <3>3
    <2>6. QED
      BY <2>4, <2>5
  <1> DEFINE ends == SubSeq(rb, 1, Len(rb)) = SubSeq(rn, 1, Len(rb))
             same == \A i \in 1 .. Len(base) : rb[i] = rn[i]
  <1>7. /\ Stack!IsSuffix(base, name) <=> Len(base) <= Len(name) /\ ends
        /\ Len(base) <= Len(name) => (ends <=> same)
        /\ Len(name) = Len(base) + 1 => (same <=> Tail(name) = base)
        /\ Tail(name) = base => Len(base) = Len(name) - 1
    BY <1>1, <1>2, <1>3, <1>4, <1>5, <1>6
  <1> HIDE DEF ends, same
  <1>8. QED
    BY <1>0, <1>7

(* The router and the strategies read a plain Host header alike. *)
LEMMA HostsAgree ==
  ASSUME PartsOK
  PROVE  RouterAndTenantAgree
  <1> SUFFICES ASSUME parts # None, parts.host # None, parts.forwarded = None,
                      parts.x_forwarded_host = None, Base \in Wildcards,
                      Stack!Plain(parts.host) \notin Exact
               PROVE  LET m == Stack!match_host(Stack!resolve_host(parts))
                          slug == Stack!Ok("slug", m.subdomain) IN
                      /\ m.router = Base /\ m.subdomain # "" =>
                           /\ Stack!SubdomainStrategy(parts) = slug
                           /\ Stack!SubdomainOrDomainStrategy(parts) = slug
                      /\ m.router # Base =>
                           /\ Stack!SubdomainStrategy(parts) = Stack!Err(400)
                           /\ Stack!SubdomainOrDomainStrategy(parts).kind # "slug"
    BY Zenon DEF RouterAndTenantAgree, Stack!RouterAndTenantAgree
  <1> DEFINE name == parts.host.name
             m == Stack!match_host(name)
  <1>1. Stack!resolve_host(parts) = name /\ Stack!host_from_parts(parts) = name
    BY DEF Stack!resolve_host, Stack!host_from_parts, Stack!Plain
  <1>2. /\ name \in Seq(STRING) /\ name # <<>> /\ name # None
        /\ Base \in Seq(STRING) /\ Base # <<>> /\ Len(Base) > 1
        /\ name \notin Exact /\ None # Base
    BY RequestStateAssumption DEF PartsOK, Stack!Header, Stack!HostsAssumption, Stack!Plain
  <1> HIDE DEF name
  <1>3. Tail(name) = Base <=> Stack!IsSuffix(Base, name) /\ Len(name) = Len(Base) + 1
    BY <1>2, OneLabelMore
  <1>4. name = Base => Len(name) # Len(Base) + 1
    BY <1>2
  <1>5. CASE Tail(name) = Base
    <2>1. m = [router |-> Base, subdomain |-> name[1]]
      BY <1>2, <1>5 DEF Stack!match_host
    <2>2. m.router = Base /\ m.subdomain = name[1]
      BY <2>1
    <2>3. name[1] # "" => Stack!UnderBase(name) = Stack!Ok("slug", name[1])
      BY <1>3, <1>5 DEF Stack!UnderBase
    <2>4. name # Base /\ Stack!IsSuffix(Base, name)
      BY <1>3, <1>4, <1>5
    <2>5. /\ Stack!SubdomainStrategy(parts) = Stack!UnderBase(name)
          /\ Stack!SubdomainOrDomainStrategy(parts) = Stack!UnderBase(name)
      BY <1>1, <1>2, <2>4 DEF Stack!SubdomainStrategy, Stack!SubdomainOrDomainStrategy
    <2>6. QED
      BY <1>1, <2>2, <2>3, <2>5
  <1>6. CASE Tail(name) # Base
    <2>1. m.router # Base
      BY <1>2, <1>6 DEF Stack!match_host, Stack!NoMatch
    <2>2. Stack!IsSuffix(Base, name) => Stack!UnderBase(name) = Stack!Err(400)
      BY <1>3, <1>6 DEF Stack!UnderBase
    <2>3. Stack!SubdomainStrategy(parts) = Stack!Err(400)
      BY <1>1, <2>2 DEF Stack!SubdomainStrategy
    <2>4. Stack!SubdomainOrDomainStrategy(parts).kind \in {"error", "domain"}
      BY <1>1, <2>2 DEF Stack!SubdomainOrDomainStrategy, Stack!Err, Stack!Ok
    <2>5. QED
      BY <1>1, <2>1, <2>3, <2>4
  <1>7. QED
    BY <1>5, <1>6

(* In every reachable state the host router (src/server/host_router.rs)    *)
(* and the subdomain strategies (src/tenant/strategy.rs) agree on a plain  *)
(* Host header, for every set of hosts, wildcards and names: whether the   *)
(* name has exactly one label more than the base is decided alike by       *)
(* taking a label off its front and by comparing suffixes.                 *)
THEOREM RouterAndTenantAgreeAlways == Stack!Spec => []RouterAndTenantAgree
  <1>1. Stack!Init => LayersTypeOK /\ PartsOK
    BY LayersTypeInit DEF Stack!Init, PartsOK
  <1>2. LayersTypeOK /\ PartsOK /\ [Stack!Next]_Stack!vars => (LayersTypeOK /\ PartsOK)'
    <2> SUFFICES ASSUME LayersTypeOK, PartsOK, [Stack!Next]_Stack!vars
                 PROVE  LayersTypeOK' /\ PartsOK'
      OBVIOUS
    <2>1. LookedAt
      BY StackStep DEF OnwardStep, AnsweringStep, OutwardStep, Stack!vars, LookedAt
    <2>2. QED
      BY <2>1, LayersTypeStep, PartsStep
  <1>3. PartsOK => RouterAndTenantAgree
    BY HostsAgree
  <1>4. QED
    BY <1>1, <1>2, <1>3, PTL DEF Stack!Spec

-----------------------------------------------------------------------------
(* The guards. *)

Between(i, n) == {stack[j] : j \in i + 1 .. n - 1}

(* What is left, n layers deep, of what the guard at i required. *)
Held(i, n) ==
  /\ stack[i] = "require_role" =>
       "role" \in Stack!Outside(i) /\ (ext["Role"] = "admin" \/ "role" \in Between(i, n))
  /\ stack[i] = "require_authenticated" =>
       {"session", "jwt"} \cap Stack!Outside(i) # {} /\ ext["Session"] # None
  /\ stack[i] = "require_scope" =>
       /\ "api_key" \in Stack!Outside(i) /\ ext["ApiKeyMeta"] # None
       /\ "scope" \in ext["ApiKeyMeta"] \/ "api_key" \in Between(i, n)
  /\ stack[i] \in {"require_feature", "require_limit"} =>
       /\ "tier" \in Stack!Outside(i) /\ ext["TierInfo"] # None
       /\ ext["TierInfo"].n > 0 \/ "tier" \in Between(i, n)
  /\ stack[i] = "require_unauthenticated" =>
       ext["Session"] = None \/ {"session", "jwt"} \cap Between(i, n) # {}

(* An extension is there because a layer outside inserted it. *)
Provided ==
  /\ ext["Session"] # None => {"session", "jwt"} \cap Stack!Outside(at) # {}
  /\ ext["Role"] \in {None, "admin", "user"}
  /\ ext["Role"] # None => "role" \in Stack!Outside(at)
  /\ ext["ApiKeyMeta"] # None => "api_key" \in Stack!Outside(at)
  /\ ext["TierInfo"] # None => "tier" \in Stack!Outside(at) /\ ext["TierInfo"] \in Stack!Features

GuardsInv ==
  dir = "in" => Provided /\ \A i \in 1 .. at - 1 : Held(i, at)

(* A layer adds to what was found or lets the request pass, and the guards *)
(* outside it keep what they required.                                     *)
LEMMA GuardsStep ==
  ASSUME LayersTypeOK, GuardsInv, OnwardStep
  PROVE  GuardsInv'
  <1>1. /\ stack' = stack /\ at' = at + 1 /\ at \in Nat /\ at > 0 /\ dir = "in"
        /\ Provided /\ \A i \in 1 .. at - 1 : Held(i, at)
    BY DEF LayersTypeOK, GuardsInv, OnwardStep, Onward
  <1>2. Inserted /\ Allowed
    BY DEF OnwardStep
  <1>3. \A i : Stack!Outside(i)' = Stack!Outside(i)
    BY <1>1 DEF Stack!Outside
  <1>4. Stack!Outside(at + 1) = Stack!Outside(at) \cup {stack[at]}
    BY <1>1 DEF Stack!Outside
  <1>5. \A i \in 1 .. at - 1 : Between(i, at + 1) = Between(i, at) \cup {stack[at]}
    BY <1>1 DEF Between
  <1>6. \A i, n : Between(i, n)' = {stack[j] : j \in i + 1 .. n - 1}
    BY <1>1 DEF Between
  <1>n. None # TRUE /\ None \notin SUBSET {"scope"} /\ None \notin Stack!Features
    BY RequestStateAssumption
  <1>7. Provided'
    <2>0. Stack!Outside(at)' = Stack!Outside(at) \cup {stack[at]}
      BY <1>1, <1>4 DEF Stack!Outside
    <2>1. (ext["Session"] # None => {"session", "jwt"} \cap Stack!Outside(at) # {})'
      BY <1>1, <1>2, <2>0 DEF Provided, Inserted
    <2>2. (ext["Role"] \in {None, "admin", "user"})' /\ (ext["Role"] # None => "role" \in Stack!Outside(at))'
      BY <1>1, <1>2, <2>0 DEF Provided, Inserted
    <2>3. (ext["ApiKeyMeta"] # None => "api_key" \in Stack!Outside(at))'
      BY <1>1, <1>2, <2>0 DEF Provided, Inserted
    <2>4. (ext["TierInfo"] # None => "tier" \in Stack!Outside(at) /\ ext["TierInfo"] \in Stack!Features)'
      BY <1>1, <1>2, <2>0 DEF Provided, Inserted, Stack!Features
    <2>5. QED
      BY <2>1, <2>2, <2>3, <2>4 DEF Provided
  <1>8. ASSUME NEW i \in 1 .. at - 1
        PROVE  Held(i, at)'
    <2>1. Held(i, at)
      BY <1>1
    <2>2. Between(i, at)' = Between(i, at) \cup {stack[at]}
      BY <1>1, <1>5, <1>6 DEF Between
    <2>3. Stack!Outside(i)' = Stack!Outside(i)
      BY <1>3
    <2>4. (stack[i] = "require_role" =>
             "role" \in Stack!Outside(i) /\ (ext["Role"] = "admin" \/ "role" \in Between(i, at)))'
      BY <1>1, <1>2, <2>1, <2>2, <2>3 DEF Held, Inserted
    <2>5. (stack[i] = "require_authenticated" =>
             {"session", "jwt"} \cap Stack!Outside(i) # {} /\ ext["Session"] # None)'
      BY <1>1, <1>2, <1>n, <2>1, <2>2, <2>3 DEF Held, Inserted
    <2>6. (stack[i] = "require_scope" =>
             /\ "api_key" \in Stack!Outside(i) /\ ext["ApiKeyMeta"] # None
             /\ "scope" \in ext["ApiKeyMeta"] \/ "api_key" \in Between(i, at))'
      BY <1>1, <1>2, <1>n, <2>1, <2>2, <2>3 DEF Held, Inserted
    <2>7. (stack[i] \in {"require_feature", "require_limit"} =>
             /\ "tier" \in Stack!Outside(i) /\ ext["TierInfo"] # None
             /\ ext["TierInfo"].n > 0 \/ "tier" \in Between(i, at))'
      BY <1>1, <1>2, <1>n, <2>1, <2>2, <2>3 DEF Held, Inserted
    <2>8. (stack[i] = "require_unauthenticated" =>
             ext["Session"] = None \/ {"session", "jwt"} \cap Between(i, at) # {})'
      BY <1>1, <1>2, <2>1, <2>2, <2>3 DEF Held, Inserted
    <2>9. QED
      BY <2>4, <2>5, <2>6, <2>7, <2>8 DEF Held
  <1>k. PICK k : k = at
    OBVIOUS
  <1>9. Held(k, at)'
    <2>3. Stack!Outside(k)' = Stack!Outside(k)
      BY <1>3
    <2>4. stack[k] = "require_role" => ext["Role"] = "admin" /\ "role" \in Stack!Outside(k) /\ ext'["Role"] = ext["Role"]
      BY <1>1, <1>2, <1>k DEF Provided, Allowed, Inserted
    <2>5. stack[k] = "require_authenticated" =>
            {"session", "jwt"} \cap Stack!Outside(k) # {} /\ ext["Session"] # None /\ ext'["Session"] = ext["Session"]
      BY <1>1, <1>2, <1>k DEF Provided, Allowed, Inserted
    <2>6. stack[k] = "require_scope" =>
             /\ "api_key" \in Stack!Outside(k) /\ ext["ApiKeyMeta"] # None
             /\ "scope" \in ext["ApiKeyMeta"] /\ ext'["ApiKeyMeta"] = ext["ApiKeyMeta"]
      BY <1>1, <1>2, <1>k DEF Provided, Allowed, Inserted
    <2>7. stack[k] \in {"require_feature", "require_limit"} =>
             /\ "tier" \in Stack!Outside(k) /\ ext["TierInfo"] # None
             /\ ext["TierInfo"].n > 0 /\ ext'["TierInfo"] = ext["TierInfo"]
      BY <1>1, <1>2, <1>k DEF Provided, Allowed, Inserted
    <2>8. stack[k] = "require_unauthenticated" => ext["Session"] = None /\ ext'["Session"] = ext["Session"]
      BY <1>1, <1>2, <1>k DEF Provided, Allowed, Inserted
    <2>9. QED
      BY <1>1, <2>3, <2>4, <2>5, <2>6, <2>7, <2>8 DEF Held
  <1>10. ASSUME NEW i \in 1 .. at' - 1 PROVE Held(i, at)'
    BY <1>1, <1>8, <1>9, <1>k
  <1>11. QED
    BY <1>7, <1>10 DEF GuardsInv

LEMMA GuardsInvImplies ==
  ASSUME LayersTypeOK, GuardsInv
  PROVE  GuardsFailClosed
  <1> SUFFICES ASSUME dir = "in", at = Len(stack) + 1, NEW i \in DOMAIN stack
               PROVE  Stack!Satisfied(i)
    BY DEF GuardsFailClosed, Stack!GuardsFailClosed, Stack!AtHandler
  <1>1. Len(stack) \in Nat /\ i \in 1 .. at - 1 /\ Held(i, at)
    BY DEF LayersTypeOK, GuardsInv
  <1>2. Between(i, at) = Stack!Inside(i)
    BY <1>1 DEF Between, Stack!Inside
  <1>3. QED
    BY <1>1, <1>2 DEF Held, Stack!Satisfied

(* For every stack of layers, of any length and order, a handler behind a  *)
(* guard only runs when what the guard requires is true (src/auth/guard.rs *)
(* and the layers of src/auth, src/tier that provide it).                  *)
THEOREM GuardsAlwaysFailClosed == Stack!Spec => []GuardsFailClosed
  <1>1. Stack!Init => LayersTypeOK /\ GuardsInv
    <2> SUFFICES ASSUME Stack!Init PROVE LayersTypeOK /\ GuardsInv
      OBVIOUS
    <2>1. ext = Stack!NoExtensions /\ at = 1
      BY DEF Stack!Init
    <2>2. \A x \in Stack!Extensions : ext[x] = None
      BY <2>1 DEF Stack!NoExtensions
    <2>3. Provided
      BY <2>2, ExtensionNames DEF Provided
    <2>4. QED
      BY <2>1, <2>3, LayersTypeInit DEF GuardsInv
  <1>2. LayersTypeOK /\ GuardsInv /\ [Stack!Next]_Stack!vars => (LayersTypeOK /\ GuardsInv)'
    <2> SUFFICES ASSUME LayersTypeOK, GuardsInv, [Stack!Next]_Stack!vars
                 PROVE  LayersTypeOK' /\ GuardsInv'
      OBVIOUS
    <2>1. CASE OnwardStep
      BY <2>1, GuardsStep, LayersTypeStep
    <2>2. CASE dir' = "out"
      BY <2>2, LayersTypeStep DEF GuardsInv
    <2>3. CASE UNCHANGED Stack!vars
      <3>1. GuardsInv'
        BY <2>3 DEF GuardsInv, Provided, Held, Between, Stack!Outside, Stack!vars, Stack!Features
      <3>2. QED
        BY <3>1, LayersTypeStep
    <2>4. QED
      BY <2>1, <2>2, <2>3, StackStep DEF AnsweringStep, Answering, OutwardStep
  <1>3. LayersTypeOK /\ GuardsInv => GuardsFailClosed
    BY GuardsInvImplies
  <1>4. QED
    BY <1>1, <1>2, <1>3, PTL DEF Stack!Spec

-----------------------------------------------------------------------------
(* The headers. *)

Fields ==
  {"status", "body", "error", "cause", "origin", "headers", "rendered", "locale", "page"}

(* The fields of the responses, one lemma for each way to make one. *)
LEMMA ResponseFields ==
  ASSUME NEW status
  PROVE  LET r == Stack!Response(status) IN
         /\ DOMAIN r = Fields
         /\ r.status = status /\ r.body = None /\ r.error = None /\ r.cause = None
         /\ r.origin = at /\ r.headers = {} /\ r.rendered = 0 /\ r.locale = None
         /\ r.page = None
  BY DEF Stack!Response, Stack!NoResponse, Fields

LEMMA ErrorResponseFields ==
  ASSUME NEW e
  PROVE  LET r == Stack!into_response(e) IN
         /\ DOMAIN r = Fields
         /\ r.status = e.status /\ r.error = Stack!clone(e) /\ r.cause = e
         /\ r.body = [status |-> e.status, message |-> e.message, details |-> e.details]
         /\ r.origin = at /\ r.headers = {} /\ r.rendered = 0 /\ r.locale = None
         /\ r.page = None
  <1> DEFINE q == Stack!Response(e.status)
             body == Stack!render_error_body(e.status, e.message, e.details)
             copy == Stack!clone(e)
  <1>1. Stack!into_response(e) = [q EXCEPT !.body = body, !.error = copy, !.cause = e]
    BY DEF Stack!into_response
  <1>2. body = [status |-> e.status, message |-> e.message, details |-> e.details]
    BY DEF Stack!render_error_body
  <1>3. /\ DOMAIN q = Fields
        /\ q.status = e.status /\ q.origin = at /\ q.headers = {} /\ q.rendered = 0
        /\ q.locale = None /\ q.page = None
    BY ResponseFields
  <1> HIDE DEF q, body, copy
  <1>4. QED
    BY <1>1, <1>2, <1>3 DEF Fields, copy

LEMMA PanickedFields ==
  LET r == Stack!Panicked IN
  /\ DOMAIN r = Fields
  /\ r.status = -1 /\ r.error = None /\ r.cause = None
  /\ r.origin = at /\ r.headers = {} /\ r.rendered = 0 /\ r.locale = None
  /\ r.page = None
  BY DEF Stack!Panicked, Stack!NoResponse, Fields

(* The message that default_error_handler gives an error. *)
MessageLocale(err, extensions) == IF err.locale_key = None THEN None ELSE extensions["Translator"]
MessageOf(err, extensions) ==
  IF MessageLocale(err, extensions) = None THEN err.message
  ELSE Stack!t(MessageLocale(err, extensions), err.locale_key, <<>>)

LEMMA HandledFields ==
  ASSUME NEW err, NEW extensions
  PROVE  LET r == Stack!default_error_handler(err, extensions) IN
         /\ DOMAIN r = Fields
         /\ r.status = err.status /\ r.error = None /\ r.cause = resp.cause
         /\ r.body = [status |-> err.status, message |-> MessageOf(err, extensions),
                      details |-> err.details]
         /\ r.origin = resp.origin /\ r.headers = {} /\ r.rendered = at
         /\ r.locale = MessageLocale(err, extensions)
         /\ r.page = None
  <1> DEFINE q == Stack!Response(err.status)
             message == MessageOf(err, extensions)
             locale == MessageLocale(err, extensions)
             body == Stack!render_error_body(err.status, message, err.details)
             cause == resp.cause
             origin == resp.origin
  <1>1. Stack!default_error_handler(err, extensions)
          = [q EXCEPT !.body = body, !.locale = locale, !.cause = cause, !.origin = origin,
                      !.rendered = at]
    BY DEF Stack!default_error_handler, MessageOf, MessageLocale
  <1>2. body = [status |-> err.status, message |-> message, details |-> err.details]
    BY DEF Stack!render_error_body
  <1>3. /\ DOMAIN q = Fields
        /\ q.status = err.status /\ q.error = None /\ q.headers = {} /\ q.page = None
    BY ResponseFields
  <1> HIDE DEF q, body, message, locale, cause, origin
  <1>4. QED
    BY <1>1, <1>2, <1>3 DEF Fields, cause, origin, message, locale

LEMMA HeadersFields ==
  ASSUME NEW r, DOMAIN r = Fields, NEW h
  PROVE  LET q == [r EXCEPT !.headers = h] IN
         /\ DOMAIN q = Fields
         /\ q.status = r.status /\ q.error = r.error /\ q.cause = r.cause /\ q.body = r.body
         /\ q.origin = r.origin /\ q.headers = h /\ q.rendered = r.rendered
         /\ q.locale = r.locale /\ q.page = r.page
  BY DEF Fields

LEMMA PageFields ==
  ASSUME NEW page
  PROVE  LET q == [Stack!Response(200) EXCEPT !.page = page] IN
         /\ DOMAIN q = Fields
         /\ q.status = 200 /\ q.error = None /\ q.cause = None
         /\ q.origin = at /\ q.headers = {} /\ q.rendered = 0 /\ q.locale = None
         /\ q.page = page
  <1> DEFINE q == Stack!Response(200)
  <1>1. /\ DOMAIN q = Fields
        /\ q.status = 200 /\ q.error = None /\ q.cause = None
        /\ q.origin = at /\ q.headers = {} /\ q.rendered = 0 /\ q.locale = None
    BY ResponseFields
  <1> HIDE DEF q
  <1>2. LET r == [q EXCEPT !.page = page] IN
         /\ DOMAIN r = Fields
         /\ r.status = 200 /\ r.error = None /\ r.cause = None
         /\ r.origin = at /\ r.headers = {} /\ r.rendered = 0 /\ r.locale = None
         /\ r.page = page
    BY <1>1 DEF Fields
  <1>3. QED
    BY <1>2 DEF q

-----------------------------------------------------------------------------
HeaderPlaces ==
  Stack!Place("security_headers") \cup Stack!Place("cors") \cup Stack!Place("request_id")

(* The headers of the layers that the response came through. *)
Gathered ==
  {i \in HeaderPlaces :
     at < i /\ i < resp.origin /\ (resp.rendered > 0 => i < resp.rendered)}

ResponseInv ==
  dir = "out" =>
    /\ DOMAIN resp = Fields
    /\ resp.status \in Nat \cup {-1}
    /\ resp.error # None => IsError(resp.error) /\ resp.status \in Nat
    /\ resp.origin \in Nat /\ at < resp.origin
    /\ resp.rendered \in Nat /\ (resp.rendered > 0 => at < resp.rendered)

HeadersInv == dir = "out" /\ ~Stack!Aborted => resp.headers = Gathered

(* A response starts with no headers and not rendered. *)
LEMMA AnsweredResponse ==
  ASSUME LayersTypeOK, AnsweringStep
  PROVE  ResponseInv' /\ HeadersInv'
  <1>1. /\ at \in Nat /\ at > 0 /\ at' = at - 1 /\ dir' = "out" /\ stack' = stack
    BY DEF LayersTypeOK, AnsweringStep, Answering
  <1>2. /\ DOMAIN resp' = Fields /\ resp'.origin = at /\ resp'.headers = {}
        /\ resp'.rendered = 0 /\ resp'.status \in Nat \cup {-1}
        /\ resp'.error # None => IsError(resp'.error) /\ resp'.status \in Nat
    <2>1. CASE \E e \in Errors : resp' = Stack!into_response(e)
      <3>1. PICK e \in Errors : resp' = Stack!into_response(e)
        BY <2>1
      <3>2. IsError(e) /\ IsError(Stack!clone(e)) /\ e.status \in Nat
        BY ErrorsAreErrors, CloneKeeps DEF IsError
      <3>3. QED
        BY <3>1, <3>2, ErrorResponseFields
    <2>2. CASE \E status \in Nat : resp' = Stack!Response(status)
      BY <2>2, ResponseFields
    <2>3. CASE Page
      BY <2>3, PageFields DEF Page
    <2>4. CASE resp' = Stack!Panicked
      BY <2>4, PanickedFields
    <2>5. QED
      BY <2>1, <2>2, <2>3, <2>4 DEF AnsweringStep, Answered
  <1>3. ResponseInv'
    BY <1>1, <1>2 DEF ResponseInv, IsError
  <1>4. \A i \in DOMAIN stack : ~(at - 1 < i /\ i < at)
    BY <1>1 DEF LayersTypeOK
  <1>5. HeadersInv'
    BY <1>1, <1>2, <1>4 DEF HeadersInv, Gathered, HeaderPlaces, Stack!Place
  <1>6. QED
    BY <1>3, <1>5

(* What a layer does to a response on its way out. *)
LEMMA OutwardCases ==
  ASSUME OutwardStep
  PROVE  \/ /\ stack[at] = "catch_panic" /\ Stack!Aborted
            /\ resp' = Stack!into_response(Stack!internal)
         \/ /\ stack[at] = "error_handler" /\ resp.error # None
            /\ resp' = Stack!default_error_handler(resp.error, saved[at])
         \/ /\ stack[at] \in {"security_headers", "cors", "request_id"} /\ ~Stack!Aborted
            /\ resp' = [resp EXCEPT !.headers = resp.headers \cup {at}]
         \/ /\ resp' = resp
            /\ stack[at] \in {"security_headers", "cors", "request_id"} => Stack!Aborted
            /\ stack[at] = "error_handler" => resp.error = None
  BY DEF OutwardStep

(* A layer on the way out adds its headers, or replaces the response. *)
LEMMA OutwardResponse ==
  ASSUME LayersTypeOK, ResponseInv, HeadersInv, OutwardStep
  PROVE  ResponseInv' /\ HeadersInv'
  <1>1. /\ at \in Nat /\ at > 0 /\ at' = at - 1 /\ dir = "out" /\ dir' = "out" /\ stack' = stack
        /\ at \in DOMAIN stack /\ \A i \in DOMAIN stack : i \in Nat
    BY DEF LayersTypeOK, OutwardStep
  <1>2. /\ DOMAIN resp = Fields
        /\ resp.status \in Nat \cup {-1}
        /\ resp.error # None => IsError(resp.error) /\ resp.status \in Nat
        /\ resp.origin \in Nat /\ at < resp.origin
        /\ resp.rendered \in Nat /\ (resp.rendered > 0 => at < resp.rendered)
    BY <1>1 DEF ResponseInv
  <1>h. HeaderPlaces' = HeaderPlaces
    BY <1>1 DEF HeaderPlaces, Stack!Place
  <1>3. CASE stack[at] = "catch_panic" /\ resp' = Stack!into_response(Stack!internal)
    <2>1. IsError(Stack!internal) /\ IsError(Stack!clone(Stack!internal))
      BY InternalIsError, CloneKeeps
    <2>2. /\ DOMAIN resp' = Fields /\ resp'.status \in Nat /\ IsError(resp'.error)
          /\ resp'.origin = at /\ resp'.headers = {} /\ resp'.rendered = 0
      BY <1>3, <2>1, ErrorResponseFields DEF IsError
    <2>3. ResponseInv'
      BY <1>1, <2>2 DEF ResponseInv, IsError
    <2>4. \A i \in DOMAIN stack : ~(at - 1 < i /\ i < at)
      BY <1>1
    <2>5. HeadersInv'
      BY <1>1, <2>2, <2>4 DEF HeadersInv, Gathered, HeaderPlaces, Stack!Place
    <2>6. QED
      BY <2>3, <2>5
  <1>4. CASE /\ stack[at] = "error_handler" /\ resp.error # None
             /\ resp' = Stack!default_error_handler(resp.error, saved[at])
    <2>1. /\ DOMAIN resp' = Fields /\ resp'.status = resp.error.status /\ resp'.error = None
          /\ resp'.origin = resp.origin /\ resp'.headers = {} /\ resp'.rendered = at
      <3>1. PICK err, x : err = resp.error /\ x = saved[at]
        OBVIOUS
      <3>2. resp' = Stack!default_error_handler(err, x)
        BY <1>4, <3>1
      <3> DEFINE r == Stack!default_error_handler(err, x)
      <3>3. /\ DOMAIN r = Fields
            /\ r.status = err.status /\ r.error = None /\ r.cause = resp.cause
            /\ r.body = [status |-> err.status, message |-> MessageOf(err, x),
                         details |-> err.details]
            /\ r.origin = resp.origin /\ r.headers = {} /\ r.rendered = at
            /\ r.locale = MessageLocale(err, x)
            /\ r.page = None
        BY HandledFields
      <3> HIDE DEF r
      <3>4. /\ DOMAIN r = Fields /\ r.status = err.status /\ r.error = None
            /\ r.origin = resp.origin /\ r.headers = {} /\ r.rendered = at
        BY <3>3
      <3>5. QED
        BY <3>1, <3>2, <3>4 DEF r
    <2>2. resp'.status \in Nat
      BY <1>2, <1>4, <2>1 DEF IsError
    <2>3. ResponseInv'
      BY <1>1, <1>2, <2>1, <2>2 DEF ResponseInv
    <2>4. \A i \in DOMAIN stack : ~(at - 1 < i /\ i < at)
      BY <1>1
    <2>5. HeadersInv'
      BY <1>1, <2>1, <2>4 DEF HeadersInv, Gathered, HeaderPlaces, Stack!Place
    <2>6. QED
      BY <2>3, <2>5
  <1>5. CASE /\ stack[at] \in {"security_headers", "cors", "request_id"} /\ ~Stack!Aborted
             /\ resp' = [resp EXCEPT !.headers = resp.headers \cup {at}]
    <2>1. /\ DOMAIN resp' = Fields /\ resp'.status = resp.status /\ resp'.error = resp.error
          /\ resp'.origin = resp.origin /\ resp'.headers = resp.headers \cup {at}
          /\ resp'.rendered = resp.rendered
      BY <1>2, <1>5, HeadersFields
    <2>2. ResponseInv'
      BY <1>1, <1>2, <2>1 DEF ResponseInv, IsError
    <2>3. at \in HeaderPlaces /\ HeaderPlaces \subseteq DOMAIN stack
      BY <1>1, <1>5 DEF HeaderPlaces, Stack!Place
    <2>4. resp.headers = Gathered
      BY <1>1, <1>5 DEF HeadersInv
    <2>5. Gathered' = {i \in HeaderPlaces :
             at - 1 < i /\ i < resp.origin /\ (resp.rendered > 0 => i < resp.rendered)}
      BY <1>1, <1>h, <2>1 DEF Gathered
    <2>6. Gathered' = Gathered \cup {at}
      <3>1. \A i \in HeaderPlaces : at - 1 < i <=> at < i \/ i = at
        BY <1>1, <2>3
      <3>2. at < resp.origin /\ (resp.rendered > 0 => at < resp.rendered)
        BY <1>2
      <3>3. QED
        BY <2>3, <2>5, <3>1, <3>2 DEF Gathered
    <2>7. HeadersInv'
      BY <2>1, <2>4, <2>6 DEF HeadersInv
    <2>8. QED
      BY <2>2, <2>7
  <1>6. CASE /\ resp' = resp
             /\ stack[at] \in {"security_headers", "cors", "request_id"} => Stack!Aborted
    <2>1. ResponseInv'
      BY <1>1, <1>2, <1>6 DEF ResponseInv, IsError
    <2>2. ASSUME ~Stack!Aborted
          PROVE  Gathered' = Gathered
      <3>1. at \notin HeaderPlaces /\ HeaderPlaces \subseteq DOMAIN stack
        BY <1>1, <1>6, <2>2 DEF HeaderPlaces, Stack!Place
      <3>2. Gathered' = {i \in HeaderPlaces :
              at - 1 < i /\ i < resp.origin /\ (resp.rendered > 0 => i < resp.rendered)}
        BY <1>1, <1>h, <1>6 DEF Gathered
      <3>3. QED
        BY <1>1, <3>1, <3>2 DEF Gathered
    <2>3. HeadersInv'
      BY <1>1, <1>6, <2>2 DEF HeadersInv, Stack!Aborted
    <2>4. QED
      BY <2>1, <2>3
  <1>7. QED
    BY <1>3, <1>4, <1>5, <1>6, OutwardCases

LEMMA ResponseStep ==
  ASSUME LayersTypeOK, ResponseInv, HeadersInv, [Stack!Next]_Stack!vars
  PROVE  ResponseInv' /\ HeadersInv'
  <1>1. CASE OnwardStep
    BY <1>1 DEF OnwardStep, Onward, ResponseInv, HeadersInv
  <1>2. CASE AnsweringStep
    BY <1>2, AnsweredResponse
  <1>3. CASE OutwardStep
    BY <1>3, OutwardResponse
  <1>4. CASE UNCHANGED Stack!vars
    BY <1>4 DEF Stack!vars, ResponseInv, HeadersInv, IsError, Gathered, HeaderPlaces,
       Stack!Place, Stack!Aborted
  <1>5. QED
    BY <1>1, <1>2, <1>3, <1>4, StackStep

(* For every stack, a response leaves with the headers of exactly the      *)
(* layers it came through since an error handler last replaced it          *)
(* (src/middleware).                                                       *)
THEOREM HeadersAlwaysSurvive == Stack!Spec => []HeadersSurvive
  <1> DEFINE Inv == LayersTypeOK /\ ResponseInv /\ HeadersInv
  <1>1. Stack!Init => Inv
    BY LayersTypeInit DEF Stack!Init, ResponseInv, HeadersInv
  <1>2. Inv /\ [Stack!Next]_Stack!vars => Inv'
    BY LayersTypeStep, ResponseStep
  <1>3. Inv => HeadersSurvive
    <2> SUFFICES ASSUME Inv, dir = "out", at = 0, ~Stack!Aborted
                 PROVE  resp.headers
                          = {i \in HeaderPlaces :
                               i < resp.origin /\ (resp.rendered > 0 => i < resp.rendered)}
      BY DEF HeadersSurvive, Stack!HeadersSurvive, Stack!Done, HeaderPlaces
    <2>1. \A i \in HeaderPlaces : at < i
      BY DEF HeaderPlaces, Stack!Place, LayersTypeOK
    <2>2. QED
      BY <2>1 DEF HeadersInv, Gathered
  <1>4. QED
    BY <1>1, <1>2, <1>3, PTL DEF Stack!Spec

-----------------------------------------------------------------------------
(* The catalog: what the files say is what the store answers. *)

(* The values along a path, from the file's own. *)
IsWay(f, value, path) ==
  f = [i \in 0 .. Len(path) |-> IF i = 0 THEN value ELSE Stack!Below(f[i - 1], path[i])]

(* There is a way along every path: by the least place without one. *)
LEMMA WayExists ==
  ASSUME NEW value, NEW path, Len(path) \in Nat
  PROVE  \E f : IsWay(f, value, path)
  <1> DEFINE Good(n, g) ==
               g = [i \in 0 .. n |-> IF i = 0 THEN value ELSE Stack!Below(g[i - 1], path[i])]
             B == {n \in Nat : ~ \E g : Good(n, g)}
  <1>1. B = {}
    <2> SUFFICES ASSUME B # {} PROVE FALSE
      OBVIOUS
    <2>1. PICK x \in B : \A y \in B : x <= y
      BY LeastNat
    <2>2. x # 0
      <3>1. Good(0, [i \in 0 .. 0 |-> value])
        OBVIOUS
      <3>2. QED
        BY <3>1
    <2>3. x \in Nat /\ x - 1 \in Nat /\ x - 1 \notin B
      <3>1. x \in Nat
        OBVIOUS
      <3>2. x - 1 \in Nat /\ ~(x <= x - 1)
        BY <3>1, <2>2
      <3>3. QED
        BY <3>1, <3>2, <2>1
    <2>4. PICK g : Good(x - 1, g)
      BY <2>3
    <2> DEFINE h == [i \in 0 .. x |-> IF i = x THEN Stack!Below(g[x - 1], path[x]) ELSE g[i]]
    <2>5. \A i \in 0 .. x - 1 : h[i] = g[i] /\ g[i] = IF i = 0 THEN value ELSE Stack!Below(g[i - 1], path[i])
      BY <2>3, <2>4
    <2>6. ASSUME NEW i \in 0 .. x
          PROVE  h[i] = IF i = 0 THEN value ELSE Stack!Below(h[i - 1], path[i])
      <3>1. CASE i = x
        BY <2>2, <2>3, <2>5, <3>1
      <3>2. CASE i # x
        <4>1. i \in 0 .. x - 1 /\ (i # 0 => i - 1 \in 0 .. x - 1)
          BY <2>3, <3>2
        <4>2. QED
          BY <2>5, <4>1
      <3>3. QED
        BY <3>1, <3>2
    <2>7. Good(x, h)
      BY <2>6
    <2>8. QED
      BY <2>7
  <1>2. QED
    BY <1>1 DEF IsWay

(* Reached follows the way. *)
LEMMA ReachedByWay ==
  ASSUME NEW value, NEW path, Len(path) \in Nat
  PROVE  \E f : IsWay(f, value, path) /\ Stack!Reached(value, path) = f[Len(path)]
  <1> DEFINE w == CHOOSE f : IsWay(f, value, path)
  <1>1. IsWay(w, value, path)
    BY WayExists
  <1>2. Stack!Reached(value, path) = w[Len(path)]
    BY Zenon DEF Stack!Reached, IsWay
  <1>3. QED
    BY <1>1, <1>2

LEMMA ReachedEmpty ==
  ASSUME NEW value
  PROVE  Stack!Reached(value, <<>>) = value
  <1>1. PICK f : IsWay(f, value, <<>>) /\ Stack!Reached(value, <<>>) = f[Len(<<>>)]
    BY ReachedByWay
  <1>2. QED
    BY <1>1 DEF IsWay

(* A path that is one segment longer leads one value further. *)
LEMMA ReachedAppend ==
  ASSUME NEW S, NEW value, NEW path \in Seq(S), NEW x \in S
  PROVE  Stack!Reached(value, Append(path, x)) = Stack!Below(Stack!Reached(value, path), x)
  <1> DEFINE longer == Append(path, x)
  <1>1. /\ Len(path) \in Nat /\ Len(longer) = Len(path) + 1
        /\ longer[Len(path) + 1] = x /\ \A i \in 1 .. Len(path) : longer[i] = path[i]
    BY AppendProperties, LenProperties
  <1> HIDE DEF longer
  <1>2. PICK f : IsWay(f, value, path) /\ Stack!Reached(value, path) = f[Len(path)]
    BY <1>1, ReachedByWay
  <1>3. PICK g : IsWay(g, value, longer) /\ Stack!Reached(value, longer) = g[Len(longer)]
    BY <1>1, ReachedByWay
  <1>4. /\ f[0] = value /\ \A i \in 1 .. Len(path) : f[i] = Stack!Below(f[i - 1], path[i])
        /\ g[0] = value /\ \A i \in 1 .. Len(path) + 1 : g[i] = Stack!Below(g[i - 1], longer[i])
    <2>1. \A i \in 0 .. Len(path) : f[i] = IF i = 0 THEN value ELSE Stack!Below(f[i - 1], path[i])
      BY <1>2 DEF IsWay
    <2>2. \A i \in 0 .. Len(path) + 1 : g[i] = IF i = 0 THEN value ELSE Stack!Below(g[i - 1], longer[i])
      BY <1>1, <1>3 DEF IsWay
    <2>3. f[0] = value /\ \A i \in 1 .. Len(path) : f[i] = Stack!Below(f[i - 1], path[i])
      BY <1>1, <2>1
    <2>4. g[0] = value /\ \A i \in 1 .. Len(path) + 1 : g[i] = Stack!Below(g[i - 1], longer[i])
      BY <1>1, <2>2
    <2>5. QED
      BY <2>3, <2>4
  <1> DEFINE B == {i \in 0 .. Len(path) : g[i] # f[i]}
  <1>5. B = {}
    <2> SUFFICES ASSUME B # {} PROVE FALSE
      OBVIOUS
    <2>1. PICK b \in B : \A y \in B : b <= y
      <3>1. B \subseteq Nat
        BY <1>1
      <3>2. QED
        BY <3>1, LeastNat
    <2>2. b # 0
      BY <1>4
    <2>3. b \in 1 .. Len(path) /\ b - 1 \in 0 .. Len(path) /\ b - 1 \notin B
      BY <1>1, <2>1, <2>2
    <2>4. f[b] = Stack!Below(f[b - 1], path[b]) /\ g[b] = Stack!Below(g[b - 1], longer[b])
      BY <1>1, <1>4, <2>3
    <2>5. QED
      BY <1>1, <2>3, <2>4
  <1>6. g[Len(path)] = f[Len(path)]
    BY <1>1, <1>5
  <1>7. g[Len(path) + 1] = Stack!Below(g[Len(path)], x)
    <2>1. Len(path) + 1 \in 1 .. Len(path) + 1 /\ (Len(path) + 1) - 1 = Len(path)
      BY <1>1
    <2>2. QED
      BY <1>1, <1>4, <2>1
  <1>8. QED
    BY <1>1, <1>2, <1>3, <1>6, <1>7 DEF longer

(* The nodes of a value, level by level. *)
IsLevels(f, prefix, value) ==
  f = [d \in 0 .. MaxDepth |-> IF d = 0 THEN {<<prefix, value>>} ELSE Stack!Deeper(f[d - 1])]

(* There are levels down to every depth. *)
LEMMA LevelsExist ==
  ASSUME NEW prefix, NEW value, MaxDepth \in Nat
  PROVE  \E f : IsLevels(f, prefix, value)
  <1> DEFINE root == {<<prefix, value>>}
  <1> HIDE DEF root
  <1> DEFINE Good(n, g) ==
               g = [d \in 0 .. n |-> IF d = 0 THEN root ELSE Stack!Deeper(g[d - 1])]
             B == {n \in Nat : ~ \E g : Good(n, g)}
  <1>1. B = {}
    <2> SUFFICES ASSUME B # {} PROVE FALSE
      OBVIOUS
    <2>1. PICK x \in B : \A y \in B : x <= y
      BY LeastNat
    <2>2. x # 0
      <3>1. Good(0, [i \in 0 .. 0 |-> root])
        OBVIOUS
      <3>2. QED
        BY <3>1
    <2>3. x \in Nat /\ x - 1 \in Nat /\ x - 1 \notin B
      <3>1. x \in Nat
        OBVIOUS
      <3>2. x - 1 \in Nat /\ ~(x <= x - 1)
        BY <3>1, <2>2
      <3>3. QED
        BY <3>1, <3>2, <2>1
    <2>4. PICK g : Good(x - 1, g)
      BY <2>3
    <2> DEFINE h == [i \in 0 .. x |-> IF i = x THEN Stack!Deeper(g[x - 1]) ELSE g[i]]
    <2>5. \A i \in 0 .. x - 1 : /\ h[i] = g[i]
                                /\ g[i] = IF i = 0 THEN root ELSE Stack!Deeper(g[i - 1])
      BY <2>3, <2>4
    <2>6. ASSUME NEW i \in 0 .. x
          PROVE  h[i] = IF i = 0 THEN root ELSE Stack!Deeper(h[i - 1])
      <3>1. CASE i = x
        BY <2>2, <2>3, <2>5, <3>1
      <3>2. CASE i # x
        <4>1. i \in 0 .. x - 1 /\ (i # 0 => i - 1 \in 0 .. x - 1)
          BY <2>3, <3>2
        <4>2. QED
          BY <2>5, <4>1
      <3>3. QED
        BY <3>1, <3>2
    <2>7. Good(x, h)
      BY <2>6
    <2>8. QED
      BY <2>7
  <1>2. QED
    BY <1>1 DEF IsLevels, root

(* Nodes are the levels. *)
LEMMA NodesByLevel ==
  ASSUME NEW prefix, NEW value
  PROVE  /\ Stack!Nodes(prefix, value)[0] = {<<prefix, value>>}
         /\ \A d \in 1 .. MaxDepth :
              Stack!Nodes(prefix, value)[d] = Stack!Deeper(Stack!Nodes(prefix, value)[d - 1])
  <1>0. MaxDepth \in Nat
    BY RequestStateAssumption DEF Stack!CatalogAssumption
  <1> DEFINE w == CHOOSE f : IsLevels(f, prefix, value)
  <1>1. IsLevels(w, prefix, value)
    BY <1>0, LevelsExist
  <1>2. Stack!Nodes(prefix, value) = w
    BY Zenon DEF Stack!Nodes, IsLevels
  <1> HIDE DEF w
  <1>3. \A d \in 0 .. MaxDepth : w[d] = IF d = 0 THEN {<<prefix, value>>} ELSE Stack!Deeper(w[d - 1])
    BY <1>1 DEF IsLevels
  <1>4. w[0] = {<<prefix, value>>} /\ \A d \in 1 .. MaxDepth : w[d] = Stack!Deeper(w[d - 1])
    BY <1>0, <1>3
  <1>5. QED
    BY <1>2, <1>4

(* The key of a path below a file. *)
Key(stem, path) == <<stem>> \o path

(* A key is its stem and then its path. *)
LEMMA KeyIs ==
  ASSUME NEW S, NEW stem \in S, NEW path \in Seq(S)
  PROVE  /\ Key(stem, path) \in Seq(S) /\ Len(Key(stem, path)) = Len(path) + 1
         /\ Head(Key(stem, path)) = stem /\ Tail(Key(stem, path)) = path
         /\ Key(stem, path) # <<>>
         /\ \A x \in S : Key(stem, Append(path, x)) = Append(Key(stem, path), x)
  <1>1. /\ Key(stem, path) \in Seq(S) /\ Len(Key(stem, path)) = Len(path) + 1
        /\ Key(stem, path)[1] = stem
        /\ \A i \in 1 .. Len(path) : Key(stem, path)[i + 1] = path[i]
    BY DEF Key
  <1>2. Len(path) \in Nat /\ Key(stem, path) # <<>> /\ Head(Key(stem, path)) = stem
    BY <1>1
  <1>3. Tail(Key(stem, path)) = path
    <2>1. /\ Tail(Key(stem, path)) \in Seq(S) /\ Len(Tail(Key(stem, path))) = Len(path)
          /\ \A i \in 1 .. Len(path) : Tail(Key(stem, path))[i] = path[i]
      BY <1>1, <1>2
    <2>2. QED
      BY <2>1, SeqEqual
  <1>4. ASSUME NEW x \in S
        PROVE  Key(stem, Append(path, x)) = Append(Key(stem, path), x)
    <2>1. <<stem>> \in Seq(S) /\ <<x>> \in Seq(S)
      OBVIOUS
    <2>2. Append(path, x) = path \o <<x>> /\ Append(Key(stem, path), x) = Key(stem, path) \o <<x>>
      BY <1>1, AppendIsConcat
    <2>3. <<stem>> \o (path \o <<x>>) = (<<stem>> \o path) \o <<x>>
      BY <2>1, ConcatAssociative
    <2>4. QED
      BY <2>2, <2>3 DEF Key
  <1>5. QED
    BY <1>1, <1>2, <1>3, <1>4

LEMMA DeeperIs ==
  ASSUME NEW nodes, NEW m
  PROVE  m \in Stack!Deeper(nodes) <=>
           \E n \in nodes : /\ Stack!is_branch(n[2])
                            /\ \E k \in DOMAIN n[2].map : m = <<Append(n[1], k), n[2].map[k]>>
  <1> DEFINE Kids(n) == {<<Append(n[1], k), n[2].map[k]>> : k \in DOMAIN n[2].map}
             branches == {n \in nodes : Stack!is_branch(n[2])}
  <1>1. Stack!Deeper(nodes) = UNION {Kids(n) : n \in branches}
    BY DEF Stack!Deeper
  <1>2. \A n : m \in Kids(n) <=> \E k \in DOMAIN n[2].map : m = <<Append(n[1], k), n[2].map[k]>>
    OBVIOUS
  <1> HIDE DEF Kids
  <1>3. m \in UNION {Kids(n) : n \in branches} <=> \E n \in branches : m \in Kids(n)
    OBVIOUS
  <1>4. QED
    BY <1>1, <1>2, <1>3, Zenon

(* The keys in a file are texts, and no branch is too deep. *)
WellFormed(S, stem, value) ==
  \A d \in 0 .. MaxDepth : \A n \in Stack!Nodes(<<stem>>, value)[d] :
    Stack!is_branch(n[2]) => DOMAIN n[2].map \subseteq S /\ d < MaxDepth

(* A node at a depth is what a path of that length leads to, *)
LEMMA NodesAreReached ==
  ASSUME NEW S, NEW stem \in S, NEW value, WellFormed(S, stem, value),
         NEW d \in 0 .. MaxDepth, NEW n \in Stack!Nodes(<<stem>>, value)[d]
  PROVE  \E path \in Seq(S) : Len(path) = d /\ n = <<Key(stem, path), Stack!Reached(value, path)>>
  <1> DEFINE N == Stack!Nodes(<<stem>>, value)
             Good(e) == \A m \in N[e] : \E path \in Seq(S) :
                          Len(path) = e /\ m = <<Key(stem, path), Stack!Reached(value, path)>>
             B == {e \in 0 .. MaxDepth : ~Good(e)}
  <1>0. MaxDepth \in Nat
    BY RequestStateAssumption DEF Stack!CatalogAssumption
  <1>1. N[0] = {<<<<stem>>, value>>} /\ \A e \in 1 .. MaxDepth : N[e] = Stack!Deeper(N[e - 1])
    BY NodesByLevel
  <1>w. \A e \in 0 .. MaxDepth : \A m \in N[e] : Stack!is_branch(m[2]) => DOMAIN m[2].map \subseteq S
    BY DEF WellFormed
  <1> HIDE DEF N
  <1>2. Good(0)
    <2>1. <<>> \in Seq(S) /\ Len(<<>>) = 0 /\ Key(stem, <<>>) = <<stem>>
      BY DEF Key
    <2>2. Stack!Reached(value, <<>>) = value
      BY ReachedEmpty
    <2>3. \A m \in N[0] : m = <<Key(stem, <<>>), Stack!Reached(value, <<>>)>>
      BY <1>1, <2>1, <2>2, Zenon
    <2>4. QED
      BY <2>1, <2>3, Zenon
  <1>3. ASSUME NEW e \in 1 .. MaxDepth, Good(e - 1)
        PROVE  Good(e)
    <2> SUFFICES ASSUME NEW m \in N[e]
                 PROVE  \E path \in Seq(S) :
                          Len(path) = e /\ m = <<Key(stem, path), Stack!Reached(value, path)>>
      OBVIOUS
    <2>1. m \in Stack!Deeper(N[e - 1])
      BY <1>1
    <2>2. PICK p \in N[e - 1] : /\ Stack!is_branch(p[2])
                                /\ \E k \in DOMAIN p[2].map : m = <<Append(p[1], k), p[2].map[k]>>
      BY <2>1, DeeperIs
    <2>3. PICK k \in DOMAIN p[2].map : m = <<Append(p[1], k), p[2].map[k]>>
      BY <2>2
    <2>4. PICK path \in Seq(S) :
            Len(path) = e - 1 /\ p = <<Key(stem, path), Stack!Reached(value, path)>>
      BY <1>3, <2>2, Zenon
    <2>5. p[1] = Key(stem, path) /\ p[2] = Stack!Reached(value, path)
      BY <2>4
    <2>6. k \in S
      <3>1. e - 1 \in 0 .. MaxDepth
        BY <1>0
      <3>2. QED
        BY <1>w, <2>2, <2>3, <3>1
    <2>7. Key(stem, Append(path, k)) = Append(p[1], k)
      BY <2>5, <2>6, KeyIs
    <2>8. Stack!Reached(value, Append(path, k)) = p[2].map[k]
      <3>1. Stack!Reached(value, Append(path, k)) = Stack!Below(Stack!Reached(value, path), k)
        BY <2>6, ReachedAppend
      <3>2. Stack!Below(p[2], k) = p[2].map[k]
        BY <2>2, <2>3 DEF Stack!Below
      <3>3. QED
        BY <3>1, <3>2, <2>5
    <2>9. Append(path, k) \in Seq(S) /\ Len(Append(path, k)) = e
      BY <2>4, <2>6
    <2>10. m = <<Key(stem, Append(path, k)), Stack!Reached(value, Append(path, k))>>
      BY <2>3, <2>7, <2>8, Zenon
    <2>11. QED
      BY <2>9, <2>10, Zenon
  <1>4. B = {}
    <2> SUFFICES ASSUME B # {} PROVE FALSE
      OBVIOUS
    <2>1. PICK b \in B : \A y \in B : b <= y
      <3>1. B \subseteq Nat
        BY <1>0
      <3>2. QED
        BY <3>1, LeastNat
    <2>2. b \in 0 .. MaxDepth /\ ~Good(b)
      OBVIOUS
    <2> HIDE DEF Good
    <2>3. b # 0
      BY <1>2, <2>2
    <2>4. b \in 1 .. MaxDepth /\ b - 1 \in 0 .. MaxDepth /\ ~(b <= b - 1)
      BY <1>0, <2>2, <2>3
    <2>5. Good(b - 1)
      BY <2>1, <2>4
    <2>6. QED
      BY <1>3, <2>2, <2>4, <2>5
  <1>5. Good(d)
    BY <1>4
  <1>6. QED
    BY <1>5 DEF N

(* and what a path leads to is a node at the path's length. *)
LEMMA ReachedAreNodes ==
  ASSUME NEW S, NEW stem \in S, NEW value, WellFormed(S, stem, value), NEW path \in Seq(S),
         Stack!is_entry(Stack!Reached(value, path))
  PROVE  /\ Len(path) \in 0 .. MaxDepth
         /\ <<Key(stem, path), Stack!Reached(value, path)>> \in Stack!Nodes(<<stem>>, value)[Len(path)]
  <1> DEFINE N == Stack!Nodes(<<stem>>, value)
             V(p) == Stack!Reached(value, p)
             Real(v) == Stack!is_entry(v) \/ Stack!is_branch(v)
             Node(p) == <<Key(stem, p), V(p)>>
             Good(e) == \A p \in Seq(S) : Len(p) = e /\ Real(V(p)) => e <= MaxDepth /\ Node(p) \in N[e]
             B == {e \in Nat : ~Good(e)}
  <1>0. MaxDepth \in Nat
    BY RequestStateAssumption DEF Stack!CatalogAssumption
  <1>1. N[0] = {<<<<stem>>, value>>} /\ \A e \in 1 .. MaxDepth : N[e] = Stack!Deeper(N[e - 1])
    BY NodesByLevel
  <1>w. \A e \in 0 .. MaxDepth : \A m \in N[e] : Stack!is_branch(m[2]) => e < MaxDepth
    BY DEF WellFormed
  <1>n. ~Real(Stack!Nothing)
    BY DEF Stack!Nothing, Stack!is_entry, Stack!is_branch
  <1>v. Node(path)[1] = Key(stem, path) /\ \A p \in Seq(S) : Node(p)[1] = Key(stem, p) /\ Node(p)[2] = V(p)
    OBVIOUS
  <1> HIDE DEF N
  <1>2. Good(0)
    <2>0. 0 <= MaxDepth
      BY <1>0
    <2>1. \A p \in Seq(S) : Len(p) = 0 => p = <<>>
      OBVIOUS
    <2>2. Key(stem, <<>>) = <<stem>>
      BY DEF Key
    <2>3. V(<<>>) = value
      BY ReachedEmpty
    <2>4. Node(<<>>) = <<<<stem>>, value>>
      BY <2>2, <2>3, Zenon
    <2>5. Node(<<>>) \in N[0]
      BY <1>1, <2>4, Zenon
    <2> HIDE DEF Node
    <2>6. QED
      BY <2>0, <2>1, <2>5
  <1>3. ASSUME NEW e \in Nat, e # 0, Good(e - 1)
        PROVE  Good(e)
    <2> SUFFICES ASSUME NEW p \in Seq(S), Len(p) = e, Real(V(p))
                 PROVE  e <= MaxDepth /\ Node(p) \in N[e]
      OBVIOUS
    <2>1. p # <<>>
      BY <1>3
    <2>2. PICK front \in Seq(S), x \in S : p = Append(front, x)
      BY <2>1, SequenceEmptyOrAppend
    <2>3. Len(front) = e - 1
      BY <2>2
    <2>4. V(p) = Stack!Below(V(front), x)
      BY <2>2, ReachedAppend
    <2>5. Stack!is_branch(V(front)) /\ x \in DOMAIN V(front).map /\ V(p) = V(front).map[x]
      <3> HIDE DEF Real
      <3>1. Stack!Below(V(front), x) # Stack!Nothing
        BY <1>n, <2>4
      <3>2. QED
        BY <3>1, <2>4, Zenon DEF Stack!Below
    <2>6. e - 1 <= MaxDepth /\ Node(front) \in N[e - 1]
      BY <1>3, <2>3, <2>5
    <2>7. e - 1 \in 0 .. MaxDepth
      BY <1>0, <1>3, <2>6
    <2>8. Node(front)[1] = Key(stem, front) /\ Node(front)[2] = V(front)
      BY <1>v
    <2>9. e - 1 < MaxDepth
      BY <1>w, <2>5, <2>6, <2>7, <2>8
    <2>10. e \in 1 .. MaxDepth /\ N[e] = Stack!Deeper(N[e - 1])
      BY <1>0, <1>1, <1>3, <2>9
    <2>11. Key(stem, p) = Append(Key(stem, front), x)
      BY <2>2, KeyIs
    <2>12. Node(p) = <<Append(Key(stem, front), x), V(front).map[x]>>
      BY <2>5, <2>11, Zenon
    <2> HIDE DEF Node
    <2>13. PICK n : n = Node(front)
      OBVIOUS
    <2>14. /\ n \in N[e - 1] /\ Stack!is_branch(n[2]) /\ x \in DOMAIN n[2].map
           /\ Node(p) = <<Append(n[1], x), n[2].map[x]>>
      BY <2>5, <2>6, <2>8, <2>12, <2>13
    <2>15. Node(p) \in Stack!Deeper(N[e - 1])
      BY <2>14, DeeperIs
    <2>16. QED
      BY <2>10, <2>15
  <1>4. B = {}
    <2> SUFFICES ASSUME B # {} PROVE FALSE
      OBVIOUS
    <2>1. PICK b \in B : \A y \in B : b <= y
      BY LeastNat
    <2>2. b \in Nat /\ ~Good(b)
      OBVIOUS
    <2> HIDE DEF Good
    <2>3. b # 0
      BY <1>2, <2>2
    <2>4. b - 1 \in Nat /\ ~(b <= b - 1)
      BY <2>2, <2>3
    <2>5. Good(b - 1)
      BY <2>1, <2>4
    <2>6. QED
      BY <1>3, <2>2, <2>3, <2>5
  <1>5. Len(path) \in Nat /\ Good(Len(path))
    BY <1>4
  <1>6. Len(path) <= MaxDepth /\ Node(path) \in N[Len(path)]
    BY <1>5
  <1>7. QED
    BY <1>0, <1>5, <1>6 DEF N

(* A key is its head under its tail. *)
LEMMA KeySplits ==
  ASSUME NEW S, NEW key \in Seq(S), key # <<>>
  PROVE  Head(key) \in S /\ Tail(key) \in Seq(S) /\ Key(Head(key), Tail(key)) = key
  <1>1. Head(key) \in S /\ Tail(key) \in Seq(S)
    OBVIOUS
  <1>2. /\ Len(key) \in Nat /\ Len(key) > 0 /\ Len(Tail(key)) = Len(key) - 1 /\ Head(key) = key[1]
        /\ \A i \in 1 .. Len(key) - 1 : Tail(key)[i] = key[i + 1]
    OBVIOUS
  <1> DEFINE h == Head(key)
             t == Tail(key)
  <1>3. h \in S /\ t \in Seq(S) /\ Len(t) = Len(key) - 1 /\ h = key[1] /\ \A i \in 1 .. Len(key) - 1 : t[i] = key[i + 1]
    BY <1>1, <1>2
  <1> HIDE DEF h, t
  <1>4. /\ Key(h, t) \in Seq(S) /\ Len(Key(h, t)) = Len(key)
        /\ Key(h, t)[1] = h /\ \A i \in 2 .. Len(key) : Key(h, t)[i] = t[i - 1]
    <2>1. <<h>> \in Seq(S) /\ Len(<<h>>) = 1 /\ <<h>>[1] = h
      BY <1>3
    <2>2. /\ Key(h, t) \in Seq(S) /\ Len(Key(h, t)) = Len(<<h>>) + Len(t)
          /\ \A i \in 1 .. Len(<<h>>) + Len(t) :
               Key(h, t)[i] = IF i <= Len(<<h>>) THEN <<h>>[i] ELSE t[i - Len(<<h>>)]
      BY <1>3, <2>1, ConcatProperties DEF Key
    <2>3. QED
      BY <1>2, <1>3, <2>1, <2>2
  <1>5. ASSUME NEW i \in 1 .. Len(key)
        PROVE  Key(h, t)[i] = key[i]
    <2>1. CASE i = 1
      BY <1>3, <1>4, <2>1
    <2>2. CASE i # 1
      <3>1. i \in 2 .. Len(key) /\ i - 1 \in 1 .. Len(key) - 1 /\ (i - 1) + 1 = i
        BY <1>2, <2>2
      <3>2. QED
        BY <1>3, <1>4, <3>1
    <2>3. QED
      BY <2>1, <2>2
  <1>6. Key(h, t) = key
    BY <1>4, <1>5, SeqEqual
  <1>7. QED
    BY <1>1, <1>6 DEF h, t

(* flatten_yaml has an entry for a key exactly when the key's path leads   *)
(* to one, and it is that one's.                                           *)
LEMMA FlattenIs ==
  ASSUME NEW S, NEW stem \in S, NEW value, WellFormed(S, stem, value),
         NEW key \in Seq(S), key # <<>>, NEW e
  PROVE  e \in Stack!flatten_yaml(<<stem>>, value) /\ e[1] = key <=>
           /\ Head(key) = stem
           /\ Stack!is_entry(Stack!Reached(value, Tail(key)))
           /\ e = <<key, Stack!EntryFor(Stack!Reached(value, Tail(key)))>>
  <1> DEFINE N == Stack!Nodes(<<stem>>, value)
  <1>0. Head(key) \in S /\ Tail(key) \in Seq(S) /\ Key(Head(key), Tail(key)) = key
    BY KeySplits
  <1>1. e \in Stack!flatten_yaml(<<stem>>, value) <=>
          \E d \in 0 .. MaxDepth : \E n \in N[d] :
            Stack!is_entry(n[2]) /\ e = <<n[1], Stack!EntryFor(n[2])>>
    <2> HIDE DEF N
    <2> DEFINE Es(d) == {<<n[1], Stack!EntryFor(n[2])>> : n \in {n \in N[d] : Stack!is_entry(n[2])}}
    <2>1. \A d : e \in Es(d) <=> \E n \in N[d] : Stack!is_entry(n[2]) /\ e = <<n[1], Stack!EntryFor(n[2])>>
      OBVIOUS
    <2>2. Stack!flatten_yaml(<<stem>>, value) = UNION {Es(d) : d \in 0 .. MaxDepth}
      BY DEF Stack!flatten_yaml, N
    <2> HIDE DEF Es
    <2>3. e \in UNION {Es(d) : d \in 0 .. MaxDepth} <=> \E d \in 0 .. MaxDepth : e \in Es(d)
      OBVIOUS
    <2>4. QED
      BY <2>1, <2>2, <2>3, Zenon
  <1>2. ASSUME e \in Stack!flatten_yaml(<<stem>>, value), e[1] = key
        PROVE  /\ Head(key) = stem
               /\ Stack!is_entry(Stack!Reached(value, Tail(key)))
               /\ e = <<key, Stack!EntryFor(Stack!Reached(value, Tail(key)))>>
    <2>0. PICK d \in 0 .. MaxDepth : \E n \in N[d] :
            Stack!is_entry(n[2]) /\ e = <<n[1], Stack!EntryFor(n[2])>>
      BY <1>1, <1>2, Zenon
    <2>1. PICK n \in N[d] : Stack!is_entry(n[2]) /\ e = <<n[1], Stack!EntryFor(n[2])>>
      BY <2>0
    <2>2. PICK path \in Seq(S) : n = <<Key(stem, path), Stack!Reached(value, path)>>
      BY NodesAreReached
    <2>3. n[1] = Key(stem, path) /\ n[2] = Stack!Reached(value, path)
      BY <2>2
    <2>4. key = Key(stem, path)
      BY <1>2, <2>1, <2>3
    <2>5. Head(key) = stem /\ Tail(key) = path
      BY <2>4, KeyIs
    <2>6. QED
      BY <2>1, <2>3, <2>4, <2>5, Zenon
  <1>3. ASSUME Head(key) = stem, Stack!is_entry(Stack!Reached(value, Tail(key))),
               e = <<key, Stack!EntryFor(Stack!Reached(value, Tail(key)))>>
        PROVE  e \in Stack!flatten_yaml(<<stem>>, value) /\ e[1] = key
    <2>1. PICK path \in Seq(S) : path = Tail(key)
      BY <1>0
    <2>2. /\ Len(path) \in 0 .. MaxDepth
          /\ <<Key(stem, path), Stack!Reached(value, path)>> \in N[Len(path)]
      BY <1>3, <2>1, ReachedAreNodes
    <2>3. Key(stem, path) = key
      BY <1>0, <1>3, <2>1
    <2>4. PICK n : n = <<key, Stack!Reached(value, path)>>
      OBVIOUS
    <2>5. n[1] = key /\ n[2] = Stack!Reached(value, path)
      BY <2>4
    <2>6. n \in N[Len(path)]
      BY <2>2, <2>3, <2>4, Zenon
    <2>7. Stack!is_entry(n[2]) /\ e = <<n[1], Stack!EntryFor(n[2])>>
      BY <1>3, <2>1, <2>5, Zenon
    <2>8. e \in Stack!flatten_yaml(<<stem>>, value)
      BY <1>1, <2>2, <2>6, <2>7, Zenon
    <2>9. e[1] = key
      BY <1>3
    <2>10. QED
      BY <2>8, <2>9
  <1>4. QED
    BY <1>2, <1>3

Dirs == {d \in Directory : d.is_dir}

Entries(locale) == Stack!load_locale_dir((CHOOSE d \in Dirs : d.name = locale).files)

(* So has a locale's directory. *)
LEMMA EntriesAre ==
  ASSUME NEW locale, \E d \in Dirs : d.name = locale,
         NEW key \in Seq(STRING), key # <<>>, NEW e
  PROVE  e \in Entries(locale) /\ e[1] = key <=>
           \E v \in Stack!Written(locale, key) : e = <<key, Stack!EntryFor(v)>>
  <1> DEFINE dir0 == CHOOSE d \in Dirs : d.name = locale
             files == {f \in dir0.files : f.ext \in {"yaml", "yml"}}
  <1>1. dir0 \in Dirs /\ dir0.name = locale
    OBVIOUS
  <1> HIDE DEF dir0
  <1>2. \A d \in Dirs : d.name = locale => d = dir0
    BY <1>1, RequestStateAssumption DEF Dirs, Stack!CatalogAssumption
  <1>3. Stack!Files(locale) = dir0.files
    <2>1. {d \in Directory : d.is_dir /\ d.name = locale} = {dir0}
      BY <1>1, <1>2 DEF Dirs
    <2>2. QED
      BY <2>1 DEF Stack!Files
  <1>4. \A f \in files : f.stem \in STRING /\ WellFormed(STRING, f.stem, f.value)
    BY <1>1, RequestStateAssumption DEF Dirs, Stack!CatalogAssumption, WellFormed
  <1>5. e \in Entries(locale) <=> \E f \in files : e \in Stack!flatten_yaml(<<f.stem>>, f.value)
    <2> DEFINE Flat(f) == Stack!flatten_yaml(<<f.stem>>, f.value)
    <2>1. Entries(locale) = UNION {Flat(f) : f \in files}
      BY DEF Entries, Stack!load_locale_dir, dir0
    <2> HIDE DEF Flat
    <2>2. e \in UNION {Flat(f) : f \in files} <=> \E f \in files : e \in Flat(f)
      OBVIOUS
    <2>3. QED
      BY <2>1, <2>2, Zenon DEF Flat
  <1>6. \A f \in files : e \in Stack!flatten_yaml(<<f.stem>>, f.value) /\ e[1] = key <=>
           /\ Head(key) = f.stem
           /\ Stack!is_entry(Stack!Reached(f.value, Tail(key)))
           /\ e = <<key, Stack!EntryFor(Stack!Reached(f.value, Tail(key)))>>
    <2> TAKE f \in files
    <2>1. PICK stem, value, S : stem = f.stem /\ value = f.value /\ S = STRING
      OBVIOUS
    <2>2. stem \in S /\ WellFormed(S, stem, value) /\ key \in Seq(S)
      BY <1>4, <2>1
    <2>3. e \in Stack!flatten_yaml(<<stem>>, value) /\ e[1] = key <=>
           /\ Head(key) = stem
           /\ Stack!is_entry(Stack!Reached(value, Tail(key)))
           /\ e = <<key, Stack!EntryFor(Stack!Reached(value, Tail(key)))>>
      BY <2>2, FlattenIs
    <2>4. QED
      BY <2>1, <2>3, Zenon
  <1>7. \A v : v \in Stack!Written(locale, key) <=>
          \E f \in files : f.stem = Head(key) /\ v = Stack!Reached(f.value, Tail(key)) /\ Stack!is_entry(v)
    <2> DEFINE mine == {f \in Stack!Files(locale) : f.stem = Head(key) /\ f.ext \in {"yaml", "yml"}}
               V(f) == Stack!Reached(f.value, Tail(key))
    <2>1. Stack!Written(locale, key) = {v \in {V(f) : f \in mine} : Stack!is_entry(v)}
      BY DEF Stack!Written
    <2>2. \A f : f \in mine <=> f \in files /\ f.stem = Head(key)
      BY <1>3
    <2> HIDE DEF V, mine, files
    <2>3. \A v : v \in {u \in {V(f) : f \in mine} : Stack!is_entry(u)} <=> \E f \in mine : v = V(f) /\ Stack!is_entry(v)
      OBVIOUS
    <2>4. \A v : v \in Stack!Written(locale, key) <=> \E f \in mine : v = V(f) /\ Stack!is_entry(v)
      BY <2>1, <2>3
    <2>5. \A v : v \in Stack!Written(locale, key) <=>
            \E f \in files : f.stem = Head(key) /\ v = V(f) /\ Stack!is_entry(v)
      BY <2>2, <2>4, Zenon
    <2>6. QED
      BY <2>5 DEF V
  <1> HIDE DEF files
  <1>8. QED
    BY <1>5, <1>6, <1>7, Zenon

(* The store has an entry for a key when a file says something of it, and  *)
(* that is what the entry says.                                            *)
LEMMA LookupIs ==
  ASSUME NEW locale, NEW key \in Seq(STRING), key # <<>>
  PROVE  /\ Stack!Written(locale, key) = {} => Stack!lookup(locale, key) = Stack!NoEntry
         /\ Stack!Written(locale, key) # {} =>
              \E v \in Stack!Written(locale, key) : Stack!lookup(locale, key) = Stack!EntryFor(v)
  <1> DEFINE names == {d.name : d \in Dirs}
             Table(l) == [k \in {e[1] : e \in Entries(l)} |-> (CHOOSE e \in Entries(l) : e[1] = k)[2]]
  <1>1. Stack!translations = [l \in names |-> Table(l)]
    BY DEF Stack!translations, Dirs, Entries
  <1>2. Stack!available_locales = names
    BY <1>1 DEF Stack!available_locales
  <1>3. CASE locale \notin names
    <2>1. Stack!lookup(locale, key) = Stack!NoEntry
      BY <1>2, <1>3 DEF Stack!lookup
    <2>2. {d \in Directory : d.is_dir /\ d.name = locale} = {}
      BY <1>3 DEF Dirs
    <2>3. Stack!Files(locale) = {}
      BY <2>2 DEF Stack!Files
    <2>4. Stack!Written(locale, key) = {}
      BY <2>3 DEF Stack!Written
    <2>5. QED
      BY <2>1, <2>4
  <1>4. CASE locale \in names
    <2>0. \E d \in Dirs : d.name = locale
      BY <1>4
    <2>1. \A e : e \in Entries(locale) /\ e[1] = key <=>
                   \E v \in Stack!Written(locale, key) : e = <<key, Stack!EntryFor(v)>>
      BY <2>0, EntriesAre
    <2>2. key \in DOMAIN Table(locale) <=> \E e \in Entries(locale) : e[1] = key
      OBVIOUS
    <2>3. Stack!lookup(locale, key) = IF key \in DOMAIN Table(locale) THEN Table(locale)[key] ELSE Stack!NoEntry
      <3> HIDE DEF Table
      <3>1. QED
        BY <1>1, <1>2, <1>4 DEF Stack!lookup
    <2>4. CASE Stack!Written(locale, key) = {}
      BY <2>1, <2>2, <2>3, <2>4
    <2>5. CASE Stack!Written(locale, key) # {}
      <3>1. \E e \in Entries(locale) : e[1] = key
        BY <2>1, <2>5
      <3> DEFINE c == CHOOSE e \in Entries(locale) : e[1] = key
      <3>2. c \in Entries(locale) /\ c[1] = key
        BY <3>1
      <3>3. Table(locale)[key] = c[2]
        BY <2>2, <3>1
      <3> HIDE DEF c, Table
      <3>4. PICK v \in Stack!Written(locale, key) : c = <<key, Stack!EntryFor(v)>>
        BY <2>1, <3>2
      <3>5. c[2] = Stack!EntryFor(v)
        BY <3>4
      <3>6. QED
        BY <2>2, <2>3, <3>1, <3>3, <3>5, <2>5
    <2>6. QED
      BY <2>4, <2>5
  <1>5. QED
    BY <1>3, <1>4

LEMMA EntryForIsOne ==
  ASSUME NEW v
  PROVE  Stack!EntryFor(v) # Stack!NoEntry
  <1>1. Stack!NoEntry.forms = <<>>
    BY DEF Stack!NoEntry
  <1>2. "other" \in DOMAIN Stack!EntryFor(v).forms
    BY DEF Stack!EntryFor, Stack!PlainEntry, Stack!PluralEntry
  <1>3. "other" \notin DOMAIN <<>>
    OBVIOUS
  <1>4. QED
    BY <1>1, <1>2, <1>3

(* What may stand for a key. *)
Values(locale, key) ==
  IF Stack!Written(locale, key) # {} THEN Stack!Written(locale, key)
  ELSE Stack!Written(DefaultLocale, key)

(* The entry that is used: of the locale, else of the default locale. *)
LEMMA EntryOfIs ==
  ASSUME NEW locale, NEW key \in Seq(STRING), key # <<>>
  PROVE  /\ Values(locale, key) = {} => Stack!EntryOf(locale, key) = Stack!NoEntry
         /\ Values(locale, key) # {} =>
              \E v \in Values(locale, key) : Stack!EntryOf(locale, key) = Stack!EntryFor(v)
  <1>1. CASE Stack!Written(locale, key) # {}
    <2>1. PICK v \in Stack!Written(locale, key) : Stack!lookup(locale, key) = Stack!EntryFor(v)
      BY <1>1, LookupIs
    <2>2. Stack!EntryOf(locale, key) = Stack!EntryFor(v)
      BY <2>1, EntryForIsOne DEF Stack!EntryOf
    <2>3. QED
      BY <1>1, <2>1, <2>2 DEF Values
  <1>2. CASE Stack!Written(locale, key) = {}
    <2>1. Stack!lookup(locale, key) = Stack!NoEntry
      BY <1>2, LookupIs
    <2>2. Stack!EntryOf(locale, key) = Stack!lookup(DefaultLocale, key)
      BY <2>1 DEF Stack!EntryOf
    <2>3. QED
      BY <1>2, <2>2, LookupIs DEF Values
  <1>3. QED
    BY <1>1, <1>2

(* The text of a value in a form. *)
TextOf(v, form) ==
  IF v.kind = "string" THEN v.text
  ELSE Stack!get_str(v.map, IF form \in DOMAIN v.map /\ v.map[form].kind = "string"
                            THEN form ELSE "other")

LEMMA SaysIs ==
  ASSUME NEW locale, NEW key, NEW form, NEW kwargs
  PROVE  Stack!Says(locale, key, form, kwargs)
           = IF Values(locale, key) = {} THEN {key}
             ELSE {Stack!interpolate(TextOf(v, form), kwargs) : v \in Values(locale, key)}
  BY DEF Stack!Says, Values, TextOf

(* The form that translate_plural takes of an entry. *)
LEMMA FormOf ==
  ASSUME NEW v, NEW category
  PROVE  LET entry == Stack!EntryFor(v)
             form == IF entry.plural /\ category \in DOMAIN entry.forms THEN category ELSE "other" IN
         entry.forms[form] = TextOf(v, category)
  <1>1. CASE v.kind = "string"
    <2>1. Stack!EntryFor(v) = [forms |-> [other |-> v.text], plural |-> FALSE]
      BY <1>1 DEF Stack!EntryFor, Stack!PlainEntry
    <2>2. QED
      BY <1>1, <2>1 DEF TextOf
  <1>2. CASE v.kind # "string"
    <2> DEFINE ks == {"other"} \cup {k \in DOMAIN v.map : v.map[k].kind = "string"}
               forms == [k \in ks |-> Stack!get_str(v.map, k)]
    <2>1. Stack!EntryFor(v) = [forms |-> forms, plural |-> TRUE]
      BY <1>2 DEF Stack!EntryFor, Stack!PluralEntry
    <2>2. Stack!EntryFor(v).forms = forms /\ Stack!EntryFor(v).plural
      BY <2>1
    <2>3. forms[IF category \in DOMAIN forms THEN category ELSE "other"] = TextOf(v, category)
      BY <1>2 DEF TextOf
    <2> HIDE DEF forms
    <2>4. QED
      BY <2>2, <2>3
  <1>3. QED
    BY <1>1, <1>2

(* translate gives what the files say, for every locale and key, *)
LEMMA TranslateSays ==
  ASSUME NEW locale, NEW key \in Seq(STRING), key # <<>>, NEW kwargs
  PROVE  Stack!translate(locale, key, kwargs) \in Stack!Says(locale, key, "other", kwargs)
  <1> DEFINE entry == Stack!EntryOf(locale, key)
  <1>1. CASE Values(locale, key) = {}
    <2>1. Stack!translate(locale, key, kwargs) = key
      BY <1>1, EntryOfIs DEF Stack!translate
    <2>2. QED
      BY <1>1, <2>1, SaysIs
  <1>2. CASE Values(locale, key) # {}
    <2>1. PICK v \in Values(locale, key) : entry = Stack!EntryFor(v)
      BY <1>2, EntryOfIs
    <2>2. entry # Stack!NoEntry
      BY <2>1, EntryForIsOne
    <2>3. entry.forms["other"] = TextOf(v, "other")
      BY <2>1, FormOf
    <2>4. Stack!translate(locale, key, kwargs) = Stack!interpolate(entry.forms["other"], kwargs)
      BY <2>2 DEF Stack!translate, Stack!entry_to_string
    <2>5. Stack!translate(locale, key, kwargs) = Stack!interpolate(TextOf(v, "other"), kwargs)
      BY <2>3, <2>4
    <2>6. QED
      BY <1>2, <2>1, <2>5, SaysIs
  <1>3. QED
    BY <1>1, <1>2

(* and translate_plural what they say in the form of the count. *)
LEMMA TranslatePluralSays ==
  ASSUME NEW locale, NEW key \in Seq(STRING), key # <<>>, NEW count, NEW kwargs
  PROVE  Stack!translate_plural(locale, key, count, kwargs)
           \in Stack!Says(locale, key, Stack!plural_category(locale, count),
                          Append(kwargs, <<"count", Stack!ToString(count)>>))
  <1> DEFINE entry == Stack!EntryOf(locale, key)
             category == Stack!plural_category(locale, count)
             args == Append(kwargs, <<"count", Stack!ToString(count)>>)
             form == IF entry.plural /\ category \in DOMAIN entry.forms THEN category ELSE "other"
  <1>0. Stack!translate_plural(locale, key, count, kwargs)
          = IF entry = Stack!NoEntry THEN key ELSE Stack!interpolate(entry.forms[form], args)
    BY DEF Stack!translate_plural
  <1> HIDE DEF args, category
  <1>1. CASE Values(locale, key) = {}
    <2>1. Stack!translate_plural(locale, key, count, kwargs) = key
      BY <1>0, <1>1, EntryOfIs
    <2>2. QED
      BY <1>1, <2>1, SaysIs DEF category, args
  <1>2. CASE Values(locale, key) # {}
    <2>1. PICK v \in Values(locale, key) : entry = Stack!EntryFor(v)
      BY <1>2, EntryOfIs
    <2>2. entry # Stack!NoEntry
      BY <2>1, EntryForIsOne
    <2>3. entry.forms[form] = TextOf(v, category)
      BY <2>1, FormOf
    <2>4. Stack!translate_plural(locale, key, count, kwargs) = Stack!interpolate(TextOf(v, category), args)
      BY <1>0, <2>2, <2>3
    <2>5. Stack!interpolate(TextOf(v, category), args) \in Stack!Says(locale, key, category, args)
      BY <1>2, <2>1, SaysIs
    <2>6. QED
      BY <2>4, <2>5 DEF category, args
  <1>3. QED
    BY <1>1, <1>2

(* The first argument of a name is taken: one that is given again changes  *)
(* nothing.                                                                *)
LEMMA GivenTwice ==
  ASSUME NEW text, NEW c
  PROVE  Stack!interpolate(text, <<c, c>>) = Stack!interpolate(text, <<c>>)
  <1> DEFINE key(i) == SubSeq(text, i + 1, Stack!ClosedAt(text, i) - 1)
             one == <<c>>
             two == <<c, c>>
             arg1(i) == Stack!SelectInSeq(one, LAMBDA kv : <<kv[1]>> = key(i))
             arg2(i) == Stack!SelectInSeq(two, LAMBDA kv : <<kv[1]>> = key(i))
             put1 == [i \in 1 .. Len(text) |->
                        CASE key(i) = <<>> -> <<"{">>
                          [] key(i) # <<>> /\ arg1(i) # 0 -> <<one[arg1(i)][2]>>
                          [] OTHER -> <<"{">> \o key(i) \o <<"}">>]
             put2 == [i \in 1 .. Len(text) |->
                        CASE key(i) = <<>> -> <<"{">>
                          [] key(i) # <<>> /\ arg2(i) # 0 -> <<two[arg2(i)][2]>>
                          [] OTHER -> <<"{">> \o key(i) \o <<"}">>]
  <1>1. /\ Stack!interpolate(text, one) = Stack!Replaced(text, put1)
        /\ Stack!interpolate(text, two) = Stack!Replaced(text, put2)
    BY DEF Stack!interpolate
  <1>2. \A i : arg1(i) \in {0, 1} /\ arg2(i) = arg1(i)
    <2> TAKE i
    <2> DEFINE P == <<c[1]>> = key(i)
               I1 == {j \in 1 .. Len(one) : <<one[j][1]>> = key(i)}
               I2 == {j \in 1 .. Len(two) : <<two[j][1]>> = key(i)}
    <2>1. /\ arg1(i) = IF I1 # {} THEN Stack!Min(I1) ELSE 0
          /\ arg2(i) = IF I2 # {} THEN Stack!Min(I2) ELSE 0
      BY DEF Stack!SelectInSeq
    <2>2. /\ Len(one) = 1 /\ one[1] = c
          /\ Len(two) = 2 /\ two[1] = c /\ two[2] = c
      OBVIOUS
    <2> HIDE DEF one, two, arg1, arg2, key
    <2>3. CASE P
      <3>1. I1 = {1} /\ I2 = {1, 2}
        BY <2>2, <2>3
      <3>2. Stack!Min({1}) = 1 /\ Stack!Min({1, 2}) = 1
        <4>1. \A S : S \in {{1}, {1, 2}} => \E x \in S : \A y \in S : x <= y
          OBVIOUS
        <4>2. QED
          BY <4>1 DEF Stack!Min
      <3> HIDE DEF I1, I2
      <3>3. QED
        BY <2>1, <3>1, <3>2
    <2>4. CASE ~P
      <3>1. I1 = {} /\ I2 = {}
        BY <2>2, <2>4
      <3> HIDE DEF I1, I2
      <3>2. QED
        BY <2>1, <3>1
    <2>5. QED
      BY <2>3, <2>4
  <1>3. one[1] = two[1]
    OBVIOUS
  <1> HIDE DEF one, two, arg1, arg2, key
  <1>4. put1 = put2
    BY <1>2, <1>3
  <1>5. QED
    BY <1>1, <1>4 DEF one, two

(* Arguments, one after the other. *)
LEMMA AppendToOne ==
  ASSUME NEW S, NEW x \in S, NEW one \in Seq(S), Len(one) = 1, one[1] = x
  PROVE  /\ Append(one, x) \in Seq(S) /\ Len(Append(one, x)) = 2 
         /\ Append(one, x)[1] = x /\ Append(one, x)[2] = x
  <1>1. Append(one, x) \in Seq(S) /\ Len(Append(one, x)) = Len(one) + 1
    BY AppendProperties, Zenon
  <1>2. Append(one, x)[Len(one) + 1] = x
    BY AppendProperties, Zenon
  <1>3. ASSUME NEW i \in 1 .. Len(one)
        PROVE  Append(one, x)[i] = one[i]
    OBVIOUS
  <1>4. 1 \in 1 .. Len(one) /\ Len(one) + 1 = 2
    OBVIOUS
  <1>5. QED
    BY <1>1, <1>2, <1>3, <1>4, Zenon

LEMMA PairIs ==
  ASSUME NEW S, NEW x \in S, NEW two \in Seq(S), Len(two) = 2, two[1] = x, two[2] = x
  PROVE  two = <<x, x>>
  <1>1. two = [i \in 1 .. 2 |-> two[i]]
    BY LenProperties
  <1>2. \A i \in 1 .. 2 : two[i] = x
    OBVIOUS
  <1>3. two = [i \in 1 .. 2 |-> x]
    BY <1>1, <1>2
  <1>4. <<x, x>> = [i \in 1 .. 2 |-> x]
    OBVIOUS
  <1>5. QED
    BY <1>3, <1>4

LEMMA TwoAppends ==
  ASSUME NEW x
  PROVE  Append(Append(<<>>, x), x) = <<x, x>>
  <1> DEFINE S == {x}
  <1>1. PICK empty : empty = <<>>
    OBVIOUS
  <1>2. x \in S /\ empty \in Seq(S) /\ Len(empty) = 0
    BY <1>1
  <1>3. PICK one : one = Append(empty, x)
    OBVIOUS
  <1> HIDE DEF S
  <1>4. one \in Seq(S) /\ Len(one) = 1 /\ one[1] = x
    <2>1. one \in Seq(S) /\ Len(one) = Len(empty) + 1 /\ one[Len(empty) + 1] = x
      BY <1>2, <1>3, AppendProperties, Zenon
    <2>2. QED
      BY <2>1, <1>2
  <1>5. PICK two : two = Append(one, x)
    OBVIOUS
  <1>6. two \in Seq(S) /\ Len(two) = 2 /\ two[1] = x /\ two[2] = x
    BY <1>2, <1>4, <1>5, AppendToOne
  <1>7. two = <<x, x>>
    BY <1>2, <1>6, PairIs, Zenon
  <1>8. QED
    BY <1>1, <1>3, <1>5, <1>7, Zenon

(* The function t() of the templates gives what the files say. *)
LEMMA PageSays ==
  ASSUME NEW locale, NEW key \in Seq(STRING), key # <<>>, NEW count
  PROVE  LET l == IF locale = "" THEN DefaultLocale ELSE locale IN
         /\ count = {} =>
              Stack!make_t_function(locale, key, count, <<>>) \in Stack!Says(l, key, "other", <<>>)
         /\ \A n : count = {n} =>
              Stack!make_t_function(locale, key, count, <<>>)
                \in Stack!Says(l, key, Stack!plural_category(l, n), <<<<"count", Stack!ToString(n)>>>>)
  <1> DEFINE l == IF locale = "" THEN DefaultLocale ELSE locale
             T == Stack!make_t_function(locale, key, count, <<>>)
  <1>1. ASSUME count = {}
        PROVE  T \in Stack!Says(l, key, "other", <<>>)
    <2>1. T = Stack!translate(l, key, <<>>)
      BY <1>1 DEF Stack!make_t_function
    <2> HIDE DEF l, T
    <2>2. QED
      BY <2>1, TranslateSays
  <1>2. ASSUME NEW n, count = {n}
        PROVE  T \in Stack!Says(l, key, Stack!plural_category(l, n), <<<<"count", Stack!ToString(n)>>>>)
    <2> DEFINE c == <<"count", Stack!ToString(n)>>
               category == Stack!plural_category(l, n)
    <2>1. count # {} /\ (CHOOSE m \in count : TRUE) = n
      BY <1>2
    <2>2. T = Stack!translate_plural(l, key, n, Append(<<>>, c))
      BY <2>1 DEF Stack!make_t_function
    <2> HIDE DEF l, T, c
    <2>3. Stack!translate_plural(l, key, n, Append(<<>>, c)) \in
            Stack!Says(l, key, category, Append(Append(<<>>, c), <<"count", Stack!ToString(n)>>))
      BY TranslatePluralSays
    <2>4. Append(Append(<<>>, c), <<"count", Stack!ToString(n)>>) = <<c, c>>
      <3>1. Append(Append(<<>>, c), c) = <<c, c>>
        BY TwoAppends, Zenon
      <3>2. <<"count", Stack!ToString(n)>> = c
        BY DEF c
      <3>3. QED
        BY <3>1, <3>2
    <2> HIDE DEF category
    <2>5. T \in Stack!Says(l, key, category, <<c, c>>)
      BY <2>2, <2>3, <2>4
    <2>6. \A text : Stack!interpolate(text, <<c, c>>) = Stack!interpolate(text, <<c>>)
      BY GivenTwice
    <2>7. Stack!Says(l, key, category, <<c, c>>) = Stack!Says(l, key, category, <<c>>)
      BY <2>6, SaysIs
    <2>8. QED
      BY <2>5, <2>7 DEF category, c
  <1>3. QED
    BY <1>1, <1>2

-----------------------------------------------------------------------------
(* Errors and pages. *)

(* There is a translator exactly inside an I18nLayer, *)
TranslatorInv == dir = "in" => (ext["Translator"] # None <=> "i18n" \in Stack!Outside(at))

(* and so has an error handler that the request passed. *)
SavedInv ==
  \A i \in DOMAIN stack :
    stack[i] = "error_handler" /\ (IF dir = "in" THEN i < at ELSE i <= at) =>
      (saved[i]["Translator"] # None <=> "i18n" \in Stack!Outside(i))

(* The context of the innermost template layer, n layers deep. *)
ContextAt(n) ==
  \E i \in 1 .. n - 1 :
    /\ stack[i] = "template" /\ "template" \notin Between(i, n)
    /\ IF "i18n" \in Stack!Outside(i)
       THEN "i18n" \notin Between(i, n) => ext["TemplateContext"].locale = ext["Translator"]
       ELSE ext["TemplateContext"].locale = ""

ContextInv == dir = "in" /\ ext["TemplateContext"] # None => ContextAt(at)

(* One layer further in. *)
LEMMA OutsideMore ==
  ASSUME LayersTypeOK, at \in DOMAIN stack
  PROVE  /\ Stack!Outside(at + 1) = Stack!Outside(at) \cup {stack[at]}
         /\ \A i \in 1 .. at - 1 : Between(i, at + 1) = Between(i, at) \cup {stack[at]}
         /\ Between(at, at + 1) = {}
  BY DEF LayersTypeOK, Stack!Outside, Between

LEMMA SameStack ==
  ASSUME stack' = stack
  PROVE  /\ \A i : Stack!Outside(i)' = Stack!Outside(i)
         /\ \A i, n : Between(i, n)' = Between(i, n)
         /\ \A l : Stack!Place(l)' = Stack!Place(l)
  BY DEF Stack!Outside, Between, Stack!Place

(* The translator, its copies and the context, on the way in. *)
LEMMA TranslatorStep ==
  ASSUME LayersTypeOK, TranslatorInv, SavedInv, ContextInv, OnwardStep
  PROVE  TranslatorInv' /\ SavedInv' /\ ContextInv'
  <1>1. /\ stack' = stack /\ at' = at + 1 /\ at \in Nat /\ at > 0 /\ dir = "in" /\ dir' = "in"
        /\ at \in DOMAIN stack /\ DOMAIN stack \subseteq Nat
    BY DEF LayersTypeOK, OnwardStep, Onward
  <1>2. /\ IF stack[at] = "i18n" THEN ext'["Translator"] # None
           ELSE ext'["Translator"] = ext["Translator"]
        /\ IF stack[at] = "template"
           THEN ext'["TemplateContext"].locale = IF ext["Translator"] = None THEN "" ELSE ext["Translator"]
           ELSE ext'["TemplateContext"] = ext["TemplateContext"]
    BY DEF OnwardStep, Inserted
  <1>3. PICK n : n = at
    OBVIOUS
  <1>4. /\ Stack!Outside(n + 1) = Stack!Outside(n) \cup {stack[n]}
        /\ \A i \in 1 .. n - 1 : Between(i, n + 1) = Between(i, n) \cup {stack[n]}
        /\ Between(n, n + 1) = {}
    BY <1>1, <1>3, OutsideMore
  <1>5. /\ \A i : Stack!Outside(i)' = Stack!Outside(i)
        /\ \A i, m : Between(i, m)' = Between(i, m)
    BY <1>1, SameStack
  <1>6. ext["Translator"] # None <=> "i18n" \in Stack!Outside(n)
    BY <1>1, <1>3 DEF TranslatorInv
  <1>7. TranslatorInv'
    <2>1. Stack!Outside(at)' = Stack!Outside(n + 1)
      BY <1>1, <1>3 DEF Stack!Outside
    <2>2. QED
      BY <1>2, <1>3, <1>4, <1>6, <2>1 DEF TranslatorInv
  <1>8. SavedInv'
    <2> SUFFICES ASSUME NEW i \in DOMAIN stack, stack[i] = "error_handler", i < n + 1
                 PROVE  saved'[i]["Translator"] # None <=> "i18n" \in Stack!Outside(i)
      BY <1>1, <1>3, <1>5 DEF SavedInv
    <2>1. CASE i = n
      <3>1. saved' = [saved EXCEPT ![n] = ext]
        BY <1>3, <2>1 DEF OnwardStep, Kept
      <3>2. saved'[n] = ext
        BY <2>1, <3>1 DEF LayersTypeOK
      <3>3. QED
        BY <1>6, <2>1, <3>2
    <2>2. CASE i # n
      <3>1. saved'[i] = saved[i]
        BY <1>3, <2>2 DEF OnwardStep, Kept, LayersTypeOK
      <3>2. i < at
        BY <1>1, <1>3, <2>2
      <3>3. QED
        BY <1>1, <3>1, <3>2 DEF SavedInv
    <2>3. QED
      BY <2>1, <2>2
  <1>9. ContextInv'
    <2> SUFFICES ASSUME ext'["TemplateContext"] # None
                 PROVE  ContextAt(at)'
      BY DEF ContextInv
    <2>1. PICK i \in 1 .. n :
            /\ stack[i] = "template" /\ "template" \notin Between(i, n + 1)
            /\ IF "i18n" \in Stack!Outside(i)
               THEN "i18n" \notin Between(i, n + 1)
                      => ext'["TemplateContext"].locale = ext'["Translator"]
               ELSE ext'["TemplateContext"].locale = ""
      <3>1. CASE stack[n] = "template"
        <4>1. ext'["Translator"] = ext["Translator"]
          BY <1>2, <1>3, <3>1
        <4>2. ext'["TemplateContext"].locale
                = IF ext["Translator"] = None THEN "" ELSE ext["Translator"]
          BY <1>2, <1>3, <3>1
        <4>3. n \in 1 .. n
          BY <1>1, <1>3
        <4>4. QED
          BY <1>4, <1>6, <3>1, <4>1, <4>2, <4>3
      <3>2. CASE stack[n] # "template"
        <4>1. ext'["TemplateContext"] = ext["TemplateContext"]
          BY <1>2, <1>3, <3>2
        <4>2. ContextAt(n)
          BY <1>1, <1>3, <4>1 DEF ContextInv
        <4>3. PICK i \in 1 .. n - 1 :
                /\ stack[i] = "template" /\ "template" \notin Between(i, n)
                /\ IF "i18n" \in Stack!Outside(i)
                   THEN "i18n" \notin Between(i, n)
                          => ext["TemplateContext"].locale = ext["Translator"]
                   ELSE ext["TemplateContext"].locale = ""
          BY <4>2 DEF ContextAt
        <4>4. Between(i, n + 1) = Between(i, n) \cup {stack[n]} /\ i \in 1 .. n
          BY <1>1, <1>3, <1>4
        <4>5. "i18n" \notin Between(i, n + 1) => ext'["Translator"] = ext["Translator"]
          BY <1>2, <1>3, <4>4
        <4>6. QED
          BY <3>2, <4>1, <4>3, <4>4, <4>5
      <3>3. QED
        BY <3>1, <3>2
    <2>2. /\ Stack!Outside(i)' = Stack!Outside(i) /\ Between(i, at)' = Between(i, n + 1)
          /\ stack' = stack /\ i \in (1 .. at - 1)'
      BY <1>1, <1>3, <1>5 DEF Between
    <2>3. QED
      BY <2>1, <2>2 DEF ContextAt
  <1>10. QED
    BY <1>7, <1>8, <1>9

(* An error on its way out: as it was made, while no error handler was     *)
(* passed, and then as the first of them rendered it.                      *)
RenderedInv ==
  dir = "out" =>
    /\ resp.cause = None => resp.error = None /\ resp.rendered = 0
    /\ resp.cause # None =>
         /\ resp.cause \in Errors
         /\ resp.status = resp.cause.status /\ resp.body.details = resp.cause.details
         /\ resp.rendered = 0 =>
              /\ resp.error = Stack!clone(resp.cause) /\ resp.locale = None
              /\ resp.body.message = resp.cause.message
              /\ \A i \in Stack!Place("error_handler") : i <= at \/ resp.origin <= i
         /\ resp.rendered # 0 =>
              /\ resp.error = None
              /\ resp.rendered \in Stack!Place("error_handler") /\ resp.rendered < resp.origin
              /\ \A i \in Stack!Place("error_handler") : i <= resp.rendered \/ resp.origin <= i
              /\ IF resp.cause.locale_key # None /\ "i18n" \in Stack!Outside(resp.rendered)
                 THEN /\ resp.locale # None
                      /\ resp.body.message
                           \in Stack!Says(resp.locale, resp.cause.locale_key, "other", <<>>)
                 ELSE resp.locale = None /\ resp.body.message = resp.cause.message

(* A page is what t() made of the context that the handler had. *)
PageInv ==
  dir = "out" /\ resp.page # None =>
    /\ resp.page.key \in LocaleKeys
    /\ resp.page.count \in {{}} \cup {{n} : n \in Counts}
    /\ \E locale :
         /\ resp.page.text = Stack!make_t_function(locale, resp.page.key, resp.page.count, <<>>)
         /\ IF resp.page.own # <<>> THEN locale = resp.page.own[1]
            ELSE locale = ext["TemplateContext"].locale /\ ContextAt(Len(stack) + 1)

(* A response that was just made from an error. *)
LEMMA MadeFromError ==
  ASSUME NEW e \in Errors, resp' = Stack!into_response(e), LayersTypeOK,
         at' = at - 1, stack' = stack
  PROVE  RenderedInv' /\ PageInv'
  <1>1. PICK r : r = resp'
    OBVIOUS
  <1>2. /\ r.status = e.status /\ r.error = Stack!clone(e) /\ r.cause = e
        /\ r.body = [status |-> e.status, message |-> e.message, details |-> e.details]
        /\ r.origin = at /\ r.rendered = 0 /\ r.locale = None /\ r.page = None
    BY <1>1, ErrorResponseFields
  <1>3. e # None
    BY ErrorsAreErrors
  <1>4. r.body.details = e.details /\ r.body.message = e.message
    BY <1>2
  <1>5. \A i \in Stack!Place("error_handler")' : i <= at' \/ at <= i
    BY DEF Stack!Place, LayersTypeOK
  <1>6. RenderedInv'
    BY <1>1, <1>2, <1>3, <1>4, <1>5 DEF RenderedInv
  <1>7. PageInv'
    BY <1>1, <1>2 DEF PageInv
  <1>8. QED
    BY <1>6, <1>7

(* A response that a layer or the handler made. *)
LEMMA AnsweredRendered ==
  ASSUME LayersTypeOK, ContextInv, AnsweringStep
  PROVE  RenderedInv' /\ PageInv'
  <1>1. /\ at \in Nat /\ at > 0 /\ at' = at - 1 /\ dir = "in" /\ dir' = "out" /\ stack' = stack
        /\ ext' = ext
    BY DEF LayersTypeOK, AnsweringStep, Answering
  <1>2. CASE \E e \in Errors : resp' = Stack!into_response(e)
    BY <1>1, <1>2, MadeFromError
  <1>3. CASE \E status \in Nat : resp' = Stack!Response(status)
    <2>1. resp'.error = None /\ resp'.rendered = 0 /\ resp'.cause = None /\ resp'.page = None
      BY <1>3, ResponseFields
    <2>2. QED
      BY <2>1 DEF RenderedInv, PageInv
  <1>4. CASE Page
    <2>1. PICK own, key, count :
             /\ key \in LocaleKeys
             /\ count \in {{}} \cup {{n} : n \in Counts}
             /\ at = Len(stack) + 1
             /\ ext["TemplateContext"] # None
             /\ resp' = [Stack!Response(200) EXCEPT
                  !.page = [own |-> own, key |-> key, count |-> count,
                            text |-> Stack!make_t_function(Stack!merge(own), key, count, <<>>)]]
      BY <1>4 DEF Page
    <2>2. PICK locale, text, page, r, counts :
             /\ locale = Stack!merge(own)
             /\ text = Stack!make_t_function(locale, key, count, <<>>)
             /\ page = [own |-> own, key |-> key, count |-> count, text |-> text]
             /\ r = [Stack!Response(200) EXCEPT !.page = page]
             /\ counts = {{}} \cup {{n} : n \in Counts}
      OBVIOUS
    <2>3. resp' = r
      BY <2>1, <2>2, Zenon
    <2>4. r.error = None /\ r.rendered = 0 /\ r.cause = None /\ r.page = page
      BY <2>2, PageFields
    <2>5. RenderedInv'
      BY <2>3, <2>4 DEF RenderedInv
    <2>6. page.own = own /\ page.key = key /\ page.count = count /\ page.text = text
      BY <2>2
    <2>7. IF own # <<>> THEN locale = own[1]
          ELSE locale = ext["TemplateContext"].locale /\ ContextAt(Len(stack) + 1)
      <3>1. ContextAt(Len(stack) + 1)
        BY <1>1, <2>1 DEF ContextInv
      <3>2. QED
        BY <2>2, <3>1 DEF Stack!merge
    <2>8. ContextAt(Len(stack) + 1)' <=> ContextAt(Len(stack) + 1)
      BY <1>1 DEF ContextAt, Between, Stack!Outside
    <2>9. resp'.page.own = own /\ resp'.page.key = key /\ resp'.page.count = count /\ resp'.page.text = text
      BY <2>3, <2>4, <2>6
    <2>10. key \in LocaleKeys /\ count \in counts
      BY <2>1, <2>2
    <2>11. /\ resp'.page.key \in LocaleKeys
           /\ resp'.page.count \in {{}} \cup {{n} : n \in Counts}
      BY <2>2, <2>9, <2>10
    <2>12. /\ resp'.page.text = Stack!make_t_function(locale, resp'.page.key, resp'.page.count, <<>>)
           /\ IF resp'.page.own # <<>> THEN locale = resp'.page.own[1]
              ELSE locale = ext'["TemplateContext"].locale /\ ContextAt(Len(stack) + 1)'
      BY <1>1, <2>2, <2>7, <2>8, <2>9
    <2>13. PageInv'
      BY <2>11, <2>12 DEF PageInv
    <2>14. QED
      BY <2>5, <2>13
  <1>5. CASE resp' = Stack!Panicked
    <2>1. resp'.error = None /\ resp'.rendered = 0 /\ resp'.cause = None /\ resp'.page = None
      BY <1>5, PanickedFields
    <2>2. QED
      BY <2>1 DEF RenderedInv, PageInv
  <1>6. QED
    BY <1>2, <1>3, <1>4, <1>5 DEF AnsweringStep, Answered

(* An error handler renders the error it finds. *)
LEMMA HandlerRenders ==
  ASSUME LayersTypeOK, ResponseInv, SavedInv, RenderedInv, dir = "out", at \in DOMAIN stack,
         stack[at] = "error_handler", resp.error # None,
         resp' = Stack!default_error_handler(resp.error, saved[at]),
         at' = at - 1, stack' = stack, dir' = "out"
  PROVE  RenderedInv' /\ PageInv'
  <1>1. PICK r, err, x, e, n : /\ r = resp' /\ err = resp.error /\ x = saved[at] /\ e = resp.cause
                               /\ n = at
    OBVIOUS
  <1>2. /\ e # None /\ e \in Errors /\ resp.rendered = 0 /\ err = Stack!clone(e)
        /\ \A i \in Stack!Place("error_handler") : i <= n \/ resp.origin <= i
    BY <1>1 DEF RenderedInv
  <1>3. /\ IsError(e) /\ err.status = e.status /\ err.message = e.message
        /\ err.locale_key = e.locale_key /\ err.details = e.details
    BY <1>2, ErrorsAreErrors, CloneKeeps
  <1>4. x["Translator"] # None <=> "i18n" \in Stack!Outside(n)
    BY <1>1 DEF SavedInv, LayersTypeOK
  <1> DEFINE h == Stack!default_error_handler(err, x)
             locale == MessageLocale(err, x)
             message == MessageOf(err, x)
  <1>5. /\ DOMAIN h = Fields
        /\ h.status = err.status /\ h.error = None /\ h.cause = resp.cause
        /\ h.body = [status |-> err.status, message |-> message, details |-> err.details]
        /\ h.origin = resp.origin /\ h.headers = {} /\ h.rendered = at
        /\ h.locale = locale
        /\ h.page = None
    BY HandledFields
  <1>6. r = h
    BY <1>1
  <1>7. /\ n \in Nat /\ n # 0 /\ resp.origin \in Nat /\ n < resp.origin
        /\ n \in Stack!Place("error_handler")
    BY <1>1 DEF ResponseInv, LayersTypeOK, Stack!Place
  <1>8. IF e.locale_key # None /\ "i18n" \in Stack!Outside(n)
        THEN locale # None /\ message \in Stack!Says(locale, e.locale_key, "other", <<>>)
        ELSE locale = None /\ message = e.message
    <2>1. locale = IF e.locale_key = None THEN None ELSE x["Translator"]
      BY <1>3 DEF MessageLocale
    <2>2. message = IF locale = None THEN e.message
                    ELSE Stack!translate(locale, e.locale_key, <<>>)
      BY <1>3 DEF MessageOf, Stack!t
    <2>3. e.locale_key # None => e.locale_key \in Seq(STRING) /\ e.locale_key # <<>>
      BY <1>3, RequestStateAssumption DEF IsError
    <2> HIDE DEF locale, message
    <2>4. e.locale_key # None =>
            Stack!translate(locale, e.locale_key, <<>>)
              \in Stack!Says(locale, e.locale_key, "other", <<>>)
      BY <2>3, TranslateSays
    <2>5. QED
      BY <1>4, <2>1, <2>2, <2>4
  <1> HIDE DEF h, locale, message
  <1>9. /\ r.status = e.status /\ r.error = None /\ r.cause = e
        /\ r.body.details = e.details /\ r.body.message = message
        /\ r.origin = resp.origin /\ r.rendered = n /\ r.locale = locale /\ r.page = None
    BY <1>1, <1>3, <1>5, <1>6
  <1>10. /\ Stack!Place("error_handler")' = Stack!Place("error_handler")
         /\ Stack!Outside(n)' = Stack!Outside(n)
    BY SameStack
  <1>11. Stack!Outside(resp.rendered)' = Stack!Outside(n)
    BY <1>1, <1>9 DEF Stack!Outside
  <1>12. RenderedInv'
    <2>1. resp'.cause = e /\ resp'.rendered = n /\ resp'.rendered # 0
      BY <1>1, <1>7, <1>9
    <2>2. resp'.status = e.status /\ resp'.body.details = e.details /\ resp'.error = None
      BY <1>1, <1>9
    <2>3. /\ n \in Stack!Place("error_handler")' /\ n < resp'.origin
          /\ \A i \in Stack!Place("error_handler")' : i <= n \/ resp'.origin <= i
      BY <1>1, <1>2, <1>7, <1>9, <1>10
    <2>4. IF e.locale_key # None /\ "i18n" \in Stack!Outside(resp.rendered)'
          THEN resp'.locale # None /\ resp'.body.message \in Stack!Says(resp'.locale, e.locale_key, "other", <<>>)
          ELSE resp'.locale = None /\ resp'.body.message = e.message
      BY <1>1, <1>8, <1>9, <1>11
    <2>5. QED
      BY <1>2, <2>1, <2>2, <2>3, <2>4 DEF RenderedInv
  <1>13. PageInv'
    BY <1>1, <1>9 DEF PageInv
  <1>14. QED
    BY <1>12, <1>13

(* The layers on the way out: all but the error handler and catch_panic    *)
(* leave errors and pages alone.                                           *)
LEMMA OutwardRendered ==
  ASSUME LayersTypeOK, ResponseInv, SavedInv, RenderedInv, PageInv, OutwardStep
  PROVE  RenderedInv' /\ PageInv'
  <1>1. /\ at \in Nat /\ at > 0 /\ at' = at - 1 /\ dir = "out" /\ dir' = "out" /\ stack' = stack
        /\ at \in DOMAIN stack /\ ext' = ext /\ \A i \in DOMAIN stack : i \in Nat
    BY DEF LayersTypeOK, OutwardStep
  <1>2. CASE resp' = Stack!into_response(Stack!internal)
    <2>1. Stack!internal \in Errors
      BY DEF Errors, Worded
    <2>2. QED
      BY <1>1, <1>2, <2>1, MadeFromError
  <1>3. CASE /\ stack[at] = "error_handler" /\ resp.error # None
             /\ resp' = Stack!default_error_handler(resp.error, saved[at])
    BY <1>1, <1>3, HandlerRenders
  <1>4. CASE /\ resp' = resp \/ resp' = [resp EXCEPT !.headers = resp.headers \cup {at}]
             /\ stack[at] = "error_handler" => resp.error = None
    <2>1. /\ resp'.status = resp.status /\ resp'.error = resp.error /\ resp'.cause = resp.cause
          /\ resp'.body = resp.body /\ resp'.origin = resp.origin
          /\ resp'.rendered = resp.rendered /\ resp'.locale = resp.locale /\ resp'.page = resp.page
      <3>1. CASE resp' = resp
        BY <3>1
      <3>2. CASE resp' = [resp EXCEPT !.headers = resp.headers \cup {at}]
        <4>1. DOMAIN resp = Fields
          BY <1>1 DEF ResponseInv
        <4>2. QED
          BY <3>2, <4>1, HeadersFields
      <3>3. QED
        BY <1>4, <3>1, <3>2
    <2>2. /\ \A i : Stack!Outside(i)' = Stack!Outside(i)
          /\ \A i, m : Between(i, m)' = Between(i, m)
          /\ \A l : Stack!Place(l)' = Stack!Place(l)
      BY <1>1, SameStack
    <2>3. Stack!Outside(resp.rendered)' = Stack!Outside(resp.rendered)
      BY <1>1, <2>1 DEF Stack!Outside
    <2>4. resp.cause # None /\ resp.rendered = 0 =>
            \A i \in Stack!Place("error_handler") : i <= at' \/ resp.origin <= i
      <3> SUFFICES ASSUME resp.cause # None, resp.rendered = 0, NEW i \in Stack!Place("error_handler")
                   PROVE  i <= at' \/ resp.origin <= i
        OBVIOUS
      <3>1. i <= at \/ resp.origin <= i
        BY <1>1 DEF RenderedInv
      <3>2. resp.cause \in Errors /\ resp.error = Stack!clone(resp.cause)
        BY <1>1 DEF RenderedInv
      <3>3. resp.error # None
        BY <3>2, ErrorsAreErrors
      <3>4. i # at /\ i \in Nat
        BY <1>1, <1>4, <3>3 DEF Stack!Place
      <3>5. QED
        BY <1>1, <3>1, <3>4
    <2>5. RenderedInv'
      <3>1. resp.cause = None => resp.error = None /\ resp.rendered = 0
        BY <1>1 DEF RenderedInv
      <3>2. resp.cause # None =>
              /\ resp.cause \in Errors
              /\ resp.status = resp.cause.status /\ resp.body.details = resp.cause.details
              /\ resp.rendered = 0 =>
                   /\ resp.error = Stack!clone(resp.cause) /\ resp.locale = None
                   /\ resp.body.message = resp.cause.message
                   /\ \A i \in Stack!Place("error_handler") : i <= at' \/ resp.origin <= i
              /\ resp.rendered # 0 =>
                   /\ resp.error = None
                   /\ resp.rendered \in Stack!Place("error_handler") /\ resp.rendered < resp.origin
                   /\ \A i \in Stack!Place("error_handler") : i <= resp.rendered \/ resp.origin <= i
                   /\ IF resp.cause.locale_key # None /\ "i18n" \in Stack!Outside(resp.rendered)
                      THEN /\ resp.locale # None
                           /\ resp.body.message
                                \in Stack!Says(resp.locale, resp.cause.locale_key, "other", <<>>)
                      ELSE resp.locale = None /\ resp.body.message = resp.cause.message
        BY <1>1, <2>4 DEF RenderedInv
      <3>3. QED
        BY <2>1, <2>2, <2>3, <3>1, <3>2 DEF RenderedInv
    <2>6. PageInv'
      <3> SUFFICES ASSUME resp.page # None PROVE PageInv'
        BY <2>1 DEF PageInv
      <3>1. ContextAt(Len(stack) + 1)' <=> ContextAt(Len(stack) + 1)
        BY <1>1 DEF ContextAt, Between, Stack!Outside
      <3>2. /\ resp.page.key \in LocaleKeys
            /\ resp.page.count \in {{}} \cup {{n} : n \in Counts}
        BY <1>1 DEF PageInv
      <3>3. PICK locale :
              /\ resp.page.text = Stack!make_t_function(locale, resp.page.key, resp.page.count, <<>>)
              /\ IF resp.page.own # <<>> THEN locale = resp.page.own[1]
                 ELSE locale = ext["TemplateContext"].locale /\ ContextAt(Len(stack) + 1)
        BY <1>1 DEF PageInv
      <3>4. QED
        BY <1>1, <2>1, <3>1, <3>2, <3>3 DEF PageInv
    <2>7. QED
      BY <2>5, <2>6
  <1>5. QED
    <2>1. \/ resp' = Stack!into_response(Stack!internal)
          \/ /\ stack[at] = "error_handler" /\ resp.error # None
             /\ resp' = Stack!default_error_handler(resp.error, saved[at])
          \/ /\ resp' = resp \/ resp' = [resp EXCEPT !.headers = resp.headers \cup {at}]
             /\ stack[at] = "error_handler" => resp.error = None
      BY OutwardCases
    <2>2. QED
      BY <2>1, <1>2, <1>3, <1>4

AnswersInv ==
  /\ LayersTypeOK /\ ResponseInv /\ HeadersInv
  /\ TranslatorInv /\ SavedInv /\ ContextInv /\ RenderedInv /\ PageInv

LEMMA AnswersStep ==
  ASSUME AnswersInv, [Stack!Next]_Stack!vars
  PROVE  AnswersInv'
  <1>1. LayersTypeOK' /\ ResponseInv' /\ HeadersInv'
    BY LayersTypeStep, ResponseStep DEF AnswersInv
  <1>2. CASE OnwardStep
    <2>1. RenderedInv' /\ PageInv'
      BY <1>2 DEF OnwardStep, Onward, RenderedInv, PageInv
    <2>2. QED
      BY <1>1, <1>2, <2>1, TranslatorStep DEF AnswersInv
  <1>3. CASE AnsweringStep
    <2>1. TranslatorInv' /\ ContextInv'
      BY <1>3 DEF AnsweringStep, Answering, TranslatorInv, ContextInv
    <2>2. SavedInv'
      <3>1. /\ at \in Nat /\ at' = at - 1 /\ dir = "in" /\ dir' = "out" /\ stack' = stack
            /\ saved' = saved /\ \A i \in DOMAIN stack : i \in Nat
        BY <1>3 DEF AnswersInv, LayersTypeOK, AnsweringStep, Answering
      <3>2. \A i \in DOMAIN stack : i <= at - 1 => i < at
        BY <3>1
      <3>3. \A i : Stack!Outside(i)' = Stack!Outside(i)
        BY <3>1, SameStack
      <3>4. QED
        BY <3>1, <3>2, <3>3 DEF AnswersInv, SavedInv
    <2>3. QED
      BY <1>1, <1>3, <2>1, <2>2, AnsweredRendered DEF AnswersInv
  <1>4. CASE OutwardStep
    <2>1. TranslatorInv' /\ ContextInv'
      BY <1>4 DEF OutwardStep, TranslatorInv, ContextInv
    <2>2. SavedInv'
      <3>1. /\ at \in Nat /\ at' = at - 1 /\ dir = "out" /\ dir' = "out" /\ stack' = stack
            /\ saved' = saved /\ \A i \in DOMAIN stack : i \in Nat
        BY <1>4 DEF AnswersInv, LayersTypeOK, OutwardStep
      <3>2. \A i \in DOMAIN stack : i <= at - 1 => i <= at
        BY <3>1
      <3>3. \A i : Stack!Outside(i)' = Stack!Outside(i)
        BY <3>1, SameStack
      <3>4. QED
        BY <3>1, <3>2, <3>3 DEF AnswersInv, SavedInv
    <2>3. QED
      BY <1>1, <1>4, <2>1, <2>2, OutwardRendered DEF AnswersInv
  <1>5. CASE UNCHANGED Stack!vars
    <2>1. TranslatorInv' /\ SavedInv'
      BY <1>5 DEF Stack!vars, AnswersInv, TranslatorInv, SavedInv, Stack!Outside
    <2>2. ContextInv'
      BY <1>5 DEF Stack!vars, AnswersInv, ContextInv, ContextAt, Between, Stack!Outside
    <2>3. RenderedInv'
      BY <1>5 DEF Stack!vars, AnswersInv, RenderedInv, Stack!Place, Stack!Outside
    <2>4. PageInv'
      <3>1. UNCHANGED <<resp, stack, ext, dir>>
        BY <1>5 DEF Stack!vars
      <3>2. ContextAt(Len(stack) + 1)' <=> ContextAt(Len(stack) + 1)
        BY <3>1 DEF ContextAt, Between, Stack!Outside
      <3>3. PageInv
        BY DEF AnswersInv
      <3>4. QED
        BY <3>1, <3>2, <3>3 DEF PageInv
    <2>5. QED
      BY <1>1, <2>1, <2>2, <2>3, <2>4 DEF AnswersInv
  <1>6. QED
    BY <1>2, <1>3, <1>4, <1>5, StackStep DEF AnswersInv

LEMMA GreatestIs ==
  ASSUME NEW S \in SUBSET Nat, NEW m \in S, \A x \in S : x <= m
  PROVE  Stack!Max(S) = m
  <1>1. \A x \in S : (\A y \in S : x >= y) <=> x = m
    OBVIOUS
  <1>2. Stack!Max(S) = CHOOSE x \in S : \A y \in S : x >= y
    BY DEF Stack!Max
  <1>3. QED
    BY <1>1, <1>2

LEMMA ErrorsRendered ==
  ASSUME AnswersInv
  PROVE  Stack!ErrorsAreRendered
  <1> DEFINE around == {i \in Stack!Place("error_handler") : i < resp.origin}
             e == resp.cause
             translated == e.locale_key # None /\ \E i \in Stack!Place("i18n") : i < resp.rendered
  <1> SUFFICES ASSUME Stack!Done, e # None
               PROVE  /\ resp.rendered = (IF around = {} THEN 0 ELSE Stack!Max(around))
                      /\ resp.status = e.status
                      /\ resp.body.details = e.details
                      /\ translated <=> resp.locale # None
                      /\ IF translated
                         THEN resp.body.message \in Stack!Says(resp.locale, e.locale_key, "other", <<>>)
                         ELSE resp.body.message = e.message
    BY DEF Stack!ErrorsAreRendered
  <1>1. /\ dir = "out" /\ at = 0 /\ stack \in Seq(STRING) /\ DOMAIN stack = 1 .. Len(stack)
        /\ Len(stack) \in Nat /\ resp.origin \in Nat /\ resp.rendered \in Nat
    BY DEF AnswersInv, Stack!Done, LayersTypeOK, ResponseInv
  <1>2. resp.status = e.status /\ resp.body.details = e.details
    BY <1>1 DEF AnswersInv, RenderedInv
  <1>3. CASE resp.rendered = 0
    <2>1. /\ resp.locale = None /\ resp.body.message = e.message
          /\ \A i \in Stack!Place("error_handler") : i <= 0 \/ resp.origin <= i
      BY <1>1, <1>3 DEF AnswersInv, RenderedInv
    <2>2. around = {}
      BY <1>1, <2>1 DEF Stack!Place
    <2>3. ~translated
      BY <1>1, <1>3 DEF Stack!Place
    <2> HIDE DEF translated, around
    <2>4. QED
      BY <1>2, <1>3, <2>1, <2>2, <2>3
  <1>4. CASE resp.rendered # 0
    <2>1. /\ resp.rendered \in Stack!Place("error_handler") /\ resp.rendered < resp.origin
          /\ \A i \in Stack!Place("error_handler") : i <= resp.rendered \/ resp.origin <= i
          /\ IF resp.cause.locale_key # None /\ "i18n" \in Stack!Outside(resp.rendered)
             THEN /\ resp.locale # None
                  /\ resp.body.message
                       \in Stack!Says(resp.locale, resp.cause.locale_key, "other", <<>>)
             ELSE resp.locale = None /\ resp.body.message = resp.cause.message
      BY <1>1, <1>4 DEF AnswersInv, RenderedInv
    <2>2. "i18n" \in Stack!Outside(resp.rendered) <=> \E i \in Stack!Place("i18n") : i < resp.rendered
      BY <1>1, <2>1 DEF Stack!Outside, Stack!Place
    <2>3. /\ around \in SUBSET Nat /\ resp.rendered \in around
          /\ \A i \in around : i <= resp.rendered
      BY <1>1, <2>1 DEF Stack!Place
    <2>4. Stack!Max(around) = resp.rendered
      BY <2>3, GreatestIs
    <2> HIDE DEF around
    <2>5. QED
      BY <1>2, <2>1, <2>2, <2>3, <2>4
  <1>5. QED
    BY <1>3, <1>4

LEMMA PagesTranslated ==
  ASSUME AnswersInv
  PROVE  Stack!PagesAreTranslated
  <1> DEFINE page == resp.page
             template == Stack!Max(Stack!Place("template"))
             outside == \E i \in Stack!Place("i18n") : i < template
             inside == \E i \in Stack!Place("i18n") : i > template
             asked == IF page.own # <<>> THEN page.own[1]
                      ELSE IF outside THEN ext["Translator"] ELSE ""
             locale == IF asked = "" THEN DefaultLocale ELSE asked
             count == CHOOSE n \in Counts : page.count = {n}
             form == IF page.count = {} THEN "other" ELSE Stack!plural_category(locale, count)
             kwargs == IF page.count = {} THEN <<>> ELSE <<<<"count", Stack!ToString(count)>>>>
  <1> SUFFICES ASSUME Stack!Done, page # None, page.own # <<>> \/ ~outside \/ ~inside
               PROVE  page.text \in Stack!Says(locale, page.key, form, kwargs)
    BY DEF Stack!PagesAreTranslated
  <1>1. /\ dir = "out" /\ stack \in Seq(STRING) /\ DOMAIN stack = 1 .. Len(stack)
        /\ Len(stack) \in Nat
    BY DEF AnswersInv, Stack!Done, LayersTypeOK
  <1>2. page.key \in LocaleKeys /\ page.count \in {{}} \cup {{n} : n \in Counts}
    BY <1>1 DEF AnswersInv, PageInv
  <1>3. PICK l :
          /\ page.text = Stack!make_t_function(l, page.key, page.count, <<>>)
          /\ IF page.own # <<>> THEN l = page.own[1]
             ELSE l = ext["TemplateContext"].locale /\ ContextAt(Len(stack) + 1)
    BY <1>1 DEF AnswersInv, PageInv
  <1>4. l = asked
    <2>1. CASE page.own # <<>>
      BY <1>3, <2>1
    <2>2. CASE page.own = <<>>
      <3>0. PICK m : m = Len(stack) + 1
        OBVIOUS
      <3>c. ContextAt(m)
        BY <1>3, <2>2, <3>0, Zenon
      <3>1. PICK i \in 1 .. m - 1 :
              /\ stack[i] = "template" /\ "template" \notin Between(i, m)
              /\ IF "i18n" \in Stack!Outside(i)
                 THEN "i18n" \notin Between(i, m)
                        => ext["TemplateContext"].locale = ext["Translator"]
                 ELSE ext["TemplateContext"].locale = ""
        BY <3>c DEF ContextAt
      <3>p. i \in DOMAIN stack /\ m \in Nat /\ m - 1 = Len(stack)
        BY <1>1, <3>0
      <3>q. stack[i] = "template" /\ "template" \notin Between(i, m)
        BY <3>1
      <3>2. template = i
        <4>1. /\ Stack!Place("template") \in SUBSET Nat /\ i \in Stack!Place("template")
              /\ \A j \in Stack!Place("template") : j <= i
          BY <1>1, <3>p, <3>q DEF Stack!Place, Between
        <4>2. QED
          BY <4>1, GreatestIs
      <3>3. "i18n" \in Stack!Outside(i) <=> \E j \in Stack!Place("i18n") : j < i
        BY <1>1, <3>p DEF Stack!Outside, Stack!Place
      <3>4. "i18n" \in Between(i, m) <=> \E j \in Stack!Place("i18n") : j > i
        BY <1>1, <3>p DEF Between, Stack!Place
      <3> HIDE DEF template
      <3>5. QED
        BY <1>3, <2>2, <3>1, <3>2, <3>3, <3>4
    <2>3. QED
      BY <2>1, <2>2
  <1>5. page.key \in Seq(STRING) /\ page.key # <<>>
    BY <1>2, RequestStateAssumption
  <1>6. locale = IF l = "" THEN DefaultLocale ELSE l
    BY <1>4
  <1>7. PICK k, c : k = page.key /\ c = page.count
    OBVIOUS
  <1> HIDE DEF page, locale, asked
  <1>8. /\ c = {} =>
             Stack!make_t_function(l, k, c, <<>>) \in Stack!Says(locale, k, "other", <<>>)
        /\ \A n : c = {n} =>
             Stack!make_t_function(l, k, c, <<>>)
               \in Stack!Says(locale, k, Stack!plural_category(locale, n), <<<<"count", Stack!ToString(n)>>>>)
    <2>1. k \in Seq(STRING) /\ k # <<>>
      BY <1>5, <1>7
    <2>2. LET q == IF l = "" THEN DefaultLocale ELSE l IN
           /\ c = {} =>
                Stack!make_t_function(l, k, c, <<>>) \in Stack!Says(q, k, "other", <<>>)
           /\ \A n : c = {n} =>
                Stack!make_t_function(l, k, c, <<>>)
                  \in Stack!Says(q, k, Stack!plural_category(q, n), <<<<"count", Stack!ToString(n)>>>>)
      BY <2>1, PageSays
    <2>3. QED
      BY <1>6, <2>2, Zenon
  <1>9. CASE page.count = {}
    <2>1. form = "other" /\ kwargs = <<>>
      BY <1>9
    <2> HIDE DEF form, kwargs
    <2>2. QED
      BY <1>3, <1>7, <1>8, <1>9, <2>1
  <1>10. CASE page.count # {}
    <2>1. PICK n \in Counts : page.count = {n}
      BY <1>2, <1>10
    <2>2. count = n
      BY <2>1
    <2> HIDE DEF count
    <2>3. form = Stack!plural_category(locale, n) /\ kwargs = <<<<"count", Stack!ToString(n)>>>>
      BY <1>10, <2>2, Zenon
    <2> HIDE DEF form, kwargs
    <2>4. page.text \in Stack!Says(locale, k, Stack!plural_category(locale, n), <<<<"count", Stack!ToString(n)>>>>)
      <3>1. c = {n} /\ page.text = Stack!make_t_function(l, k, c, <<>>)
        BY <1>3, <1>7, <2>1
      <3>2. QED
        BY <3>1, <1>8, Zenon
    <2>5. QED
      BY <1>7, <2>3, <2>4, Zenon
  <1>11. QED
    BY <1>9, <1>10

(* For every stack, every catalog of translations and every error and      *)
(* page: errors are rendered by the innermost error handler around them    *)
(* and translated as the files say when the I18nLayer is outside it, and   *)
(* pages are translated in the locale of their context                     *)
(* (src/middleware/error_handler.rs, src/i18n, src/template).              *)
THEOREM AnswersAlwaysRendered == Stack!Spec => []AnswersAreRendered
  <1>1. Stack!Init => AnswersInv
    <2> SUFFICES ASSUME Stack!Init PROVE AnswersInv
      OBVIOUS
    <2>1. LayersTypeOK /\ dir = "in" /\ at = 1 /\ ext = Stack!NoExtensions
      BY LayersTypeInit DEF Stack!Init
    <2>2. \A x \in Stack!Extensions : ext[x] = None
      BY <2>1 DEF Stack!NoExtensions
    <2>3. TranslatorInv /\ ContextInv
      BY <2>1, <2>2, ExtensionNames DEF TranslatorInv, ContextInv, Stack!Outside
    <2>4. SavedInv
      BY <2>1 DEF SavedInv, LayersTypeOK
    <2>5. QED
      BY <2>1, <2>3, <2>4 DEF AnswersInv, ResponseInv, HeadersInv, RenderedInv, PageInv
  <1>2. AnswersInv /\ [Stack!Next]_Stack!vars => AnswersInv'
    BY AnswersStep
  <1>3. AnswersInv => AnswersAreRendered
    BY ErrorsRendered, PagesTranslated DEF AnswersAreRendered, Stack!AnswersAreRendered
  <1>4. QED
    BY <1>1, <1>2, <1>3, PTL DEF Stack!Spec
=============================================================================
