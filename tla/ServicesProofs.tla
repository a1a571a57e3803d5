--------------------------- MODULE ServicesProofs ---------------------------
(***************************************************************************)
(* Proofs about the services an application uses: the migrations of its    *)
(* databases, the sign-in through a provider, webhooks, the cache of mail  *)
(* templates, what a mail says and the storage of files.                   *)
(***************************************************************************)
EXTENDS Services, FiniteSetTheorems, SequenceTheorems, WellFoundedInduction, TLAPS

-----------------------------------------------------------------------------
(* Sign-in through a provider. *)

Providers == {"github", "google"}
Cookie == [state : Nat, pkce_verifier : Nat, provider : Providers]
Exchange == [provider : Providers, code : Nat, verifier : Nat, account : Accounts \cup {None}]

LoginTypeOK ==
  /\ flows \in Seq([browser : Browsers, provider : Providers])
  /\ answered \subseteq DOMAIN flows
  /\ codes \in [DOMAIN codes -> Accounts] /\ DOMAIN codes \subseteq DOMAIN flows
  /\ used \subseteq DOMAIN codes
  /\ cookie \in [Browsers -> Cookie \cup {None}]
  /\ call \in [Browsers \X Tabs -> Exchange \cup {None}]

(* A cookie and a call name a flow that their browser began; who got an    *)
(* account for a code is the only one, and has either a call or a profile. *)
LoginInv ==
  /\ \A f \in DOMAIN codes : codes[f].provider = flows[f].provider
  /\ \A b \in Browsers : cookie[b] # None =>
       cookie[b].state \in DOMAIN flows /\ flows[cookie[b].state].browser = b
  /\ \A w \in Browsers \X Tabs : call[w] # None =>
       /\ call[w].code \in DOMAIN codes
       /\ flows[call[w].code].browser = w[1]
       /\ call[w].account # None =>
            call[w].code \in used /\ call[w].account = codes[call[w].code]
  /\ \A v, w \in Browsers \X Tabs :
       /\ call[v] # None /\ call[v].account # None
       /\ call[w] # None /\ call[w].account # None
       /\ call[v].code = call[w].code
       => v = w
  /\ \A p \in profiles :
       /\ p.code \in used
       /\ \A w \in Browsers \X Tabs :
            call[w] # None /\ call[w].account # None => call[w].code # p.code
  /\ SignIn!LoginIsBound

(* A call that begins, goes on or ends changes no other call. *)
LEMMA ExchangeStep ==
  ASSUME LoginTypeOK, NEW w \in Browsers \X Tabs, NEW x \in Exchange \cup {None},
         call' = [call EXCEPT ![w] = x]
  PROVE  /\ call' \in [Browsers \X Tabs -> Exchange \cup {None}] /\ call'[w] = x
         /\ \A v \in Browsers \X Tabs : v # w => call'[v] = call[v]
  BY DEF LoginTypeOK

(* authorize_url: what began before stays as it was. *)
LEMMA AuthorizeStep ==
  ASSUME LoginTypeOK, LoginInv, NEW b \in Browsers, NEW provider \in Providers,
         SignIn!authorize_url(b, provider)
  PROVE  LoginTypeOK' /\ LoginInv'
  <1> DEFINE n == Len(flows) + 1
             flow == [browser |-> b, provider |-> provider]
  <1>1. /\ flows \in Seq([browser : Browsers, provider : Providers])
        /\ DOMAIN flows = 1 .. Len(flows) /\ Len(flows) \in Nat
        /\ flows \in [1 .. Len(flows) -> [browser : Browsers, provider : Providers]]
    BY LenProperties DEF LoginTypeOK
  <1>2. /\ flows' = [f \in 1 .. n |-> IF f = n THEN flow ELSE flows[f]]
        /\ answered' = answered \cup {n} /\ UNCHANGED <<cookie, codes, used, call, profiles>>
    BY DEF SignIn!authorize_url
  <1>3. flow \in [browser : Browsers, provider : Providers]
    OBVIOUS
  <1> HIDE DEF flow
  <1>4. flows' \in [1 .. n -> [browser : Browsers, provider : Providers]]
    BY <1>1, <1>2, <1>3
  <1>5. flows' \in Seq([browser : Browsers, provider : Providers]) /\ DOMAIN flows' = 1 .. n
    <2>1. n \in Nat
      BY <1>1
    <2> HIDE DEF n
    <2>2. QED
      BY <2>1, <1>4, SeqDef, ZenonT(30)
  <1>6. /\ DOMAIN flows \subseteq DOMAIN flows' /\ n \in DOMAIN flows'
        /\ \A f \in DOMAIN flows : flows'[f] = flows[f]
    BY <1>1, <1>2, <1>5
  <1> HIDE DEF n
  <1>7. LoginTypeOK'
    BY <1>2, <1>5, <1>6 DEF LoginTypeOK
  <1>8. DOMAIN codes \subseteq DOMAIN flows /\ used \subseteq DOMAIN codes
    BY DEF LoginTypeOK
  <1>9. LoginInv'
    <2>1. /\ \A f \in DOMAIN codes : codes[f].provider = flows'[f].provider
          /\ \A c \in Browsers : cookie[c] # None =>
               cookie[c].state \in DOMAIN flows' /\ flows'[cookie[c].state].browser = c
      BY <1>6, <1>8 DEF LoginInv
    <2>2. \A w \in Browsers \X Tabs : call[w] # None =>
            /\ call[w].code \in DOMAIN codes
            /\ flows'[call[w].code].browser = w[1]
            /\ call[w].account # None =>
                 call[w].code \in used /\ call[w].account = codes[call[w].code]
      BY <1>6, <1>8 DEF LoginInv
    <2>3. \A p \in profiles : p.code \in DOMAIN flows
      BY <1>8 DEF LoginInv
    <2>4. SignIn!LoginIsBound'
      <3>1. \A a : SignIn!profile(a)' = SignIn!profile(a)
        BY DEF SignIn!profile, SignIn!github_profile, SignIn!google_profile, SignIn!UserProfile
      <3>2. QED
        BY <1>2, <1>6, <2>3, <3>1, ZenonT(30) DEF LoginInv, SignIn!LoginIsBound
    <2>5. QED
      BY <1>2, <2>1, <2>2, <2>4, ZenonT(30) DEF LoginInv
  <1>10. QED
    BY <1>7, <1>9

LEMMA LoginStep ==
  ASSUME LoginTypeOK, LoginInv, [SignIn!Next]_(SignIn!vars)
  PROVE  LoginTypeOK' /\ LoginInv'
  <1>f. /\ DOMAIN flows \subseteq Nat
        /\ \A f \in DOMAIN flows : flows[f] \in [browser : Browsers, provider : Providers]
    <2> DEFINE S == [browser : Browsers, provider : Providers]
    <2>1. flows \in Seq(S)
      BY DEF LoginTypeOK
    <2> HIDE DEF S
    <2>2. flows \in [1 .. Len(flows) -> S] /\ Len(flows) \in Nat
      BY <2>1, LenProperties
    <2>3. DOMAIN flows \subseteq Nat /\ \A f \in DOMAIN flows : flows[f] \in S
      BY <2>2
    <2>4. QED
      BY <2>3 DEF S
  <1>t. /\ flows \in Seq([browser : Browsers, provider : Providers])
        /\ DOMAIN flows \subseteq Nat /\ answered \subseteq DOMAIN flows
        /\ codes \in [DOMAIN codes -> Accounts] /\ DOMAIN codes \subseteq DOMAIN flows
        /\ used \subseteq DOMAIN codes
        /\ cookie \in [Browsers -> Cookie \cup {None}]
        /\ call \in [Browsers \X Tabs -> Exchange \cup {None}]
        /\ \A f \in DOMAIN flows : flows[f] \in [browser : Browsers, provider : Providers]
    BY <1>f DEF LoginTypeOK
  <1>1. ASSUME NEW b \in Browsers, SignIn!GitHub(b) \/ SignIn!Google(b)
        PROVE  LoginTypeOK' /\ LoginInv'
    BY <1>1, AuthorizeStep DEF SignIn!GitHub, SignIn!Google, Providers
  <1>2. ASSUME NEW b \in Browsers, SignIn!Expire(b)
        PROVE  LoginTypeOK' /\ LoginInv'
    BY <1>2, <1>t DEF SignIn!Expire, LoginTypeOK, LoginInv, SignIn!LoginIsBound, SignIn!profile,
       SignIn!github_profile, SignIn!google_profile, SignIn!UserProfile
  <1>3. ASSUME NEW w \in Browsers \X Tabs, NEW flow \in DOMAIN flows, SignIn!Callback(w, flow)
        PROVE  LoginTypeOK' /\ LoginInv'
    <2> DEFINE x == [provider |-> flows[flow].provider, code |-> flow,
                     verifier |-> cookie[w[1]].pkce_verifier, account |-> None]
    <2>1. /\ flow \in DOMAIN codes /\ cookie[w[1]] # None /\ cookie[w[1]].state = flow
          /\ call' = [call EXCEPT ![w] = x]
          /\ UNCHANGED <<flows, answered, cookie, codes, used, profiles>>
      BY <1>3 DEF SignIn!Callback, SignIn!exchange_checks
    <2>2. w[1] \in Browsers
      OBVIOUS
    <2>3. cookie[w[1]] \in Cookie /\ flows[flow].browser = w[1]
      BY <2>1, <2>2, <1>t DEF LoginInv
    <2>4. x \in Exchange
      BY <2>3, <1>t DEF Exchange, Cookie
    <2>5. x.code = flow /\ x.account = None
      OBVIOUS
    <2> HIDE DEF x
    <2>6. /\ call' \in [Browsers \X Tabs -> Exchange \cup {None}] /\ call'[w] = x
          /\ \A v \in Browsers \X Tabs : v # w => call'[v] = call[v]
      BY <2>1, <2>4, ExchangeStep
    <2>7. LoginTypeOK'
      BY <2>1, <2>6, <1>t DEF LoginTypeOK
    <2>8. SignIn!LoginIsBound'
      BY <2>1 DEF LoginInv, SignIn!LoginIsBound, SignIn!profile, SignIn!github_profile,
         SignIn!google_profile, SignIn!UserProfile
    <2>9. QED
      BY <2>1, <2>3, <2>5, <2>6, <2>7, <2>8 DEF LoginInv
  <1>4. ASSUME NEW w \in Browsers \X Tabs, SignIn!post_form(w)
        PROVE  LoginTypeOK' /\ LoginInv'
    <2>1. /\ call[w] # None /\ call[w].account = None /\ call[w].code \in DOMAIN codes
          /\ UNCHANGED <<flows, answered, cookie, codes, profiles>>
          /\ used' \in {used, used \cup {call[w].code}}
      BY <1>4 DEF SignIn!post_form, LoginInv
    <2>2. SignIn!LoginIsBound'
      BY <2>1 DEF LoginInv, SignIn!LoginIsBound, SignIn!profile, SignIn!github_profile,
         SignIn!google_profile, SignIn!UserProfile
    <2>3. CASE /\ call[w].code \notin used /\ used' = used \cup {call[w].code}
               /\ call' = [call EXCEPT ![w].account = codes[call[w].code]]
      <3> DEFINE x == [call[w] EXCEPT !.account = codes[call[w].code]]
      <3>1. call' = [call EXCEPT ![w] = x]
        BY <2>3, <1>t
      <3>2. call[w] \in Exchange /\ codes[call[w].code] \in Accounts
        BY <2>1, <1>t
      <3>3. /\ x \in Exchange /\ x.code = call[w].code
            /\ x.account = codes[call[w].code]
        BY <3>2 DEF Exchange
      <3> HIDE DEF x
      <3>4. /\ call' \in [Browsers \X Tabs -> Exchange \cup {None}] /\ call'[w] = x
            /\ \A v \in Browsers \X Tabs : v # w => call'[v] = call[v]
        BY <3>1, <3>3, ExchangeStep
      <3>5. LoginTypeOK'
        BY <2>1, <2>3, <3>4, <1>t DEF LoginTypeOK
      <3>6. QED
        BY <2>1, <2>2, <2>3, <3>3, <3>4, <3>5 DEF LoginInv
    <2>4. CASE call' = [call EXCEPT ![w] = None]
      <3>1. /\ call' \in [Browsers \X Tabs -> Exchange \cup {None}] /\ call'[w] = None
            /\ \A v \in Browsers \X Tabs : v # w => call'[v] = call[v]
        BY <2>4, ExchangeStep
      <3>2. LoginTypeOK'
        BY <2>1, <3>1, <1>t DEF LoginTypeOK
      <3>3. QED
        BY <2>1, <2>2, <3>1, <3>2 DEF LoginInv
    <2>5. QED
      BY <1>4, <2>3, <2>4 DEF SignIn!post_form
  <1>5. ASSUME NEW w \in Browsers \X Tabs, SignIn!get_json(w)
        PROVE  LoginTypeOK' /\ LoginInv'
    <2> DEFINE me == call[w]
               p == [browser |-> w[1], code |-> me.code, profile |-> SignIn!profile(me.account)]
    <2>1. /\ me # None /\ me.account # None /\ call' = [call EXCEPT ![w] = None]
          /\ UNCHANGED <<flows, answered, cookie, codes, used>>
          /\ \/ profiles' = profiles
             \/ SignIn!profile(me.account) # None /\ profiles' = profiles \cup {p}
      BY <1>5 DEF SignIn!get_json
    <2>2. /\ call' \in [Browsers \X Tabs -> Exchange \cup {None}] /\ call'[w] = None
          /\ \A v \in Browsers \X Tabs : v # w => call'[v] = call[v]
      BY <2>1, ExchangeStep
    <2>3. LoginTypeOK'
      BY <2>1, <2>2, <1>t DEF LoginTypeOK
    <2>4. /\ me.code \in used /\ flows[me.code].browser = w[1]
          /\ me.account = codes[me.code] /\ me.account.provider = flows[me.code].provider
      BY <2>1, <1>t DEF LoginInv
    <2>5. SignIn!profile(me.account) # None
            => SignIn!profile(me.account).provider = me.account.provider
      BY DEF SignIn!profile, SignIn!github_profile, SignIn!google_profile, SignIn!UserProfile
    <2>6. \A q \in profiles : q.code # me.code
      BY <2>1 DEF LoginInv
    <2>7. \A v \in Browsers \X Tabs : call'[v] # None /\ call'[v].account # None
            => call'[v].code # me.code
      BY <2>1, <2>2 DEF LoginInv
    <2>8. p.code = me.code /\ p.browser = w[1] /\ p.profile = SignIn!profile(me.account)
      OBVIOUS
    <2>9. \A a : SignIn!profile(a)' = SignIn!profile(a)
      BY DEF SignIn!profile, SignIn!github_profile, SignIn!google_profile, SignIn!UserProfile
    <2> HIDE DEF p, me
    <2>10. SignIn!LoginIsBound'
      BY <2>1, <2>4, <2>5, <2>6, <2>8, <2>9 DEF LoginInv, SignIn!LoginIsBound
    <2>11. \A q \in profiles' :
             /\ q.code \in used
             /\ \A v \in Browsers \X Tabs :
                  call'[v] # None /\ call'[v].account # None => call'[v].code # q.code
      BY <2>1, <2>2, <2>4, <2>7, <2>8 DEF LoginInv
    <2>12. QED
      BY <2>1, <2>2, <2>3, <2>10, <2>11 DEF LoginInv
  <1>6. ASSUME NEW flow \in DOMAIN flows, SignIn!IntoResponse(flow)
        PROVE  LoginTypeOK' /\ LoginInv'
    <2> DEFINE b == flows[flow].browser
               k == SignIn!build_oauth_cookie(flow)
    <2>1. /\ cookie' = [cookie EXCEPT ![b] = k] /\ answered' = answered \ {flow}
          /\ UNCHANGED <<flows, codes, used, call, profiles>>
      BY <1>6 DEF SignIn!IntoResponse
    <2>2. b \in Browsers /\ flows[flow].provider \in Providers /\ flow \in Nat
      BY <1>t
    <2>3. k \in Cookie /\ k.state = flow
      BY <2>2 DEF SignIn!build_oauth_cookie, Cookie
    <2>4. flows[flow].browser = b
      OBVIOUS
    <2> HIDE DEF b, k
    <2>5. /\ cookie' \in [Browsers -> Cookie \cup {None}] /\ cookie'[b] = k
          /\ \A c \in Browsers : c # b => cookie'[c] = cookie[c]
      BY <2>1, <2>2, <2>3, <1>t
    <2>6. LoginTypeOK'
      BY <2>1, <2>5, <1>t DEF LoginTypeOK
    <2>7. SignIn!LoginIsBound'
      BY <2>1 DEF LoginInv, SignIn!LoginIsBound, SignIn!profile, SignIn!github_profile,
         SignIn!google_profile, SignIn!UserProfile
    <2>8. QED
      BY <2>1, <2>3, <2>4, <2>5, <2>6, <2>7 DEF LoginInv
  <1>7. ASSUME NEW flow \in DOMAIN flows, NEW a \in Accounts, SignIn!Agree(flow, a)
        PROVE  LoginTypeOK' /\ LoginInv'
    <2>1. /\ flow \notin DOMAIN codes /\ a.provider = flows[flow].provider
          /\ codes' = [f \in DOMAIN codes \cup {flow} |-> IF f = flow THEN a ELSE codes[f]]
          /\ UNCHANGED <<flows, answered, cookie, used, call, profiles>>
      BY <1>7 DEF SignIn!Agree
    <2>2. /\ DOMAIN codes' = DOMAIN codes \cup {flow} /\ codes' \in [DOMAIN codes' -> Accounts]
          /\ codes'[flow] = a /\ \A f \in DOMAIN codes : codes'[f] = codes[f]
      BY <2>1, <1>t
    <2>3. LoginTypeOK'
      BY <2>1, <2>2, <1>t DEF LoginTypeOK
    <2>4. \A p \in profiles : p.code \in DOMAIN codes
      BY <1>t DEF LoginInv
    <2>5. SignIn!LoginIsBound'
      BY <2>1, <2>2, <2>4 DEF LoginInv, SignIn!LoginIsBound, SignIn!profile, SignIn!github_profile,
         SignIn!google_profile, SignIn!UserProfile
    <2>6. QED
      BY <2>1, <2>2, <2>3, <2>5 DEF LoginInv
  <1>8. CASE UNCHANGED SignIn!vars
    BY <1>8 DEF SignIn!vars, LoginTypeOK, LoginInv, SignIn!LoginIsBound, SignIn!profile,
       SignIn!github_profile, SignIn!google_profile, SignIn!UserProfile
  <1>9. QED
    BY <1>1, <1>2, <1>3, <1>4, <1>5, <1>6, <1>7, <1>8 DEF SignIn!Next

(* A browser gets a profile only from a flow that it began, of the account *)
(* that agreed to it, and no flow gives two, however many browsers and     *)
(* tabs open whichever callbacks (OAuthState, exchange).                   *)
THEOREM LoginsAreBound == SignIn!Spec => []LoginIsBound
  <1>1. SignIn!Init => LoginTypeOK /\ LoginInv
    <2>1. SignIn!Init => LoginTypeOK
      BY DEF SignIn!Init, LoginTypeOK
    <2>2. SignIn!Init => LoginInv
      BY DEF SignIn!Init, LoginInv, SignIn!LoginIsBound
    <2>3. QED
      BY <2>1, <2>2
  <1>2. LoginTypeOK /\ LoginInv /\ [SignIn!Next]_(SignIn!vars) => LoginTypeOK' /\ LoginInv'
    BY LoginStep
  <1>3. LoginInv => LoginIsBound
    BY DEF LoginInv, LoginIsBound
  <1>4. QED
    BY <1>1, <1>2, <1>3, PTL DEF SignIn!Spec

-----------------------------------------------------------------------------
(* Webhooks. *)

Content == {Hooks!build_signed_content(i, t, b) : i \in Ids, t \in Nat, b \in Bodies}
Entry == [version : {"v1", "v1a"}, signature : [secret : Hooks!from_str, content : Content]]
Headers == [webhook_id : Ids, webhook_timestamp : Nat, webhook_signature : Seq(Entry)]
Delivery == [id : Ids, timestamp : Nat, body : Bodies, keys : SUBSET Hooks!from_str]

HooksTypeOK ==
  /\ now \in Nat
  /\ sending \in Hooks!Secrets
  /\ network \subseteq [headers : Headers, body : Bodies, delivery : Delivery]

(* Whatever happened to a request, its v1 entries are the signatures of    *)
(* what was sent, one with each of the secrets.                            *)
Signed(request) ==
  LET m == request.delivery
      entries == request.headers.webhook_signature
      content == Hooks!build_signed_content(m.id, m.timestamp, m.body) IN
  /\ entries # <<>>
  /\ \A i \in DOMAIN entries : entries[i].version = "v1" =>
       entries[i].signature \in {Hooks!sign(k, content) : k \in m.keys}
  /\ \A k \in m.keys : \E i \in DOMAIN entries :
       entries[i].version = "v1" /\ entries[i].signature = Hooks!sign(k, content)

HooksInv == \A request \in network : Signed(request)

LEMMA HeadersOfSend ==
  ASSUME HooksTypeOK, NEW id \in Ids, NEW body \in Bodies
  PROVE  LET h == Hooks!sign_headers(sending, id, now, body)
             m == [id |-> id, timestamp |-> now, body |-> body,
                   keys |-> {sending[i] : i \in DOMAIN sending}]
             r == [headers |-> h, body |-> body, delivery |-> m]
         IN  r \in [headers : Headers, body : Bodies, delivery : Delivery] /\ Signed(r)
  <1> DEFINE content == Hooks!build_signed_content(id, now, body)
             entries == [i \in DOMAIN sending |->
                           [version |-> "v1", signature |-> Hooks!sign(sending[i], content)]]
             h == Hooks!sign_headers(sending, id, now, body)
             m == [id |-> id, timestamp |-> now, body |-> body,
                   keys |-> {sending[i] : i \in DOMAIN sending}]
             r == [headers |-> h, body |-> body, delivery |-> m]
  <1>1. PICK n \in {1, 2} : sending \in [1 .. n -> Hooks!from_str]
    BY DEF HooksTypeOK, Hooks!Secrets
  <1>2. now \in Nat /\ content \in Content
    BY DEF HooksTypeOK, Content
  <1>3. /\ h.webhook_signature = entries /\ h.webhook_id = id /\ h.webhook_timestamp = now
        /\ h = [webhook_id |-> id, webhook_timestamp |-> now, webhook_signature |-> entries]
    BY DEF Hooks!sign_headers
  <1> HIDE DEF content
  <1>4. \A i \in 1 .. n : /\ sending[i] \in Hooks!from_str
                          /\ Hooks!sign(sending[i], content)
                               \in [secret : Hooks!from_str, content : Content]
    BY <1>1, <1>2 DEF Hooks!sign
  <1>5. entries \in [1 .. n -> Entry]
    BY <1>1, <1>4 DEF Entry
  <1>6. entries \in Seq(Entry) /\ entries # <<>> /\ DOMAIN entries = 1 .. n
    <2>1. DOMAIN entries = 1 .. n /\ n \in Nat
      BY <1>5
    <2>2. entries \in Seq(Entry)
      BY <1>5, <2>1, SeqDef
    <2>3. 1 \in 1 .. n /\ DOMAIN <<>> = {}
      OBVIOUS
    <2>4. QED
      BY <2>1, <2>2, <2>3
  <1>7. m \in Delivery
    BY <1>1, <1>2, <1>4 DEF Delivery
  <1>8. r \in [headers : Headers, body : Bodies, delivery : Delivery]
    BY <1>2, <1>3, <1>6, <1>7 DEF Headers
  <1>9. /\ \A i \in DOMAIN entries : /\ entries[i].version = "v1"
                                     /\ entries[i].signature = Hooks!sign(sending[i], content)
    OBVIOUS
  <1>10. /\ r.delivery.keys = {sending[i] : i \in 1 .. n} /\ r.headers.webhook_signature = entries
         /\ Hooks!build_signed_content(r.delivery.id, r.delivery.timestamp, r.delivery.body) = content
    BY <1>1, <1>3 DEF content
  <1> HIDE DEF entries, r
  <1>11. Signed(r)
    BY <1>6, <1>9, <1>10 DEF Signed
  <1>12. QED
    BY <1>8, <1>11 DEF r

(* What is on the way can change but for the signatures of a version. *)
LEMMA ChangeStep ==
  ASSUME HooksTypeOK, HooksInv, NEW request \in network, Hooks!Change(request)
  PROVE  HooksTypeOK' /\ HooksInv'
  <1> DEFINE Requests == [headers : Headers, body : Bodies, delivery : Delivery]
             entries == request.headers.webhook_signature
             x == [version |-> "v1a", signature |-> entries[1].signature]
  <1>1. request \in Requests /\ request.headers \in Headers /\ entries \in Seq(Entry)
    BY DEF HooksTypeOK, Headers
  <1>2. Signed(request) /\ entries # <<>>
    BY DEF HooksInv, Signed
  <1>3. entries[1] \in Entry
    BY <1>1, <1>2, EmptySeq, ElementOfSeq
  <1>4. x \in Entry
    BY <1>3 DEF Entry
  <1>5. x.version # "v1"
    OBVIOUS
  <1> HIDE DEF x
  <1>6. PICK r : /\ network' = (network \ {request}) \cup {r}
                 /\ \/ \E b \in Bodies : r = [request EXCEPT !.body = b]
                    \/ \E i \in Ids : r = [request EXCEPT !.headers.webhook_id = i]
                    \/ r = [request EXCEPT !.headers.webhook_timestamp = now]
                    \/ r = [request EXCEPT !.headers.webhook_signature = <<x>> \o entries]
                 /\ UNCHANGED <<now, sending>>
    BY DEF Hooks!Change, x
  <1>7. ASSUME r \in Requests, r.delivery = request.delivery,
               \/ r.headers.webhook_signature = entries
               \/ r.headers.webhook_signature = <<x>> \o entries
        PROVE  HooksTypeOK' /\ HooksInv'
    <2>1. CASE r.headers.webhook_signature = entries
      <3>1. Signed(r)
        BY <1>2, <1>7, <2>1 DEF Signed
      <3>2. QED
        BY <1>6, <1>7, <3>1 DEF HooksTypeOK, HooksInv
    <2>2. CASE r.headers.webhook_signature = <<x>> \o entries
      <3> DEFINE more == <<x>> \o entries
      <3>1. /\ <<x>> \in Seq(Entry) /\ Len(<<x>>) = 1 /\ <<x>>[1] = x
        BY <1>4
      <3>2. /\ more \in Seq(Entry) /\ Len(more) = Len(entries) + 1 /\ Len(entries) \in Nat
            /\ DOMAIN more = 1 .. Len(more) /\ DOMAIN entries = 1 .. Len(entries)
            /\ \A i \in 1 .. Len(more) :
                 more[i] = IF i <= 1 THEN x ELSE entries[i - 1]
        BY <1>1, <3>1, ConcatProperties, LenProperties
      <3> HIDE DEF more, entries
      <3>3. more # <<>>
        BY <3>2
      <3>4. \A i \in DOMAIN entries : i + 1 \in DOMAIN more /\ more[i + 1] = entries[i]
        BY <3>2
      <3>5. \A i \in DOMAIN more : more[i] = x \/ \E j \in DOMAIN entries : more[i] = entries[j]
        BY <3>2
      <3> DEFINE m == request.delivery
                 content == Hooks!build_signed_content(m.id, m.timestamp, m.body)
      <3>6. /\ \A i \in DOMAIN entries : entries[i].version = "v1" =>
                 entries[i].signature \in {Hooks!sign(k, content) : k \in m.keys}
            /\ \A k \in m.keys : \E i \in DOMAIN entries :
                 entries[i].version = "v1" /\ entries[i].signature = Hooks!sign(k, content)
        BY <1>2 DEF Signed, entries
      <3> HIDE DEF m, content
      <3>7. /\ \A i \in DOMAIN more : more[i].version = "v1" =>
                 more[i].signature \in {Hooks!sign(k, content) : k \in m.keys}
            /\ \A k \in m.keys : \E i \in DOMAIN more :
                 more[i].version = "v1" /\ more[i].signature = Hooks!sign(k, content)
        BY <3>4, <3>5, <3>6, <1>5
      <3>8. Signed(r)
        BY <3>3, <3>7, <1>7, <2>2 DEF Signed, m, content, more
      <3>9. QED
        BY <1>6, <1>7, <3>8 DEF HooksTypeOK, HooksInv
    <2>3. QED
      BY <1>7, <2>1, <2>2
  <1>8. <<x>> \o entries \in Seq(Entry)
    BY <1>1, <1>4
  <1>9. now \in Nat
    BY DEF HooksTypeOK
  <1> DEFINE more == <<x>> \o entries
  <1> HIDE DEF more, x
  <1>10. CASE \E b \in Bodies : r = [request EXCEPT !.body = b]
    BY <1>1, <1>7, <1>10
  <1>11. CASE \E i \in Ids : r = [request EXCEPT !.headers.webhook_id = i]
    BY <1>1, <1>7, <1>11 DEF Headers
  <1>12. CASE r = [request EXCEPT !.headers.webhook_timestamp = now]
    BY <1>1, <1>7, <1>9, <1>12 DEF Headers
  <1>13. CASE r = [request EXCEPT !.headers.webhook_signature = <<x>> \o entries]
    <2>1. r = [request EXCEPT !.headers.webhook_signature = more] /\ more \in Seq(Entry)
      BY <1>8, <1>13 DEF more
    <2>2. r \in Requests /\ r.delivery = request.delivery /\ r.headers.webhook_signature = more
      BY <1>1, <2>1 DEF Headers
    <2>3. QED
      BY <2>2, <1>7 DEF more
  <1>14. QED
    BY <1>6, <1>10, <1>11, <1>12, <1>13

LEMMA HooksStep ==
  ASSUME HooksTypeOK, HooksInv, [Hooks!Next]_(Hooks!vars)
  PROVE  HooksTypeOK' /\ HooksInv'
  <1>1. ASSUME NEW id \in Ids, NEW body \in Bodies, Hooks!Send(id, body)
        PROVE  HooksTypeOK' /\ HooksInv'
    <2> DEFINE h == Hooks!sign_headers(sending, id, now, body)
               m == [id |-> id, timestamp |-> now, body |-> body,
                     keys |-> {sending[i] : i \in DOMAIN sending}]
               r == [headers |-> h, body |-> body, delivery |-> m]
    <2>1. r \in [headers : Headers, body : Bodies, delivery : Delivery] /\ Signed(r)
      BY HeadersOfSend
    <2>2. network' = network \cup {r} /\ UNCHANGED <<now, sending>>
      BY <1>1 DEF Hooks!Send
    <2> HIDE DEF r
    <2>3. QED
      BY <2>1, <2>2 DEF HooksTypeOK, HooksInv
  <1>2. ASSUME NEW request \in network, Hooks!Lose(request)
        PROVE  HooksTypeOK' /\ HooksInv'
    BY <1>2 DEF Hooks!Lose, HooksTypeOK, HooksInv
  <1>3. CASE Hooks!RotateSender
    BY <1>3 DEF Hooks!RotateSender, HooksTypeOK, HooksInv
  <1>4. CASE Hooks!RotateReceiver
    BY <1>4 DEF Hooks!RotateReceiver, HooksTypeOK, HooksInv
  <1>5. CASE Hooks!Tick
    BY <1>5 DEF Hooks!Tick, HooksTypeOK, HooksInv
  <1>6. CASE UNCHANGED Hooks!vars
    BY <1>6 DEF Hooks!vars, HooksTypeOK, HooksInv
  <1>7. QED
    BY <1>1, <1>2, <1>3, <1>4, <1>5, <1>6, ChangeStep DEF Hooks!Next

(* The receiver accepts exactly the requests that are what they were sent  *)
(* as, signed with a secret it has, and in time: any number of deliveries, *)
(* changes on the way and rotations of secrets.  Numbers are written in    *)
(* decimal, so that different timestamps differ in the signed content.     *)
THEOREM GenuineIsAccepted ==
  ASSUME \A s, t \in Nat : Hooks!ToString(s) = Hooks!ToString(t) => s = t
  PROVE  Hooks!Spec => []AcceptedIffGenuine
  <1>1. Hooks!Init => HooksTypeOK /\ HooksInv
    BY DEF Hooks!Init, HooksTypeOK, HooksInv
  <1>2. HooksTypeOK /\ HooksInv /\ [Hooks!Next]_(Hooks!vars) => HooksTypeOK' /\ HooksInv'
    BY HooksStep
  <1>3. ASSUME HooksTypeOK, HooksInv
        PROVE  AcceptedIffGenuine
    <2> SUFFICES ASSUME NEW request \in network
        PROVE  LET m == request.delivery IN
               Hooks!verify_headers(receiving, request.headers, request.body) <=>
                 /\ m.id = request.headers.webhook_id
                 /\ m.timestamp = request.headers.webhook_timestamp
                 /\ m.body = request.body
                 /\ m.keys \cap receiving # {}
                 /\ now + skew - m.timestamp \in -Tolerance .. Tolerance
      BY DEF AcceptedIffGenuine, Hooks!AcceptedIffGenuine
    <2> DEFINE m == request.delivery
               id == request.headers.webhook_id
               timestamp == request.headers.webhook_timestamp
               entries == request.headers.webhook_signature
               signed == Hooks!build_signed_content(m.id, m.timestamp, m.body)
               got == Hooks!build_signed_content(id, timestamp, request.body)
    <2>1. timestamp \in Nat /\ m.timestamp \in Nat
      BY <1>3 DEF HooksTypeOK, Headers, Delivery
    <2>2. got = signed <=> m.id = id /\ m.timestamp = timestamp /\ m.body = request.body
      BY <2>1 DEF Hooks!build_signed_content
    <2>3. \A k, s, c, d : Hooks!sign(k, c) = Hooks!sign(s, d) => k = s /\ c = d
      BY DEF Hooks!sign
    <2>4. /\ \A i \in DOMAIN entries : entries[i].version = "v1" =>
               entries[i].signature \in {Hooks!sign(k, signed) : k \in m.keys}
          /\ \A k \in m.keys : \E i \in DOMAIN entries :
               entries[i].version = "v1" /\ entries[i].signature = Hooks!sign(k, signed)
      BY <1>3 DEF HooksInv, Signed
    <2>5. Hooks!verify_headers(receiving, request.headers, request.body) <=>
            /\ now + skew - timestamp \in -Tolerance .. Tolerance
            /\ \E i \in DOMAIN entries, s \in receiving :
                 entries[i].version = "v1" /\ entries[i].signature = Hooks!sign(s, got)
      BY DEF Hooks!verify_headers, Hooks!verify
    <2> HIDE DEF m, id, timestamp, entries, signed, got
    <2>6. (\E i \in DOMAIN entries, s \in receiving :
             entries[i].version = "v1" /\ entries[i].signature = Hooks!sign(s, got))
            <=> got = signed /\ m.keys \cap receiving # {}
      BY <2>3, <2>4
    <2>7. QED
      BY <2>2, <2>5, <2>6 DEF m, id, timestamp
  <1>4. QED
    BY <1>1, <1>2, <1>3, PTL DEF Hooks!Spec

-----------------------------------------------------------------------------
(* The cache of templates. *)

CacheKeys == {<<email.template, Mail!Locale(email)>> : email \in Emails}

(* The keys in the order of their last use are each there once. *)
CacheInv ==
  /\ capacity \in Nat
  /\ recent \in Seq(CacheKeys)
  /\ \A i, j \in 1 .. Len(recent) : recent[i] = recent[j] => i = j
  /\ DOMAIN mailing = Senders
  /\ \A s \in Senders :
       /\ mailing[s].at \in {"load", "store"} => mailing[s].email \in Emails
       /\ mailing[s].at = "store" => capacity > 0
  /\ Mail!CacheIsLru

Back(s, k) == Append(Mail!RemoveFirst(s, k), k)

(* t is s with k moved from p to the back. *)
Moved(s, k, p, t) ==
  /\ Len(t) = Len(s)
  /\ \A i \in 1 .. Len(s) : t[i] = IF i < p THEN s[i] ELSE IF i < Len(s) THEN s[i + 1] ELSE k

(* A key that is moved to the back, as one that was there or a new one. *)
LEMMA MovedToBack ==
  ASSUME NEW S, NEW s \in Seq(S), NEW k \in S,
         \A i, j \in 1 .. Len(s) : s[i] = s[j] => i = j
  PROVE  LET t == Back(s, k) IN
         /\ t \in Seq(S)
         /\ \A i, j \in 1 .. Len(t) : t[i] = t[j] => i = j
         /\ \A p \in 1 .. Len(s) : s[p] = k => Moved(s, k, p, t)
         /\ (\A p \in 1 .. Len(s) : s[p] # k) => t = Append(s, k)
  <1> DEFINE t == Back(s, k)
  <1>1. Len(s) \in Nat /\ DOMAIN s = 1 .. Len(s) /\ \A i \in 1 .. Len(s) : s[i] \in S
    BY LenProperties, ElementOfSeq
  <1>2. CASE \A p \in 1 .. Len(s) : s[p] # k
    <2>1. t = Append(s, k)
      BY <1>2 DEF Back, Mail!RemoveFirst
    <2>2. t \in Seq(S) /\ Len(t) = Len(s) + 1 /\ t[Len(t)] = k
          /\ \A i \in 1 .. Len(s) : t[i] = s[i]
      BY <2>1, <1>1
    <2> HIDE DEF t
    <2>3. \A i, j \in 1 .. Len(t) : t[i] = t[j] => i = j
      BY <2>2, <1>1, <1>2
    <2>4. QED
      BY <2>1, <2>2, <2>3, <1>2 DEF t
  <1>3. ASSUME NEW p \in 1 .. Len(s), s[p] = k
        PROVE  t \in Seq(S) /\ Moved(s, k, p, t)
    <2>1. {i \in 1 .. Len(s) : s[i] = k} = {p}
      BY <1>3
    <2>2. Mail!SelectInSeq(s, LAMBDA v : v = k) = p
      <3>1. p \in Int
        BY <1>1
      <3>2. Mail!Min({p}) = p
        BY <3>1 DEF Mail!Min
      <3>3. QED
        BY <2>1, <3>2 DEF Mail!SelectInSeq
    <2>3. Mail!RemoveFirst(s, k) = SubSeq(s, 1, p - 1) \o SubSeq(s, p + 1, Len(s))
      BY <1>3, <2>2 DEF Mail!RemoveFirst, Mail!RemoveAt
    <2> DEFINE a == SubSeq(s, 1, p - 1)
               b == SubSeq(s, p + 1, Len(s))
               r == a \o b
    <2>4. /\ a \in Seq(S) /\ Len(a) = p - 1 /\ \A i \in 1 .. p - 1 : a[i] = s[i]
      <3>1. \A i \in 1 .. p - 1 : s[i] \in S
        BY <1>1
      <3>2. 1 \in Int /\ p - 1 \in Int /\ (p - 1) - 1 + 1 = p - 1 /\ (1 > p - 1 => p - 1 = 0)
        BY <1>1
      <3>3. /\ a \in Seq(S) /\ Len(a) = IF 1 <= p - 1 THEN (p - 1) - 1 + 1 ELSE 0
            /\ \A i \in 1 .. (p - 1) - 1 + 1 : a[i] = s[1 + i - 1]
        BY <3>1, <3>2, SubSeqProperties
      <3> HIDE DEF a
      <3>4. QED
        BY <3>2, <3>3, <1>1
    <2>5. /\ b \in Seq(S) /\ Len(b) = Len(s) - p
          /\ \A i \in 1 .. Len(s) - p : b[i] = s[p + i]
      <3>1. \A i \in p + 1 .. Len(s) : s[i] \in S
        BY <1>1
      <3>2. p + 1 \in Int /\ Len(s) \in Int
        BY <1>1
      <3>3. /\ b \in Seq(S) /\ Len(b) = IF p + 1 <= Len(s) THEN Len(s) - (p + 1) + 1 ELSE 0
            /\ \A i \in 1 .. Len(s) - (p + 1) + 1 : b[i] = s[p + 1 + i - 1]
        BY <3>1, <3>2, SubSeqProperties
      <3> HIDE DEF b
      <3>4. Len(b) = Len(s) - p
        <4>1. CASE p < Len(s)
          <5>1. p + 1 <= Len(s) /\ Len(s) - (p + 1) + 1 = Len(s) - p
            BY <1>1, <4>1
          <5>2. QED
            BY <3>3, <5>1
        <4>2. CASE p = Len(s)
          <5>1. ~(p + 1 <= Len(s)) /\ Len(s) - p = 0
            BY <1>1, <4>2
          <5>2. QED
            BY <3>3, <5>1
        <4>3. p < Len(s) \/ p = Len(s)
          <5>1. \A n \in Nat : \A q \in 1 .. n : q < n \/ q = n
            OBVIOUS
          <5>2. QED
            BY <1>1, <5>1
        <4>4. QED
          BY <4>1, <4>2, <4>3
      <3>5. ASSUME NEW i \in 1 .. Len(s) - p
            PROVE  b[i] = s[p + i]
        <4>1. i \in 1 .. Len(s) - (p + 1) + 1 /\ p + 1 + i - 1 = p + i
          BY <1>1
        <4>2. QED
          BY <3>3, <4>1
      <3>6. QED
        BY <3>3, <3>4, <3>5
    <2> HIDE DEF a, b
    <2>6. /\ r \in Seq(S) /\ Len(r) = Len(s) - 1
          /\ \A i \in 1 .. Len(s) - 1 : r[i] = IF i < p THEN s[i] ELSE s[i + 1]
      <3>1. /\ r \in Seq(S) /\ Len(r) = Len(a) + Len(b)
            /\ \A i \in 1 .. Len(a) + Len(b) :
                 r[i] = IF i <= Len(a) THEN a[i] ELSE b[i - Len(a)]
        <4>1. a \in Seq(S) /\ b \in Seq(S)
          BY <2>4, <2>5
        <4>2. QED
          BY <4>1, ConcatProperties
      <3> HIDE DEF r
      <3>2. Len(r) = Len(s) - 1
        BY <2>4, <2>5, <3>1, <1>1
      <3>3. ASSUME NEW i \in 1 .. Len(s) - 1
            PROVE  r[i] = IF i < p THEN s[i] ELSE s[i + 1]
        <4>1. CASE i < p
          BY <2>4, <2>5, <3>1, <1>1, <4>1
        <4>2. CASE p <= i
          <5>1. i - (p - 1) \in 1 .. Len(s) - p /\ p + (i - (p - 1)) = i + 1
            BY <1>1, <4>2
          <5>2. r[i] = b[i - (p - 1)]
            <6>1. i \in 1 .. Len(a) + Len(b) /\ ~(i <= Len(a)) /\ Len(a) = p - 1
              BY <2>4, <2>5, <1>1, <4>2
            <6>2. QED
              BY <3>1, <6>1
          <5>3. QED
            BY <5>1, <5>2, <2>5, <4>2
        <4>3. QED
          BY <4>1, <4>2, <1>1
      <3>4. QED
        BY <3>1, <3>2, <3>3
    <2>7. t = Append(r, k)
      BY <2>3 DEF Back, a, b
    <2> HIDE DEF r
    <2>8. /\ t \in Seq(S) /\ Len(t) = Len(r) + 1 /\ t[Len(r) + 1] = k
          /\ \A i \in 1 .. Len(r) : t[i] = r[i]
      BY <2>6, <2>7
    <2> HIDE DEF t
    <2>9. QED
      BY <2>6, <2>8, <1>1 DEF Moved
  <1>4. CASE \E p \in 1 .. Len(s) : s[p] = k
    <2>1. PICK p \in 1 .. Len(s) : s[p] = k
      BY <1>4
    <2>2. t \in Seq(S) /\ Moved(s, k, p, t)
      BY <1>3, <2>1
    <2> HIDE DEF t
    <2>3. \A i, j \in 1 .. Len(t) : t[i] = t[j] => i = j
      BY <2>1, <2>2, <1>1 DEF Moved
    <2>4. \A q \in 1 .. Len(s) : s[q] = k => q = p
      BY <2>1
    <2>5. QED
      BY <2>1, <2>2, <2>3, <2>4 DEF t
  <1>5. QED
    BY <1>2, <1>4

LEMMA MovedFrom ==
  ASSUME NEW S, NEW s \in Seq(S), NEW k \in S,
         \A i, j \in 1 .. Len(s) : s[i] = s[j] => i = j,
         NEW p \in 1 .. Len(s), s[p] = k
  PROVE  Moved(s, k, p, Back(s, k))
  <1> DEFINE t == Back(s, k)
  <1>1. \A m \in 1 .. Len(s) : s[m] = k => Moved(s, k, m, t)
    BY MovedToBack
  <1> HIDE DEF t
  <1>2. QED
    BY <1>1 DEF t

(* o has the last n elements of r. *)
Ends(o, r, n) == Len(o) = n /\ \A i \in 1 .. n : o[i] = r[Len(r) - n + i]

LEMMA EndsIsSubSeq ==
  ASSUME NEW S, NEW r \in Seq(S), NEW n \in Nat, n <= Len(r)
  PROVE  LET e == SubSeq(r, Len(r) - n + 1, Len(r)) IN
         /\ e \in Seq(S) /\ Ends(e, r, n)
         /\ \A o \in Seq(S) : Ends(o, r, n) => o = e
  <1> DEFINE l == Len(r)
             e == SubSeq(r, l - n + 1, l)
  <1>1. l \in Nat /\ \A i \in 1 .. l : r[i] \in S
    BY LenProperties, ElementOfSeq
  <1>2. l - n + 1 \in Int /\ l \in Int /\ \A i \in l - n + 1 .. l : r[i] \in S
    BY <1>1
  <1>3. /\ e \in Seq(S) /\ Len(e) = IF l - n + 1 <= l THEN l - (l - n + 1) + 1 ELSE 0
        /\ \A i \in 1 .. l - (l - n + 1) + 1 : e[i] = r[l - n + 1 + i - 1]
    BY <1>2, SubSeqProperties
  <1>4. \A m \in Nat : /\ m - (m - n + 1) + 1 = n
                       /\ ~(m - n + 1 <= m) => n = 0
                       /\ \A i \in 1 .. n : m - n + 1 + i - 1 = m - n + i
    OBVIOUS
  <1>5. /\ Len(e) = n /\ \A i \in 1 .. n : e[i] = r[l - n + i]
    <2>1. /\ l - (l - n + 1) + 1 = n /\ (~(l - n + 1 <= l) => n = 0)
          /\ \A i \in 1 .. n : l - n + 1 + i - 1 = l - n + i
      BY <1>1, <1>4
    <2> HIDE DEF l, e
    <2>2. QED
      BY <1>3, <2>1
  <1>6. ASSUME NEW o \in Seq(S), Ends(o, r, n)
        PROVE  o = e
    <2>1. Len(o) = Len(e) /\ \A i \in 1 .. Len(o) : o[i] = e[i]
      BY <1>5, <1>6 DEF Ends
    <2>2. QED
      BY <1>3, <2>1, SeqEqual
  <1>7. QED
    BY <1>3, <1>5, <1>6 DEF Ends

LEMMA HitStep ==
  ASSUME NEW S, NEW r \in Seq(S), NEW o \in Seq(S), NEW n \in Nat, n <= Len(r), NEW k \in S,
         \A i, j \in 1 .. Len(r) : r[i] = r[j] => i = j,
         Ends(o, r, n), NEW q \in 1 .. n, o[q] = k
  PROVE  LET r2 == Back(r, k)
             o2 == Back(o, k) IN
         /\ o2 \in Seq(S) /\ Len(r2) = Len(r) /\ Ends(o2, r2, n)
         /\ Range(o2) = Range(o)
  <1> DEFINE l == Len(r)
             p == l - n + q
             r2 == Back(r, k)
             o2 == Back(o, k)
  <1>1. l \in Nat /\ Len(o) = n /\ \A i \in 1 .. n : o[i] = r[l - n + i]
    BY LenProperties DEF Ends
  <1>2. p \in 1 .. l /\ r[p] = k
    BY <1>1
  <1>3. \A i, j \in 1 .. Len(o) : o[i] = o[j] => i = j
    <2> SUFFICES ASSUME NEW i \in 1 .. n, NEW j \in 1 .. n, o[i] = o[j]
                 PROVE  i = j
      BY <1>1
    <2>1. r[l - n + i] = r[l - n + j] /\ l - n + i \in 1 .. l /\ l - n + j \in 1 .. l
      BY <1>1
    <2>2. l - n + i = l - n + j
      BY <2>1
    <2>3. QED
      BY <1>1, <2>2
  <1>4. /\ Len(r2) = l
        /\ \A i \in 1 .. l : r2[i] = IF i < p THEN r[i] ELSE IF i < l THEN r[i + 1] ELSE k
    <2> HIDE DEF p
    <2>1. Moved(r, k, p, r2)
      BY <1>2, MovedFrom
    <2> HIDE DEF r2
    <2>2. QED
      BY <2>1 DEF Moved
  <1>5. /\ o2 \in Seq(S) /\ Len(o2) = n
        /\ \A i \in 1 .. n : o2[i] = IF i < q THEN o[i] ELSE IF i < n THEN o[i + 1] ELSE k
    <2>1. /\ o2 \in Seq(S)
          /\ \A j \in 1 .. Len(o) : o[j] = k => Moved(o, k, j, o2)
      BY <1>3, MovedToBack
    <2> HIDE DEF o2
    <2>2. Moved(o, k, q, o2)
      BY <1>1, <2>1
    <2>3. QED
      BY <1>1, <2>1, <2>2 DEF Moved
  <1> HIDE DEF l, p, r2, o2
  <1>6. ASSUME NEW i \in 1 .. n
        PROVE  o2[i] = r2[l - n + i]
    <2>1. l - n + i \in 1 .. l /\ p = l - n + q
      BY <1>1 DEF l, p
    <2>2. CASE i < q
      <3>1. o2[i] = o[i] /\ o[i] = r[l - n + i] /\ l - n + i < p
        BY <1>1, <1>5, <2>1, <2>2
      <3>2. QED
        BY <1>4, <2>1, <3>1
    <2>3. CASE ~(i < q) /\ i < n
      <3>1. o2[i] = o[i + 1] /\ o[i + 1] = r[l - n + (i + 1)]
        BY <1>1, <1>5, <2>3
      <3>2. ~(l - n + i < p) /\ l - n + i < l /\ l - n + (i + 1) = (l - n + i) + 1
        BY <1>1, <2>1, <2>3
      <3>3. QED
        BY <1>4, <2>1, <3>1, <3>2
    <2>4. CASE i = n
      <3>1. o2[i] = k
        BY <1>5, <2>4
      <3>2. ~(l - n + i < p) /\ ~(l - n + i < l)
        BY <1>1, <2>1, <2>4
      <3>3. QED
        BY <1>4, <2>1, <3>1, <3>2
    <2>5. QED
      BY <2>2, <2>3, <2>4
  <1>7. Range(o2) = Range(o)
    <2>1. DOMAIN o2 = 1 .. n /\ DOMAIN o = 1 .. n
      BY <1>1, <1>5, LenProperties
    <2>2. ASSUME NEW i \in 1 .. n
          PROVE  \E j \in 1 .. n : o2[i] = o[j]
      <3>1. CASE i < q
        BY <1>5, <3>1
      <3>2. CASE ~(i < q) /\ i < n
        <4>1. i + 1 \in 1 .. n /\ o2[i] = o[i + 1]
          BY <1>5, <3>2
        <4>2. QED
          BY <4>1
      <3>3. CASE i = n
        <4>1. o2[i] = o[q]
          BY <1>5, <3>3
        <4>2. QED
          BY <4>1
      <3>4. QED
        BY <3>1, <3>2, <3>3
    <2>3. ASSUME NEW j \in 1 .. n
          PROVE  \E i \in 1 .. n : o2[i] = o[j]
      <3>1. CASE j < q
        BY <1>5, <3>1
      <3>2. CASE j = q
        BY <1>5, <3>2
      <3>3. CASE j > q
        <4>1. j - 1 \in 1 .. n /\ ~(j - 1 < q) /\ j - 1 < n /\ (j - 1) + 1 = j
          BY <3>3
        <4>2. QED
          BY <1>5, <4>1
      <3>4. QED
        BY <3>1, <3>2, <3>3
    <2>4. Range(o2) = {o2[i] : i \in 1 .. n} /\ Range(o) = {o[i] : i \in 1 .. n}
      BY <2>1 DEF Range
    <2>5. Range(o2) \subseteq Range(o)
      <3>1. \A i \in 1 .. n : \E j \in 1 .. n : o2[i] = o[j]
        BY <2>2
      <3>2. QED
        BY <3>1, <2>4, ZenonT(30)
    <2>6. Range(o) \subseteq Range(o2)
      <3>1. \A j \in 1 .. n : \E i \in 1 .. n : o2[i] = o[j]
        BY <2>3
      <3> SUFFICES ASSUME NEW x \in Range(o)
                   PROVE  x \in Range(o2)
        OBVIOUS
      <3>2. PICK j \in 1 .. n : x = o[j]
        BY <2>4
      <3>3. PICK i \in 1 .. n : o2[i] = x
        BY <3>1, <3>2
      <3>4. QED
        BY <3>3, <2>4
    <2>7. QED
      BY <2>5, <2>6
  <1>8. QED
    BY <1>1, <1>4, <1>5, <1>6, <1>7 DEF Ends, l, r2, o2

(* The number of keys of the cache is the length of its order. *)
LEMMA CountOfOrder ==
  ASSUME NEW S, NEW o \in Seq(S), \A i, j \in 1 .. Len(o) : o[i] = o[j] => i = j
  PROVE  Cardinality(Range(o)) = Len(o)
  <1>1. Len(o) \in Nat /\ o \in [1 .. Len(o) -> S] /\ DOMAIN o = 1 .. Len(o)
    BY LenProperties
  <1>2. o \in [1 .. Len(o) -> Range(o)]
    BY <1>1 DEF Range
  <1>3. o \in Injection(1 .. Len(o), Range(o))
    BY <1>2 DEF Injection, IsInjective
  <1>4. o \in Surjection(1 .. Len(o), Range(o))
    BY <1>1, <1>2 DEF Surjection, Range
  <1>5. ExistsBijection(1 .. Len(o), Range(o))
    BY <1>3, <1>4 DEF ExistsBijection, Bijection
  <1>6. IsFiniteSet(1 .. Len(o)) /\ Cardinality(1 .. Len(o)) = Len(o)
    <2>1. \A n \in Nat : (IF 1 > n THEN 0 ELSE n - 1 + 1) = n
      OBVIOUS
    <2>2. 1 \in Int /\ Len(o) \in Int
      BY <1>1
    <2>3. QED
      BY <1>1, <2>1, <2>2, FS_Interval
  <1>7. QED
    BY <1>5, <1>6, FS_Bijection

(* A new key of a cache that is not full is the last of both. *)
LEMMA GrowStep ==
  ASSUME NEW S, NEW r \in Seq(S), NEW o \in Seq(S), NEW k \in S,
         \A i, j \in 1 .. Len(r) : r[i] = r[j] => i = j,
         Ends(o, r, Len(r)), k \notin Range(o)
  PROVE  /\ Back(o, k) \in Seq(S) /\ Len(Back(r, k)) = Len(r) + 1
         /\ Ends(Back(o, k), Back(r, k), Len(r) + 1)
         /\ Range(Back(o, k)) = Range(o) \cup {k}
  <1>1. o = r
    <2>1. Len(r) \in Nat /\ \A i \in 1 .. Len(r) : Len(r) - Len(r) + i = i
      BY LenProperties
    <2>2. Len(o) = Len(r) /\ \A i \in 1 .. Len(o) : o[i] = r[i]
      BY <2>1 DEF Ends
    <2>3. QED
      BY <2>2, SeqEqual
  <1>2. \A p \in 1 .. Len(r) : r[p] # k
    BY <1>1, LenProperties DEF Range
  <1>3. Back(r, k) = Append(r, k)
    BY <1>2, MovedToBack
  <1> DEFINE t == Append(r, k)
  <1>4. /\ Len(r) \in Nat /\ DOMAIN r = 1 .. Len(r) /\ t \in Seq(S) /\ Len(t) = Len(r) + 1
        /\ t[Len(r) + 1] = k /\ \A i \in 1 .. Len(r) : t[i] = r[i]
    BY LenProperties
  <1>5. DOMAIN t = 1 .. Len(r) + 1
    BY <1>4, LenProperties
  <1> HIDE DEF t
  <1>6. Range(t) = Range(r) \cup {k}
    BY <1>4, <1>5, SMTT(30) DEF Range
  <1>7. \A i \in 1 .. Len(r) + 1 : Len(r) + 1 - (Len(r) + 1) + i = i
    BY <1>4
  <1>8. Ends(t, t, Len(r) + 1)
    BY <1>4, <1>7 DEF Ends
  <1>9. QED
    BY <1>1, <1>3, <1>4, <1>6, <1>8 DEF t

(* A new key of a full cache takes the place of the one in front. *)
LEMMA EvictStep ==
  ASSUME NEW S, NEW r \in Seq(S), NEW o \in Seq(S), NEW n \in Nat \ {0}, n <= Len(r), NEW k \in S,
         \A i, j \in 1 .. Len(r) : r[i] = r[j] => i = j,
         Ends(o, r, n), k \notin Range(o)
  PROVE  LET t == Append(Tail(o), k) IN
         /\ t \in Seq(S) /\ Len(Back(r, k)) >= n /\ Ends(t, Back(r, k), n)
         /\ Range(t) = (Range(o) \ {Head(o)}) \cup {k}
  <1> DEFINE l == Len(r)
             r2 == Back(r, k)
             t == Append(Tail(o), k)
  <1>1. /\ l \in Nat /\ Len(o) = n /\ DOMAIN o = 1 .. n
        /\ \A i \in 1 .. n : o[i] = r[l - n + i] /\ l - n + i \in 1 .. l
    BY LenProperties DEF Ends
  <1>2. /\ t \in Seq(S) /\ Len(t) = n /\ t[n] = k /\ Head(o) = o[1]
        /\ \A i \in 1 .. n - 1 : t[i] = o[i + 1]
    <2>1. o # <<>>
      BY <1>1
    <2> DEFINE u == Tail(o)
    <2>2. u \in Seq(S) /\ Len(u) = n - 1 /\ \A i \in 1 .. n - 1 : u[i] = o[i + 1]
      BY <1>1, <2>1, HeadTailProperties
    <2>3. /\ t \in Seq(S) /\ Len(t) = Len(u) + 1 /\ t[Len(u) + 1] = k
          /\ \A i \in 1 .. Len(u) : t[i] = u[i]
      BY <2>2, AppendProperties
    <2>4. Head(o) = o[1]
      OBVIOUS
    <2> HIDE DEF t, u
    <2>5. QED
      BY <2>2, <2>3, <2>4
  <1>3. DOMAIN t = 1 .. n
    BY <1>2, LenProperties
  <1> HIDE DEF l, r2, t
  <1>4. Len(r2) >= n /\ Ends(t, r2, n)
    <2>1. CASE \A p \in 1 .. Len(r) : r[p] # k
      <3>1. r2 = Append(r, k)
        BY <2>1, MovedToBack DEF r2
      <3>2. Len(r2) = l + 1 /\ r2[l + 1] = k /\ \A i \in 1 .. l : r2[i] = r[i]
        BY <3>1, AppendProperties DEF l
      <3>3. ASSUME NEW i \in 1 .. n
            PROVE  t[i] = r2[l + 1 - n + i]
        <4>1. CASE i = n
          BY <1>1, <1>2, <3>2, <4>1
        <4>2. CASE i < n
          <5>1. /\ i \in 1 .. n - 1 /\ i + 1 \in 1 .. n /\ l - n + (i + 1) = l + 1 - n + i
            BY <1>1, <4>2
          <5>2. t[i] = r[l + 1 - n + i] /\ l + 1 - n + i \in 1 .. l
            BY <1>1, <1>2, <5>1
          <5>3. QED
            BY <3>2, <5>2
        <4>3. QED
          BY <4>1, <4>2
      <3>4. QED
        BY <1>1, <1>2, <3>2, <3>3 DEF Ends, l
    <2>2. ASSUME NEW p \in 1 .. Len(r), r[p] = k
          PROVE  Len(r2) >= n /\ Ends(t, r2, n)
      <3>1. /\ Len(r2) = Len(r)
            /\ \A i \in 1 .. Len(r) :
                 r2[i] = IF i < p THEN r[i] ELSE IF i < Len(r) THEN r[i + 1] ELSE k
        <4>1. Moved(r, k, p, r2)
          BY <2>2, MovedFrom DEF r2
        <4>2. QED
          BY <4>1 DEF Moved
      <3>2. p <= l - n
        <4>1. ASSUME ~(p <= l - n) PROVE FALSE
          <5>1. p - (l - n) \in 1 .. n /\ l - n + (p - (l - n)) = p
            BY <1>1, <4>1 DEF l
          <5>2. o[p - (l - n)] = k
            BY <1>1, <2>2, <5>1
          <5>3. QED
            BY <1>1, <5>1, <5>2 DEF Range
        <4>2. QED
          BY <4>1
      <3>3. ASSUME NEW i \in 1 .. n
            PROVE  t[i] = r2[l - n + i]
        <4>1. l - n + i \in 1 .. l /\ ~(l - n + i < p)
          BY <1>1, <3>2
        <4>2. CASE i = n
          <5>1. ~(l - n + i < l)
            BY <1>1, <4>2
          <5>2. QED
            BY <1>2, <3>1, <4>1, <4>2, <5>1 DEF l
        <4>3. CASE i < n
          <5>1. /\ i \in 1 .. n - 1 /\ i + 1 \in 1 .. n /\ l - n + (i + 1) = (l - n + i) + 1
                /\ l - n + i < l
            BY <1>1, <4>3
          <5>2. t[i] = r[(l - n + i) + 1]
            BY <1>1, <1>2, <5>1
          <5>3. QED
            BY <3>1, <4>1, <5>1, <5>2 DEF l
        <4>4. QED
          BY <4>2, <4>3
      <3>4. QED
        BY <1>1, <1>2, <3>1, <3>3 DEF Ends, l
    <2>3. QED
      BY <2>1, <2>2
  <1>5. Range(t) = (Range(o) \ {Head(o)}) \cup {k}
    <2>1. Range(t) = {t[i] : i \in 1 .. n} /\ Range(o) = {o[i] : i \in 1 .. n}
      BY <1>1, <1>3 DEF Range
    <2>2. \A i \in 2 .. n : o[i] # o[1]
      <3> SUFFICES ASSUME NEW i \in 2 .. n, o[i] = o[1]
                   PROVE  FALSE
        OBVIOUS
      <3>1. i \in 1 .. n /\ 1 \in 1 .. n /\ l - n + i # l - n + 1
        BY <1>1
      <3>2. r[l - n + i] = r[l - n + 1] /\ l - n + i \in 1 .. l /\ l - n + 1 \in 1 .. l
        BY <1>1, <3>1
      <3>3. QED
        BY <3>1, <3>2 DEF l
    <2>3. \A i \in 1 .. n : t[i] = k \/ \E j \in 2 .. n : t[i] = o[j]
      BY <1>2
    <2>4. ASSUME NEW j \in 2 .. n
          PROVE  \E i \in 1 .. n : t[i] = o[j]
      <3>1. j - 1 \in 1 .. n - 1 /\ j - 1 \in 1 .. n /\ (j - 1) + 1 = j
        OBVIOUS
      <3>2. QED
        BY <1>2, <3>1
    <2>5. \A j \in 1 .. n : o[j] # o[1] => \E i \in 1 .. n : t[i] = o[j]
      BY <2>4
    <2>6. n \in 1 .. n /\ t[n] = k
      BY <1>2
    <2>7. Range(t) \subseteq (Range(o) \ {Head(o)}) \cup {k}
      BY <2>1, <2>2, <2>3, <1>2
    <2>8. (Range(o) \ {Head(o)}) \cup {k} \subseteq Range(t)
      BY <2>1, <2>5, <2>6, <1>2, SMTT(30)
    <2>9. QED
      BY <2>7, <2>8
  <1>6. QED
    BY <1>2, <1>4, <1>5 DEF r2, t

(* A key that is used, found in the cache or put there. *)
LEMMA UsedStep ==
  ASSUME CacheInv, capacity > 0, NEW key \in CacheKeys, NEW value, Mail!Used(key),
         UNCHANGED capacity,
         \/ key \in DOMAIN map /\ Mail!get(key)
         \/ Mail!put(key, value)
  PROVE  /\ recent' \in Seq(CacheKeys)
         /\ \A i, j \in 1 .. Len(recent') : recent'[i] = recent'[j] => i = j
         /\ Mail!CacheIsLru'
  <1> DEFINE n == IF Len(recent) < capacity THEN Len(recent) ELSE capacity
             m == IF Len(recent') < capacity THEN Len(recent') ELSE capacity
  <1>1. /\ recent \in Seq(CacheKeys) /\ Len(recent) \in Nat /\ capacity \in Nat
        /\ n \in Nat /\ n <= Len(recent) /\ n <= capacity
        /\ \A i, j \in 1 .. Len(recent) : recent[i] = recent[j] => i = j
    BY LenProperties DEF CacheInv
  <1>2. order = SubSeq(recent, Len(recent) - n + 1, Len(recent)) /\ DOMAIN map = Mail!Range(order)
    BY DEF CacheInv, Mail!CacheIsLru
  <1>3. order \in Seq(CacheKeys) /\ Ends(order, recent, n)
    BY <1>1, <1>2, EndsIsSubSeq
  <1>4. \A s : Mail!Range(s) = Range(s)
    BY DEF Mail!Range, Range
  <1>5. recent' = Back(recent, key)
    BY DEF Mail!Used, Back
  <1>6. /\ recent' \in Seq(CacheKeys)
        /\ \A i, j \in 1 .. Len(recent') : recent'[i] = recent'[j] => i = j
    BY <1>1, <1>5, MovedToBack
  <1>7. Len(recent') \in Nat
    BY <1>6, LenProperties
  <1>8. ASSUME order' \in Seq(CacheKeys), m <= Len(recent'), Ends(order', recent', m),
               DOMAIN map' = Range(order')
        PROVE  Mail!CacheIsLru'
    <2>1. m \in Nat
      BY <1>1, <1>7
    <2>2. order' = SubSeq(recent', Len(recent') - m + 1, Len(recent'))
      BY <1>6, <1>8, <2>1, EndsIsSubSeq
    <2>3. QED
      BY <1>8, <2>2, <1>4 DEF Mail!CacheIsLru, Mail!Range, Range
  <1> HIDE DEF n, m
  <1>9. CASE key \in DOMAIN map
    <2>1. order' = Back(order, key) /\ DOMAIN map' = DOMAIN map
      <3>1. CASE Mail!get(key)
        BY <3>1 DEF Mail!get, Back
      <3>2. CASE Mail!put(key, value)
        BY <3>2, <1>9 DEF Mail!put, Back
      <3>3. QED
        BY <3>1, <3>2
    <2>2. PICK q \in 1 .. n : order[q] = key
      <3>1. DOMAIN order = 1 .. n
        BY <1>3, LenProperties DEF Ends
      <3>2. QED
        BY <3>1, <1>2, <1>4, <1>9 DEF Range
    <2>3. /\ order' \in Seq(CacheKeys) /\ Len(recent') = Len(recent) /\ Ends(order', recent', n)
          /\ Range(order') = Range(order)
      <3> DEFINE r2 == Back(recent, key)
                 o2 == Back(order, key)
      <3>1. /\ o2 \in Seq(CacheKeys) /\ Len(r2) = Len(recent) /\ Ends(o2, r2, n)
            /\ Range(o2) = Range(order)
        BY <1>1, <1>3, <2>2, HitStep
      <3>2. recent' = r2 /\ order' = o2
        BY <1>5, <2>1
      <3> HIDE DEF r2, o2
      <3>3. QED
        BY <3>1, <3>2
    <2>4. m = n
      BY <2>3 DEF m, n
    <2>5. DOMAIN map' = Range(order')
      BY <1>2, <1>4, <2>1, <2>3
    <2>6. m <= Len(recent') /\ Ends(order', recent', m)
      BY <1>1, <2>3, <2>4
    <2>7. Mail!CacheIsLru'
      BY <1>8, <2>3, <2>5, <2>6
    <2>8. QED
      BY <1>6, <2>7
  <1>10. CASE key \notin DOMAIN map
    <2>1. Mail!put(key, value) /\ key \notin Range(order)
      BY <1>10, <1>2, <1>4
    <2>2. Mail!Cardinality(DOMAIN map) = n
      <3>1. Len(order) = n /\ \A i \in 1 .. n : order[i] = recent[Len(recent) - n + i]
        BY <1>3 DEF Ends
      <3>2. \A i, j \in 1 .. Len(order) : order[i] = order[j] => i = j
        <4> SUFFICES ASSUME NEW i \in 1 .. n, NEW j \in 1 .. n, order[i] = order[j]
                     PROVE  i = j
          BY <3>1
        <4> DEFINE a == Len(recent) - n + i
                   b == Len(recent) - n + j
        <4>1. recent[a] = recent[b] /\ a \in 1 .. Len(recent) /\ b \in 1 .. Len(recent)
          BY <1>1, <3>1
        <4>2. a = b
          BY <1>1, <4>1
        <4>3. QED
          BY <1>1, <4>2
      <3>3. Mail!Cardinality(DOMAIN map) = Cardinality(DOMAIN map)
        BY DEF Cardinality, Mail!Cardinality
      <3>4. QED
        BY <1>2, <1>3, <1>4, <3>1, <3>2, <3>3, CountOfOrder
    <2>3. CASE n >= capacity
      <3>1. /\ order' = Append(Tail(order), key)
            /\ DOMAIN map' = (DOMAIN map \ {Head(order)}) \cup {key}
        BY <1>10, <2>1, <2>2, <2>3 DEF Mail!put
      <3>2. n = capacity /\ n \in Nat \ {0}
        BY <1>1, <2>3
      <3>3. /\ order' \in Seq(CacheKeys) /\ Len(recent') >= n /\ Ends(order', recent', n)
            /\ Range(order') = (Range(order) \ {Head(order)}) \cup {key}
        <4> DEFINE r2 == Back(recent, key)
                   t == Append(Tail(order), key)
        <4>1. /\ t \in Seq(CacheKeys) /\ Len(r2) >= n /\ Ends(t, r2, n)
              /\ Range(t) = (Range(order) \ {Head(order)}) \cup {key}
          BY <1>1, <1>3, <2>1, <3>2, EvictStep
        <4>2. recent' = r2 /\ order' = t
          BY <1>5, <3>1
        <4> HIDE DEF r2, t
        <4>3. QED
          BY <4>1, <4>2
      <3>4. m = n
        BY <1>7, <3>2, <3>3 DEF m
      <3>5. DOMAIN map' = Range(order')
        BY <1>2, <1>4, <3>1, <3>3
      <3>6. m <= Len(recent') /\ Ends(order', recent', m)
        BY <1>7, <3>3, <3>4
      <3>7. Mail!CacheIsLru'
        BY <1>8, <3>3, <3>5, <3>6
      <3>8. QED
        BY <1>6, <3>7
    <2>4. CASE n < capacity
      <3>1. order' = Back(order, key) /\ DOMAIN map' = DOMAIN map \cup {key}
        BY <1>1, <1>10, <2>1, <2>2, <2>4 DEF Mail!put, Back
      <3>2. n = Len(recent)
        BY <1>1, <2>4 DEF n
      <3>3. /\ order' \in Seq(CacheKeys) /\ Len(recent') = Len(recent) + 1
            /\ Ends(order', recent', Len(recent) + 1)
            /\ Range(order') = Range(order) \cup {key}
        BY <1>1, <1>3, <1>5, <2>1, <3>1, <3>2, GrowStep, SMTT(30)
      <3>4. m = Len(recent')
        BY <1>1, <1>7, <2>4, <3>2, <3>3 DEF m
      <3>5. DOMAIN map' = Range(order')
        BY <1>2, <1>4, <3>1, <3>3
      <3>6. m <= Len(recent') /\ Ends(order', recent', m)
        BY <1>7, <3>3, <3>4
      <3>7. Mail!CacheIsLru'
        BY <1>8, <3>3, <3>5, <3>6
      <3>8. QED
        BY <1>6, <3>7
    <2>5. QED
      BY <1>1, <2>3, <2>4
  <1>11. QED
    BY <1>6, <1>9, <1>10

LEMMA CacheStep ==
  ASSUME CacheInv, [Mail!Next]_(Mail!vars)
  PROVE  CacheInv'
  <1> DEFINE Calls(c) ==
        /\ DOMAIN c = Senders
        /\ \A s \in Senders :
             /\ c[s].at \in {"load", "store"} => c[s].email \in Emails
             /\ c[s].at = "store" => capacity > 0
  <1>1. Calls(mailing)
    BY DEF CacheInv
  <1>2. ASSUME NEW s \in Senders, NEW x, mailing' = [mailing EXCEPT ![s] = x],
               x.at \in {"load", "store"} => x.email \in Emails,
               x.at = "store" => capacity > 0
        PROVE  Calls(mailing')
    BY <1>1, <1>2
  <1>3. ASSUME UNCHANGED <<capacity, map, order, recent>>, Calls(mailing')
        PROVE  CacheInv'
    <2>1. Mail!CacheIsLru'
      BY <1>3 DEF CacheInv, Mail!CacheIsLru, Mail!Range
    <2>2. QED
      BY <1>3, <2>1 DEF CacheInv
  <1>4. ASSUME NEW s \in Senders, NEW email \in Emails, Mail!Send(s, email)
        PROVE  CacheInv'
    <2> DEFINE key == <<email.template, Mail!Locale(email)>>
    <2>1. key \in CacheKeys /\ UNCHANGED capacity
      BY <1>4 DEF CacheKeys, Mail!Send
    <2>2. CASE capacity > 0 /\ key \in DOMAIN map /\ Mail!get(key) /\ Mail!Used(key)
               /\ Mail!Goes(s, "render", email, map[key])
      <3>1. Calls(mailing')
        <4> DEFINE x == [at |-> "render", email |-> email, template |-> map[key]]
        <4>1. mailing' = [mailing EXCEPT ![s] = x] /\ x.at = "render"
          BY <2>2 DEF Mail!Goes
        <4>2. QED
          BY <1>2, <4>1
      <3> HIDE DEF key
      <3>2. /\ recent' \in Seq(CacheKeys)
            /\ \A i, j \in 1 .. Len(recent') : recent'[i] = recent'[j] => i = j
            /\ Mail!CacheIsLru'
        BY <2>1, <2>2, UsedStep
      <3>3. QED
        BY <2>1, <3>1, <3>2 DEF CacheInv
    <2>3. CASE Mail!Goes(s, "load", email, None) /\ UNCHANGED <<map, order, recent>>
      <3> DEFINE x == [at |-> "load", email |-> email, template |-> None]
      <3>1. mailing' = [mailing EXCEPT ![s] = x] /\ x.at = "load" /\ x.email \in Emails
        BY <2>3 DEF Mail!Goes
      <3>2. Calls(mailing')
        BY <1>2, <3>1
      <3>3. QED
        BY <1>3, <2>1, <2>3, <3>2
    <2>4. QED
      BY <1>4, <2>2, <2>3 DEF Mail!Send
  <1>5. ASSUME NEW s \in Senders, Mail!Load(s)
        PROVE  CacheInv'
    <2>1. PICK x : /\ mailing' = [mailing EXCEPT ![s] = x]
                   /\ x.at \in {"load", "store"} => x.email \in Emails
                   /\ x.at = "store" => capacity > 0
      <3> DEFINE template == Mail!load(templates, mailing[s].email.template, Mail!Locale(mailing[s].email))
      <3>1. mailing[s].email \in Emails
        BY <1>1, <1>5 DEF Mail!Load
      <3> HIDE DEF template
      <3>2. CASE Mail!Fails(s)
        <4>1. mailing' = [mailing EXCEPT ![s] = Mail!Idle] /\ Mail!Idle.at = "idle"
          BY <3>2 DEF Mail!Fails, Mail!Idle
        <4>2. QED
          BY <4>1
      <3>3. CASE Mail!Goes(s, IF capacity > 0 THEN "store" ELSE "render", mailing[s].email, template)
        <4> DEFINE x == [at |-> IF capacity > 0 THEN "store" ELSE "render",
                         email |-> mailing[s].email, template |-> template]
        <4>1. /\ mailing' = [mailing EXCEPT ![s] = x] /\ x.email \in Emails
              /\ x.at = "store" => capacity > 0
          BY <3>1, <3>3 DEF Mail!Goes
        <4> HIDE DEF x
        <4>2. QED
          BY <4>1
      <3>4. QED
        BY <1>5, <3>2, <3>3 DEF Mail!Load, template
    <2>2. UNCHANGED <<capacity, map, order, recent>>
      BY <1>5 DEF Mail!Load
    <2>3. QED
      BY <1>2, <1>3, <2>1, <2>2
  <1>6. ASSUME NEW s \in Senders, Mail!Store(s)
        PROVE  CacheInv'
    <2> DEFINE email == mailing[s].email
               key == <<email.template, Mail!Locale(email)>>
    <2>1. email \in Emails /\ capacity > 0 /\ UNCHANGED capacity
      BY <1>1, <1>6 DEF Mail!Store
    <2>2. key \in CacheKeys
      BY <2>1 DEF CacheKeys
    <2>3. Mail!put(key, mailing[s].template) /\ Mail!Used(key)
      BY <1>6 DEF Mail!Store
    <2>4. Calls(mailing')
      <3> DEFINE x == [at |-> "render", email |-> email, template |-> mailing[s].template]
      <3>1. mailing' = [mailing EXCEPT ![s] = x] /\ x.at = "render"
        BY <1>6 DEF Mail!Store, Mail!Goes
      <3>2. QED
        BY <1>2, <3>1
    <2> HIDE DEF key
    <2>5. /\ recent' \in Seq(CacheKeys)
          /\ \A i, j \in 1 .. Len(recent') : recent'[i] = recent'[j] => i = j
          /\ Mail!CacheIsLru'
      BY <2>1, <2>2, <2>3, UsedStep
    <2>6. QED
      BY <2>1, <2>4, <2>5 DEF CacheInv
  <1>7. ASSUME NEW s \in Senders, Mail!Deliver(s)
        PROVE  CacheInv'
    <2>1. mailing' = [mailing EXCEPT ![s] = Mail!Idle] /\ Mail!Idle.at = "idle"
          /\ UNCHANGED <<capacity, map, order, recent>>
      BY <1>7 DEF Mail!Deliver, Mail!Fails, Mail!Idle
    <2>2. QED
      BY <1>2, <1>3, <2>1
  <1>8. CASE Mail!Edit
    BY <1>1, <1>3, <1>8 DEF Mail!Edit
  <1>9. CASE UNCHANGED Mail!vars
    BY <1>1, <1>3, <1>9 DEF Mail!vars
  <1>10. QED
    BY <1>4, <1>5, <1>6, <1>7, <1>8, <1>9 DEF Mail!Next

(* The cache of templates holds the keys used last, each once and in that  *)
(* order, for every capacity, set of templates and number of threads.      *)
THEOREM TemplateCacheIsLru == Mail!Spec => []CacheIsLru
  <1>1. Mail!Init => CacheInv
    <2> SUFFICES ASSUME Mail!Init
                 PROVE  CacheInv
      OBVIOUS
    <2>1. capacity \in Nat
      <3>1. PICK config \in Configs : capacity = Mail!new(config)
        BY DEF Mail!Init
      <3>2. QED
        BY <3>1, ServicesAssumption DEF Mail!new
    <2>2. recent = <<>> /\ order = <<>> /\ map = <<>>
          /\ Len(recent) = 0 /\ recent \in Seq(CacheKeys)
      BY EmptySeq DEF Mail!Init
    <2>3. Mail!CacheIsLru
      <3> DEFINE n == IF Len(recent) < capacity THEN Len(recent) ELSE capacity
      <3>1. n = 0 /\ Len(recent) - n + 1 = 1
        BY <2>1, <2>2
      <3>2. SubSeq(recent, 1, 0) = <<>>
        BY SubSeqEmpty
      <3>3. DOMAIN map = Mail!Range(order)
        BY <2>2 DEF Mail!Range
      <3>4. QED
        BY <2>2, <3>1, <3>2, <3>3 DEF Mail!CacheIsLru
    <2>4. DOMAIN mailing = Senders /\ \A s \in Senders : mailing[s].at = "idle"
      BY DEF Mail!Init, Mail!Idle
    <2>5. QED
      BY <2>1, <2>2, <2>3, <2>4 DEF CacheInv
  <1>2. CacheInv /\ [Mail!Next]_(Mail!vars) => CacheInv'
    BY CacheStep
  <1>3. CacheInv => CacheIsLru
    BY DEF CacheInv, CacheIsLru
  <1>4. QED
    BY <1>1, <1>2, <1>3, PTL DEF Mail!Spec

-----------------------------------------------------------------------------
(* What a mail says. *)

(* A set of numbers has a least one: the induction of these proofs. *)
LEMMA LeastNat ==
  ASSUME NEW T, T \subseteq Nat, T # {}
  PROVE  \E x \in T : \A y \in T : x <= y
  <1> DEFINE R == OpToRel(<, Nat)
  <1>1. IsWellFoundedOn(R, Nat)
    BY NatLessThanWellFounded
  <1>2. \A x, y \in Nat : <<y, x>> \in R <=> y < x
    BY DEF OpToRel
  <1> HIDE DEF R
  <1>3. PICK x \in T : \A y \in T : ~ (<<y, x>> \in R)
    BY <1>1, WFMin
  <1>4. ASSUME NEW y \in T PROVE x <= y
    <2>1. x \in Nat /\ y \in Nat /\ ~(y < x)
      BY <1>2, <1>3
    <2>2. QED BY <2>1
  <1>5. QED
    BY <1>4

(* The number before the least of a set that does not have 0 is not in it. *)
LEMMA LeastOf ==
  ASSUME NEW T, T \subseteq Nat, T # {}, 0 \notin T
  PROVE  \E x \in T : x \in Nat /\ x # 0 /\ x - 1 \in Nat /\ x - 1 \notin T
  <1>1. PICK x \in T : \A y \in T : x <= y
    BY LeastNat
  <1>2. x \in Nat /\ x # 0
    OBVIOUS
  <1>3. x - 1 \in Nat /\ ~(x <= x - 1)
    BY <1>2
  <1>4. QED
    BY <1>1, <1>2, <1>3

IsFlat(f, seqs) ==
  f = [i \in 1 .. Len(seqs) |-> IF i = 1 THEN seqs[i] ELSE f[i - 1] \o seqs[i]]

LEMMA FlatExists ==
  ASSUME NEW seqs, Len(seqs) \in Nat
  PROVE  \E f : IsFlat(f, seqs)
  <1> DEFINE Good(n, g) ==
               g = [i \in 1 .. n |-> IF i = 1 THEN seqs[i] ELSE g[i - 1] \o seqs[i]]
             B == {n \in Nat : ~ \E g : Good(n, g)}
  <1>1. B = {}
    <2> SUFFICES ASSUME B # {} PROVE FALSE
      OBVIOUS
    <2>1. 0 \notin B
      <3>1. Good(0, [i \in 1 .. 0 |-> 0])
        OBVIOUS
      <3>2. QED
        BY <3>1
    <2>2. PICK x \in B : x \in Nat /\ x # 0 /\ x - 1 \in Nat /\ x - 1 \notin B
      BY <2>1, LeastOf
    <2>3. PICK g : Good(x - 1, g)
      BY <2>2
    <2> DEFINE h == [i \in 1 .. x |-> IF i = x THEN IF x = 1 THEN seqs[x] ELSE g[x - 1] \o seqs[x]
                                      ELSE g[i]]
    <2>4. \A i \in 1 .. x - 1 :
            h[i] = g[i] /\ g[i] = IF i = 1 THEN seqs[i] ELSE g[i - 1] \o seqs[i]
      <3>1. \A i \in 1 .. x - 1 : g[i] = IF i = 1 THEN seqs[i] ELSE g[i - 1] \o seqs[i]
        BY <2>3
      <3>2. \A i \in 1 .. x - 1 : h[i] = g[i]
        BY <2>2
      <3>3. QED
        BY <3>1, <3>2
    <2>5. ASSUME NEW i \in 1 .. x
          PROVE  h[i] = IF i = 1 THEN seqs[i] ELSE h[i - 1] \o seqs[i]
      <3>1. CASE i = x
        BY <2>2, <2>4, <3>1
      <3>2. CASE i # x
        <4>1. i \in 1 .. x - 1 /\ (i # 1 => i - 1 \in 1 .. x - 1)
          BY <2>2, <3>2
        <4>2. QED
          BY <2>4, <4>1
      <3>3. QED
        BY <3>1, <3>2
    <2>6. Good(x, h)
      BY <2>5
    <2>7. QED
      BY <2>6
  <1>2. QED
    BY <1>1 DEF IsFlat

(* The sequences in front of each place, put together. *)
Joined(F, S, seqs) ==
  /\ F \in [0 .. Len(seqs) -> Seq(S)]
  /\ Len(F[0]) = 0
  /\ \A k \in 1 .. Len(seqs) : F[k] = F[k - 1] \o seqs[k]

LEMMA FlattenIs ==
  ASSUME NEW S, NEW seqs \in Seq(Seq(S))
  PROVE  \E F : Joined(F, S, seqs) /\ Mail!FlattenSeq(seqs) = F[Len(seqs)]
  <1> DEFINE w == CHOOSE f : IsFlat(f, seqs)
  <1>0. Len(seqs) \in Nat /\ \A k \in 1 .. Len(seqs) : seqs[k] \in Seq(S)
    OBVIOUS
  <1>e. PICK e : e = <<>>
    OBVIOUS
  <1>f. e \in Seq(S) /\ Len(e) = 0 /\ \A s \in Seq(S) : e \o s = s
    BY <1>e, ConcatEmptySeq
  <1> DEFINE F == [k \in 0 .. Len(seqs) |-> IF k = 0 THEN e ELSE w[k]]
  <1>1. IsFlat(w, seqs)
    BY <1>0, FlatExists
  <1>2. Mail!FlattenSeq(seqs) = IF Len(seqs) = 0 THEN seqs ELSE w[Len(seqs)]
    BY Zenon DEF Mail!FlattenSeq, IsFlat
  <1> HIDE DEF w
  <1>3. \A k \in 1 .. Len(seqs) : w[k] = IF k = 1 THEN seqs[k] ELSE w[k - 1] \o seqs[k]
    BY <1>1 DEF IsFlat
  <1>4. Mail!FlattenSeq(seqs) = F[Len(seqs)]
    <2>1. CASE Len(seqs) = 0
      <3>1. seqs = <<>>
        BY <2>1
      <3>2. QED
        BY <1>2, <1>e, <2>1, <3>1
    <2>2. CASE Len(seqs) # 0
      BY <1>0, <1>2, <2>2
    <2>3. QED
      BY <2>1, <2>2
  <1>5. F[0] = e
    BY <1>0
  <1>6. ASSUME NEW k \in 1 .. Len(seqs)
        PROVE  F[k] = F[k - 1] \o seqs[k]
    <2>1. F[k] = w[k] /\ k \in Nat
      BY <1>0
    <2>2. CASE k = 1
      <3>1. e \o seqs[1] = seqs[1] /\ k - 1 = 0
        BY <1>0, <1>f, <2>2
      <3>2. QED
        BY <1>3, <1>5, <2>1, <2>2, <3>1
    <2>3. CASE k # 1
      <3>1. F[k - 1] = w[k - 1]
        BY <1>0, <2>3
      <3>2. QED
        BY <1>3, <2>1, <2>3, <3>1
    <2>4. QED
      BY <2>2, <2>3
  <1>7. DOMAIN F = 0 .. Len(seqs) /\ F = [k \in 0 .. Len(seqs) |-> F[k]]
    OBVIOUS
  <1> HIDE DEF F
  <1> DEFINE B == {k \in 0 .. Len(seqs) : F[k] \notin Seq(S)}
  <1>8. B = {}
    <2> SUFFICES ASSUME B # {} PROVE FALSE
      OBVIOUS
    <2>1. 0 \notin B /\ B \subseteq Nat
      <3>1. F[0] \in Seq(S)
        BY <1>5, <1>f
      <3>2. QED
        BY <1>0, <3>1
    <2>2. PICK x \in B : x \in Nat /\ x # 0 /\ x - 1 \in Nat /\ x - 1 \notin B
      BY <2>1, LeastOf
    <2>3. x \in 1 .. Len(seqs) /\ x - 1 \in 0 .. Len(seqs)
      BY <1>0, <2>2
    <2>4. F[x - 1] \in Seq(S) /\ seqs[x] \in Seq(S)
      BY <1>0, <2>2, <2>3
    <2>5. F[x] \in Seq(S)
      BY <1>6, <2>3, <2>4, ConcatProperties
    <2>6. QED
      BY <2>5
  <1>9. Joined(F, S, seqs)
    BY <1>5, <1>f, <1>6, <1>7, <1>8 DEF Joined
  <1>10. QED
    BY <1>4, <1>9

LEMMA ConcatIs ==
  ASSUME NEW S, NEW a \in Seq(S), NEW b \in Seq(S)
  PROVE  /\ Len(a) \in Nat /\ Len(b) \in Nat /\ Len(a \o b) = Len(a) + Len(b)
         /\ \A i \in 1 .. Len(a) : (a \o b)[i] = a[i]
         /\ \A j \in 1 .. Len(b) : (a \o b)[Len(a) + j] = b[j]
  OBVIOUS

(* c is a and then b. *)
Follows(a, b, c) ==
  /\ Len(a) \in Nat /\ Len(b) \in Nat /\ Len(c) \in Nat
  /\ Len(c) = Len(a) + Len(b)
  /\ \A i \in 1 .. Len(a) : c[i] = a[i]
  /\ \A j \in 1 .. Len(b) : c[Len(a) + j] = b[j]

LEMMA JoinedStep ==
  ASSUME NEW S, NEW seqs \in Seq(Seq(S)), NEW F, Joined(F, S, seqs), NEW k \in 1 .. Len(seqs)
  PROVE  Follows(F[k - 1], seqs[k], F[k])
  <1>1. PICK a, b, c : a = F[k - 1] /\ b = seqs[k] /\ c = F[k]
    OBVIOUS
  <1>2. Len(seqs) \in Nat /\ k - 1 \in 0 .. Len(seqs)
    OBVIOUS
  <1>3. a \in Seq(S)
    BY <1>1, <1>2 DEF Joined
  <1>4. b \in Seq(S)
    BY <1>1
  <1>5. c = a \o b
    BY <1>1 DEF Joined
  <1>6. /\ Len(a) \in Nat /\ Len(b) \in Nat /\ Len(c) = Len(a) + Len(b)
        /\ \A i \in 1 .. Len(a) : c[i] = a[i]
        /\ \A j \in 1 .. Len(b) : c[Len(a) + j] = b[j]
    BY <1>3, <1>4, <1>5, ConcatIs
  <1>7. Len(c) \in Nat
    BY <1>6
  <1>8. Follows(a, b, c)
    BY <1>6, <1>7 DEF Follows
  <1>9. QED
    BY <1>1, <1>8, Zenon

(* A sequence in front is the beginning of the whole. *)
LEMMA JoinedBefore ==
  ASSUME NEW S, NEW seqs \in Seq(Seq(S)), NEW F, Joined(F, S, seqs), NEW k \in 0 .. Len(seqs)
  PROVE  \A m \in k .. Len(seqs) :
           Len(F[k]) <= Len(F[m]) /\ \A i \in 1 .. Len(F[k]) : F[m][i] = F[k][i]
  <1> DEFINE N == Len(seqs)
             P(m) == Len(F[k]) <= Len(F[m]) /\ \A i \in 1 .. Len(F[k]) : F[m][i] = F[k][i]
             B == {d \in 0 .. N - k : ~P(k + d)}
  <1>0. N \in Nat /\ k \in Nat /\ k <= N /\ \A m \in 1 .. N : seqs[m] \in Seq(S)
    OBVIOUS
  <1>1. \A m \in 0 .. N : F[m] \in Seq(S) /\ Len(F[m]) \in Nat
    <2>1. F \in [0 .. N -> Seq(S)]
      BY DEF Joined
    <2>2. \A s \in Seq(S) : Len(s) \in Nat
      BY LenProperties
    <2>3. QED
      BY <2>1, <2>2
  <1>2. \A m \in 1 .. N : F[m] = F[m - 1] \o seqs[m]
    BY DEF Joined
  <1> HIDE DEF N
  <1>3. B = {}
    <2> SUFFICES ASSUME B # {} PROVE FALSE
      OBVIOUS
    <2>1. B \subseteq Nat
      BY <1>0
    <2>2. 0 \notin B
      <3>1. P(k)
        BY <1>0, <1>1
      <3>2. k + 0 = k
        BY <1>0
      <3>3. QED
        BY <3>1, <3>2
    <2>3. PICK d \in B : d \in Nat /\ d # 0 /\ d - 1 \in Nat /\ d - 1 \notin B
      BY <2>1, <2>2, LeastOf
    <2>4. PICK m : m = k + d
      OBVIOUS
    <2>5. m \in 1 .. N /\ m - 1 \in 0 .. N /\ m - 1 = k + (d - 1) /\ d - 1 \in 0 .. N - k
      BY <1>0, <2>3, <2>4
    <2>6. P(m - 1)
      BY <2>3, <2>5
    <2>7. m \in 1 .. Len(seqs)
      BY <2>5 DEF N
    <2>8. /\ Len(F[m - 1]) \in Nat /\ Len(seqs[m]) \in Nat /\ Len(F[m]) \in Nat
          /\ Len(F[m]) = Len(F[m - 1]) + Len(seqs[m])
          /\ \A i \in 1 .. Len(F[m - 1]) : F[m][i] = F[m - 1][i]
      <3>1. Follows(F[m - 1], seqs[m], F[m])
        BY <2>7, JoinedStep
      <3>2. QED
        BY <3>1 DEF Follows
    <2>9. P(m)
      <3>1. PICK x, y, z : x = Len(F[k]) /\ y = Len(F[m - 1]) /\ z = Len(F[m])
        OBVIOUS
      <3>2. x \in Nat /\ y \in Nat /\ z \in Nat /\ y <= z /\ x <= y
        <4>1. k \in 0 .. N
          BY <1>0
        <4>2. Len(F[k]) \in Nat
          BY <1>1, <4>1
        <4>3. x \in Nat /\ y \in Nat /\ z \in Nat
          BY <2>8, <3>1, <4>2, Zenon
        <4>4. PICK v : v = Len(seqs[m])
          OBVIOUS
        <4>5. v \in Nat /\ z = y + v
          BY <2>8, <3>1, <4>4, Zenon
        <4>6. x <= y
          BY <2>6, <3>1
        <4>7. QED
          BY <4>3, <4>5, <4>6
      <3>3. x <= z /\ \A i \in 1 .. x : i \in 1 .. y
        BY <3>2
      <3>4. ASSUME NEW i \in 1 .. x
            PROVE  F[m][i] = F[k][i]
        <4>1. F[m - 1][i] = F[k][i]
          BY <2>6, <3>1
        <4>2. F[m][i] = F[m - 1][i]
          BY <2>8, <3>1, <3>3
        <4>3. QED
          BY <4>1, <4>2
      <3>5. QED
        BY <3>1, <3>3, <3>4
    <2>10. QED
      BY <2>4, <2>9
  <1>4. ASSUME NEW m \in k .. Len(seqs)
        PROVE  P(m)
    <2>1. m - k \in 0 .. N - k /\ k + (m - k) = m
      BY <1>0 DEF N
    <2>2. QED
      BY <1>3, <2>1
  <1>5. QED
    BY <1>4

(* Where an element of the whole comes from. *)
Placed(F, seqs) ==
  /\ \A k \in 1 .. Len(seqs) : \A j \in 1 .. Len(seqs[k]) :
       /\ Len(F[k - 1]) + j \in 1 .. Len(F[Len(seqs)])
       /\ F[Len(seqs)][Len(F[k - 1]) + j] = seqs[k][j]
  /\ \A i \in 1 .. Len(F[Len(seqs)]) :
       \E k \in 1 .. Len(seqs) : \E j \in 1 .. Len(seqs[k]) : i = Len(F[k - 1]) + j

LEMMA JoinedAt ==
  ASSUME NEW S, NEW seqs \in Seq(Seq(S)), NEW F, Joined(F, S, seqs)
  PROVE  Placed(F, seqs)
  <1>0. PICK N : N = Len(seqs)
    OBVIOUS
  <1>n. N \in Nat
    BY <1>0
  <1>1. \A m \in 0 .. N : Len(F[m]) \in Nat
    <2> TAKE m \in 0 .. N
    <2>1. F[m] \in Seq(S)
      BY <1>0 DEF Joined
    <2>2. QED
      BY <2>1, LenProperties
  <1>3. ASSUME NEW k \in 1 .. N
        PROVE  /\ Len(F[k]) = Len(F[k - 1]) + Len(seqs[k])
               /\ Len(F[k - 1]) \in Nat /\ Len(seqs[k]) \in Nat /\ Len(F[k]) \in Nat
               /\ \A j \in 1 .. Len(seqs[k]) : F[k][Len(F[k - 1]) + j] = seqs[k][j]
    <2>1. Follows(F[k - 1], seqs[k], F[k])
      BY <1>0, JoinedStep
    <2>2. QED
      BY <2>1 DEF Follows
  <1>4. ASSUME NEW k \in 1 .. N, NEW j \in 1 .. Len(seqs[k])
        PROVE  /\ Len(F[k - 1]) + j \in 1 .. Len(F[N])
               /\ F[N][Len(F[k - 1]) + j] = seqs[k][j]
    <2>1. Len(F[k]) <= Len(F[N]) /\ \A i \in 1 .. Len(F[k]) : F[N][i] = F[k][i]
      <3>1. k \in 0 .. Len(seqs) /\ N \in k .. Len(seqs)
        BY <1>0, <1>n
      <3>2. QED
        BY <3>1, JoinedBefore
    <2>2. PICK x, y, z, w : x = Len(F[k - 1]) /\ y = Len(seqs[k]) /\ z = Len(F[k]) /\ w = Len(F[N])
      OBVIOUS
    <2>3. x \in Nat /\ y \in Nat /\ z = x + y
      BY <1>3, <2>2, Zenon
    <2>l. w \in Nat /\ z <= w
      <3>1. N \in 0 .. N
        BY <1>n
      <3>2. QED
        BY <1>1, <2>1, <2>2, <3>1
    <2>j. j \in 1 .. y
      BY <2>2
    <2>4. x + j \in 1 .. z /\ x + j \in 1 .. w
      BY <2>3, <2>l, <2>j
    <2>5. F[k][x + j] = seqs[k][j]
      BY <1>3, <2>2
    <2>6. F[N][x + j] = F[k][x + j]
      BY <2>1, <2>2, <2>4
    <2>7. QED
      BY <2>2, <2>4, <2>5, <2>6
  <1>5. ASSUME NEW i \in 1 .. Len(F[N])
        PROVE  \E k \in 1 .. N : \E j \in 1 .. Len(seqs[k]) : i = Len(F[k - 1]) + j
    <2> DEFINE B == {k \in 0 .. N : i <= Len(F[k])}
    <2>i. i \in Nat /\ i > 0 /\ i <= Len(F[N])
      BY <1>1, <1>n
    <2>1. B \subseteq Nat /\ N \in B
      BY <1>n, <2>i
    <2>2. 0 \notin B
      BY <2>i DEF Joined
    <2>3. PICK k \in B : k \in Nat /\ k # 0 /\ k - 1 \in Nat /\ k - 1 \notin B
      BY <2>1, <2>2, LeastOf
    <2>4. k \in 1 .. N /\ k - 1 \in 0 .. N
      BY <1>n, <2>3
    <2>5. /\ i <= Len(F[k]) /\ ~(i <= Len(F[k - 1]))
      BY <2>3, <2>4
    <2>6. PICK x, y, z : x = Len(F[k - 1]) /\ y = Len(seqs[k]) /\ z = Len(F[k])
      OBVIOUS
    <2>7. x \in Nat /\ y \in Nat /\ z = x + y /\ i <= z /\ ~(i <= x)
      BY <1>3, <2>4, <2>5, <2>6
    <2>8. i - x \in 1 .. y /\ i = x + (i - x)
      BY <2>i, <2>7
    <2>9. QED
      BY <2>4, <2>6, <2>8
  <1>6. QED
    BY <1>0, <1>4, <1>5 DEF Placed

(* Sequences that are as long, each as its own, are as long together. *)
LEMMA SameLengths ==
  ASSUME NEW S, NEW T, NEW a \in Seq(Seq(S)), NEW b \in Seq(Seq(T)), Len(a) = Len(b),
         \A k \in 1 .. Len(a) : Len(a[k]) = Len(b[k]),
         NEW F, Joined(F, S, a), NEW G, Joined(G, T, b)
  PROVE  \A k \in 0 .. Len(a) : Len(F[k]) = Len(G[k])
  <1>0. PICK N : N = Len(a)
    OBVIOUS
  <1>n. N \in Nat /\ N = Len(b)
    BY <1>0
  <1> DEFINE B == {k \in 0 .. N : Len(F[k]) # Len(G[k])}
  <1>1. B \subseteq Nat
    BY <1>n
  <1>2. 0 \notin B
    BY DEF Joined
  <1>3. B = {}
    <2> SUFFICES ASSUME B # {} PROVE FALSE
      OBVIOUS
    <2>1. PICK k \in B : k \in Nat /\ k # 0 /\ k - 1 \in Nat /\ k - 1 \notin B
      BY <1>1, <1>2, LeastOf
    <2>2. k \in 1 .. N /\ k - 1 \in 0 .. N
      BY <1>n, <2>1
    <2>3. Follows(F[k - 1], a[k], F[k])
      BY <1>0, <2>2, JoinedStep
    <2>4. Follows(G[k - 1], b[k], G[k])
      BY <1>n, <2>2, JoinedStep
    <2>5. Len(F[k - 1]) = Len(G[k - 1])
      BY <2>1, <2>2
    <2>6. Len(a[k]) = Len(b[k])
      BY <1>0, <2>2
    <2>7. Len(F[k]) = Len(F[k - 1]) + Len(a[k])
      BY <2>3 DEF Follows
    <2>8. Len(G[k]) = Len(G[k - 1]) + Len(b[k])
      BY <2>4 DEF Follows
    <2>9. QED
      BY <2>1, <2>5, <2>6, <2>7, <2>8
  <1>4. QED
    BY <1>0, <1>3

(***************************************************************************)
(* The scan for codes.                                                     *)
(***************************************************************************)
LineStart(ctx, mark) == [ctx |-> ctx, mark |-> mark, at_line_start |-> TRUE]
MidLine(ctx, mark) == [ctx |-> ctx, mark |-> mark, at_line_start |-> FALSE]

(* In the rest of a line that is copied. *)
LEMMA ScanLine ==
  ASSUME NEW mark, NEW token, NEW next, NEW s, s \in {LineStart("line", mark), MidLine("line", mark)}
  PROVE  /\ token = "nl" => Mail!ScanToken(s, token, next) = LineStart(mark, mark)
         /\ token # "nl" => Mail!ScanToken(s, token, next) = MidLine("line", mark)
  <1>1. CASE s = LineStart("line", mark)
    BY <1>1 DEF Mail!ScanToken, LineStart, MidLine
  <1>2. CASE s = MidLine("line", mark)
    BY <1>2 DEF Mail!ScanToken, LineStart, MidLine
  <1>3. QED
    BY <1>1, <1>2

(* In text. *)
LEMMA ScanText ==
  ASSUME NEW mark, NEW token, NEW next, NEW s, s \in {LineStart("text", mark), MidLine("text", mark)}
  PROVE  /\ token = "ticks3" /\ s = LineStart("text", mark) =>
              Mail!ScanToken(s, token, next) = LineStart("line", "fence")
         /\ token = "nl" => Mail!ScanToken(s, token, next) = LineStart("text", mark)
         /\ token \in {"tick", "ticks2"} => Mail!ScanToken(s, token, next) = MidLine("span", token)
         /\ token \notin {"tick", "ticks2", "ticks3", "nl"} =>
              Mail!ScanToken(s, token, next) = MidLine("text", mark)
  <1>1. CASE s = LineStart("text", mark)
    BY <1>1 DEF Mail!ScanToken, LineStart, MidLine, Mail!Ticks
  <1>2. CASE s = MidLine("text", mark)
    BY <1>2 DEF Mail!ScanToken, LineStart, MidLine, Mail!Ticks
  <1>3. QED
    BY <1>1, <1>2

(* In a code span. *)
LEMMA ScanSpan ==
  ASSUME NEW mark, NEW token, NEW next, NEW s, s = MidLine("span", mark)
  PROVE  /\ token = mark => Mail!ScanToken(s, token, next) = MidLine("text", mark)
         /\ token # mark /\ token # "nl" => Mail!ScanToken(s, token, next) = s
  BY DEF Mail!ScanToken, MidLine, Mail!Ticks, Mail!Closes

(* In a fenced block. *)
LEMMA ScanFence ==
  ASSUME NEW mark, NEW token, NEW next, NEW s, s \in {LineStart("fence", mark), MidLine("fence", mark)}
  PROVE  /\ token = "nl" => Mail!ScanToken(s, token, next) = LineStart("fence", mark)
         /\ token \notin {"nl", "ticks3"} => Mail!ScanToken(s, token, next) = MidLine("fence", mark)
         /\ token = "ticks3" /\ next = "nl" /\ s = LineStart("fence", mark) =>
              Mail!ScanToken(s, token, next) = LineStart("line", "text")
  <1>1. CASE s = LineStart("fence", mark)
    BY <1>1 DEF Mail!ScanToken, LineStart, MidLine
  <1>2. CASE s = MidLine("fence", mark)
    BY <1>2 DEF Mail!ScanToken, LineStart, MidLine
  <1>3. QED
    BY <1>1, <1>2

(* Where the scan is. *)
LEMMA ContextIs ==
  \A ctx, mark : LineStart(ctx, mark).ctx = ctx /\ MidLine(ctx, mark).ctx = ctx
  BY DEF LineStart, MidLine

IsScan(f, tokens) ==
  f = [i \in 0 .. Len(tokens) |->
         IF i = 0 THEN [ctx |-> "text", mark |-> "text", at_line_start |-> TRUE]
         ELSE Mail!ScanToken(f[i - 1], tokens[i], IF i < Len(tokens) THEN tokens[i + 1] ELSE "nl")]

LEMMA ScanExists ==
  ASSUME NEW tokens, Len(tokens) \in Nat
  PROVE  \E f : IsScan(f, tokens)
  <1> DEFINE start == [ctx |-> "text", mark |-> "text", at_line_start |-> TRUE]
             step(s, i) == Mail!ScanToken(s, tokens[i], IF i < Len(tokens) THEN tokens[i + 1] ELSE "nl")
             Good(n, g) == g = [i \in 0 .. n |-> IF i = 0 THEN start ELSE step(g[i - 1], i)]
             B == {n \in Nat : ~ \E g : Good(n, g)}
  <1> HIDE DEF start, step
  <1>1. B = {}
    <2> SUFFICES ASSUME B # {} PROVE FALSE
      OBVIOUS
    <2>1. 0 \notin B
      <3>1. Good(0, [i \in 0 .. 0 |-> start])
        OBVIOUS
      <3>2. QED
        BY <3>1
    <2>2. PICK x \in B : x \in Nat /\ x # 0 /\ x - 1 \in Nat /\ x - 1 \notin B
      BY <2>1, LeastOf
    <2>3. PICK g : Good(x - 1, g)
      BY <2>2
    <2> DEFINE h == [i \in 0 .. x |-> IF i = x THEN step(g[x - 1], x) ELSE g[i]]
    <2>4. \A i \in 0 .. x - 1 : h[i] = g[i] /\ g[i] = IF i = 0 THEN start ELSE step(g[i - 1], i)
      <3>1. \A i \in 0 .. x - 1 : g[i] = IF i = 0 THEN start ELSE step(g[i - 1], i)
        BY <2>3
      <3>2. \A i \in 0 .. x - 1 : h[i] = g[i]
        BY <2>2
      <3>3. QED
        BY <3>1, <3>2
    <2>5. ASSUME NEW i \in 0 .. x
          PROVE  h[i] = IF i = 0 THEN start ELSE step(h[i - 1], i)
      <3>1. CASE i = x
        BY <2>2, <2>4, <3>1
      <3>2. CASE i # x
        <4>1. i \in 0 .. x - 1 /\ (i # 0 => i - 1 \in 0 .. x - 1)
          BY <2>2, <3>2
        <4>2. QED
          BY <2>4, <4>1
      <3>3. QED
        BY <3>1, <3>2
    <2>6. Good(x, h)
      BY <2>5
    <2>7. QED
      BY <2>6
  <1>2. PICK g : Good(Len(tokens), g)
    BY <1>1
  <1>3. IsScan(g, tokens)
    BY <1>2 DEF IsScan, start, step
  <1>4. QED
    BY <1>3

(* What transform_otp does is decided by where the scan is. *)
LEMMA TransformIs ==
  ASSUME NEW tokens, NEW otp, Len(tokens) \in Nat
  PROVE  \E f : /\ IsScan(f, tokens)
                /\ Mail!transform_otp(tokens, otp) =
                     [i \in 1 .. Len(tokens) |->
                        IF tokens[i] = "otp" /\ f[i - 1].ctx = "text" THEN otp ELSE tokens[i]]
  <1> DEFINE w == CHOOSE f : IsScan(f, tokens)
  <1>1. IsScan(w, tokens)
    BY ScanExists
  <1>2. Mail!transform_otp(tokens, otp) =
          [i \in 1 .. Len(tokens) |->
             IF tokens[i] = "otp" /\ w[i - 1].ctx = "text" THEN otp ELSE tokens[i]]
    BY Zenon DEF Mail!transform_otp, IsScan
  <1>3. QED
    BY <1>1, <1>2

(* The steps of a scan. *)
LEMMA ScanSteps ==
  ASSUME NEW tokens, Len(tokens) \in Nat, NEW f, IsScan(f, tokens)
  PROVE  /\ f[0] = LineStart("text", "text")
         /\ \A i \in 1 .. Len(tokens) :
              f[i] = Mail!ScanToken(f[i - 1], tokens[i],
                                    IF i < Len(tokens) THEN tokens[i + 1] ELSE "nl")
  <1> DEFINE start == [ctx |-> "text", mark |-> "text", at_line_start |-> TRUE]
             step(s, i) == Mail!ScanToken(s, tokens[i], IF i < Len(tokens) THEN tokens[i + 1] ELSE "nl")
  <1>1. f = [i \in 0 .. Len(tokens) |-> IF i = 0 THEN start ELSE step(f[i - 1], i)]
    BY Zenon DEF IsScan
  <1>2. start = LineStart("text", "text")
    BY DEF LineStart
  <1> HIDE DEF start, step
  <1>3. f[0] = start /\ \A i \in 1 .. Len(tokens) : f[i] = step(f[i - 1], i)
    BY <1>1
  <1>4. QED
    BY <1>2, <1>3 DEF step

Words == {"text", "otp", "var", "esc", "bad"}
Kinds == {"line", "span", "span2", "fenced"}

(* A word of a block once the variables are replaced. *)
Filled(w, vars_) == IF w = "var" THEN IF "code" \in vars_ THEN "otp" ELSE "bad" ELSE w

LEMMA FilledIs ==
  ASSUME NEW w \in Words, NEW vars_
  PROVE  Filled(w, vars_) \in {"text", "otp", "esc", "bad"}
  BY DEF Words, Filled

(* The tokens of a block once the variables are replaced. *)
LEMMA FilledTokens ==
  ASSUME NEW b \in Kinds \X Words, NEW vars_, NEW u, u = Mail!substitute(Mail!Tokens(b), vars_),
         NEW w, w = Filled(b[2], vars_)
  PROVE  /\ b[1] = "line" => Len(u) = 2 /\ u[1] = w /\ u[2] = "nl"
         /\ b[1] = "span" => /\ Len(u) = 5 /\ u[1] = "text" /\ u[2] = "tick" /\ u[3] = w
                             /\ u[4] = "tick" /\ u[5] = "nl"
         /\ b[1] = "span2" => /\ Len(u) = 5 /\ u[1] = "ticks2" /\ u[2] = "tick" /\ u[3] = w
                              /\ u[4] = "ticks2" /\ u[5] = "nl"
         /\ b[1] = "fenced" => /\ Len(u) = 7 /\ u[1] = "ticks3" /\ u[2] = "text" /\ u[3] = "nl"
                               /\ u[4] = w /\ u[5] = "nl" /\ u[6] = "ticks3" /\ u[7] = "nl"
  <1> DEFINE sub(t) == Filled(t, vars_)
             T == Mail!Tokens(b)
  <1>1. u = [i \in DOMAIN T |-> sub(T[i])]
    BY DEF Mail!substitute, Filled
  <1>2. \A t : t # "var" => sub(t) = t
    BY DEF Filled
  <1>3. w = sub(b[2])
    OBVIOUS
  <1> HIDE DEF sub
  <1>4. CASE b[1] = "line"
    <2>1. T = <<b[2], "nl">>
      BY <1>4 DEF Mail!Tokens
    <2>2. QED
      BY <1>1, <1>2, <1>3, <1>4, <2>1
  <1>5. CASE b[1] = "span"
    <2>1. T = <<"text", "tick", b[2], "tick", "nl">>
      BY <1>5 DEF Mail!Tokens
    <2>2. QED
      BY <1>1, <1>2, <1>3, <1>5, <2>1
  <1>6. CASE b[1] = "span2"
    <2>1. T = <<"ticks2", "tick", b[2], "ticks2", "nl">>
      BY <1>6 DEF Mail!Tokens
    <2>2. QED
      BY <1>1, <1>2, <1>3, <1>6, <2>1
  <1>7. CASE b[1] = "fenced"
    <2>1. T = <<"ticks3", "text", "nl", b[2], "nl", "ticks3", "nl">>
      BY <1>7 DEF Mail!Tokens
    <2>2. QED
      BY <1>1, <1>2, <1>3, <1>7, <2>1
  <1>8. b[1] \in Kinds
    OBVIOUS
  <1>9. QED
    BY <1>4, <1>5, <1>6, <1>7, <1>8 DEF Kinds

(* What a block is to become, in terms of its word. *)
LEMMA RenderedIs ==
  ASSUME NEW b \in Kinds \X Words, NEW vars_, NEW otp, NEW w, w = Filled(b[2], vars_),
         NEW r, r = Mail!Rendered(b, vars_, otp)
  PROVE  /\ b[1] = "line" => Len(r) = 2 /\ r[1] = (IF w = "otp" THEN otp ELSE w) /\ r[2] = "nl"
         /\ b[1] # "line" => r = Mail!substitute(Mail!Tokens(b), vars_)
  <1>1. b[1] \in Kinds /\ b[2] \in Words /\ b = <<b[1], b[2]>>
    OBVIOUS
  <1>2. CASE b[1] # "line"
    <2>1. b # <<"line", "otp">> /\ b # <<"line", "var">>
      BY <1>2
    <2>2. QED
      BY <1>2, <2>1 DEF Mail!Rendered
  <1>3. CASE b[1] = "line"
    <2>0. b = <<"line", b[2]>>
      BY <1>1, <1>3
    <2>1. CASE w = "otp"
      <3>1. b = <<"line", "otp">> \/ (b = <<"line", "var">> /\ "code" \in vars_)
        <4>1. b[2] = "otp" \/ (b[2] = "var" /\ "code" \in vars_)
          BY <2>1 DEF Filled
        <4>2. QED
          BY <2>0, <4>1, Zenon
      <3>2. r = <<otp, "nl">>
        BY <3>1 DEF Mail!Rendered
      <3>3. QED
        BY <1>3, <2>1, <3>2
    <2>2. CASE w # "otp"
      <3>1. b # <<"line", "otp">> /\ ~(b = <<"line", "var">> /\ "code" \in vars_)
        <4>1. b[2] # "otp" /\ ~(b[2] = "var" /\ "code" \in vars_)
          BY <2>2 DEF Filled
        <4>2. QED
          BY <4>1
      <3>2. r = Mail!substitute(Mail!Tokens(b), vars_)
        BY <3>1 DEF Mail!Rendered
      <3>3. Len(r) = 2 /\ r[1] = w /\ r[2] = "nl"
        BY <1>3, <3>2, FilledTokens
      <3>4. QED
        BY <1>3, <2>2, <3>3
    <2>3. QED
      BY <2>1, <2>2
  <1>4. QED
    BY <1>2, <1>3

(* g goes through the tokens u, whatever comes after them. *)
Runs(g, u) ==
  \A j \in 1 .. Len(u) :
    \E next : /\ j < Len(u) => next = u[j + 1]
              /\ g[j] = Mail!ScanToken(g[j - 1], u[j], next)

(* What is written where the scan is at g for the token u[j]. *)
Put(g, u, otp, j) == IF u[j] = "otp" /\ g[j - 1].ctx = "text" THEN otp ELSE u[j]

(* The scan leaves a block in text at a line's start, where it was, and    *)
(* has written what the block is to become.                                *)
Done(g, u, r, otp) ==
  /\ Len(r) = Len(u)
  /\ \E mark : g[Len(u)] = LineStart("text", mark)
  /\ \A j \in 1 .. Len(u) : Put(g, u, otp, j) = r[j]

LEMMA RunStep ==
  ASSUME NEW g, NEW u, Runs(g, u), Len(u) \in Nat, NEW i \in Nat, NEW j, j = i + 1, j <= Len(u)
  PROVE  \E next : /\ j < Len(u) => next = u[j + 1]
                   /\ g[j] = Mail!ScanToken(g[i], u[j], next)
  <1>1. j \in 1 .. Len(u) /\ j - 1 = i
    OBVIOUS
  <1>2. QED
    BY <1>1 DEF Runs

LEMMA LineDone ==
  ASSUME NEW g, NEW u, NEW w, NEW mark, NEW r, NEW otp, Runs(g, u),
         g[0] = LineStart("text", mark), w \in {"text", "otp", "esc", "bad"},
         Len(u) = 2, u[1] = w, u[2] = "nl",
         Len(r) = 2, r[1] = (IF w = "otp" THEN otp ELSE w), r[2] = "nl"
  PROVE  Done(g, u, r, otp)
  <1>w. w \notin {"tick", "ticks2", "ticks3", "nl"}
    OBVIOUS
  <1>1. g[1] = MidLine("text", mark)
    <2>1. PICK next : g[1] = Mail!ScanToken(g[0], w, next)
      BY RunStep
    <2>2. QED
      BY <2>1, <1>w, ScanText
  <1>2. g[2] = LineStart("text", mark)
    <2>1. PICK next : g[2] = Mail!ScanToken(g[1], "nl", next)
      BY DEF Runs
    <2>2. QED
      BY <2>1, <1>1, ScanText
  <1>3. Put(g, u, otp, 1) = r[1] /\ Put(g, u, otp, 2) = r[2]
    BY ContextIs DEF Put
  <1>4. QED
    BY <1>2, <1>3 DEF Done

LEMMA SpanDone ==
  ASSUME NEW g, NEW u, NEW w, NEW mark, NEW otp, Runs(g, u),
         g[0] = LineStart("text", mark), w \in {"text", "otp", "esc", "bad"},
         Len(u) = 5, u[1] = "text", u[2] = "tick", u[3] = w, u[4] = "tick", u[5] = "nl"
  PROVE  Done(g, u, u, otp)
  <1>1. g[1] = MidLine("text", mark)
    <2>1. PICK next : g[1] = Mail!ScanToken(g[0], "text", next)
      BY RunStep
    <2>2. QED
      BY <2>1, ScanText
  <1>2. g[2] = MidLine("span", "tick")
    <2>1. PICK next : g[2] = Mail!ScanToken(g[1], "tick", next)
      BY DEF Runs
    <2>2. QED
      BY <1>1, <2>1, ScanText
  <1>3. g[3] = MidLine("span", "tick")
    <2>1. PICK next : g[3] = Mail!ScanToken(g[2], w, next)
      BY DEF Runs
    <2>2. QED
      BY <1>2, <2>1, ScanSpan
  <1>4. g[4] = MidLine("text", "tick")
    <2>1. PICK next : g[4] = Mail!ScanToken(g[3], "tick", next)
      BY DEF Runs
    <2>2. QED
      BY <1>3, <2>1, ScanSpan
  <1>5. g[5] = LineStart("text", "tick")
    <2>1. PICK next : g[5] = Mail!ScanToken(g[4], "nl", next)
      BY DEF Runs
    <2>2. QED
      BY <1>4, <2>1, ScanText
  <1>6. \A j \in 1 .. 5 : Put(g, u, otp, j) = u[j]
    <2>1. g[2].ctx = "span"
      BY <1>2, ContextIs
    <2>2. \A j \in 1 .. 5 : u[j] = "otp" => j = 3
      OBVIOUS
    <2>3. QED
      BY <2>1, <2>2 DEF Put
  <1>7. QED
    BY <1>5, <1>6 DEF Done

LEMMA Span2Done ==
  ASSUME NEW g, NEW u, NEW w, NEW mark, NEW otp, Runs(g, u),
         g[0] = LineStart("text", mark), w \in {"text", "otp", "esc", "bad"},
         Len(u) = 5, u[1] = "ticks2", u[2] = "tick", u[3] = w, u[4] = "ticks2", u[5] = "nl"
  PROVE  Done(g, u, u, otp)
  <1>1. g[1] = MidLine("span", "ticks2")
    <2>1. PICK next : g[1] = Mail!ScanToken(g[0], "ticks2", next)
      BY RunStep
    <2>2. QED
      BY <2>1, ScanText
  <1>2. g[2] = MidLine("span", "ticks2")
    <2>1. PICK next : g[2] = Mail!ScanToken(g[1], "tick", next)
      BY DEF Runs
    <2>2. QED
      BY <1>1, <2>1, ScanSpan
  <1>3. g[3] = MidLine("span", "ticks2")
    <2>1. PICK next : g[3] = Mail!ScanToken(g[2], w, next)
      BY DEF Runs
    <2>2. QED
      BY <1>2, <2>1, ScanSpan
  <1>4. g[4] = MidLine("text", "ticks2")
    <2>1. PICK next : g[4] = Mail!ScanToken(g[3], "ticks2", next)
      BY DEF Runs
    <2>2. QED
      BY <1>3, <2>1, ScanSpan
  <1>5. g[5] = LineStart("text", "ticks2")
    <2>1. PICK next : g[5] = Mail!ScanToken(g[4], "nl", next)
      BY DEF Runs
    <2>2. QED
      BY <1>4, <2>1, ScanText
  <1>6. \A j \in 1 .. 5 : Put(g, u, otp, j) = u[j]
    <2>1. g[2].ctx = "span"
      BY <1>2, ContextIs
    <2>2. \A j \in 1 .. 5 : u[j] = "otp" => j = 3
      OBVIOUS
    <2>3. QED
      BY <2>1, <2>2 DEF Put
  <1>7. QED
    BY <1>5, <1>6 DEF Done

LEMMA FencedDone ==
  ASSUME NEW g, NEW u, NEW w, NEW mark, NEW otp, Runs(g, u),
         g[0] = LineStart("text", mark), w \in {"text", "otp", "esc", "bad"},
         Len(u) = 7, u[1] = "ticks3", u[2] = "text", u[3] = "nl", u[4] = w, u[5] = "nl",
         u[6] = "ticks3", u[7] = "nl"
  PROVE  Done(g, u, u, otp)
  <1>1. g[1] = LineStart("line", "fence")
    <2>1. PICK next : g[1] = Mail!ScanToken(g[0], "ticks3", next)
      BY RunStep, SMTT(30)
    <2>2. QED
      BY <2>1, ScanText
  <1>2. g[2] = MidLine("line", "fence")
    <2>1. PICK next : g[2] = Mail!ScanToken(g[1], "text", next)
      BY DEF Runs
    <2>2. QED
      BY <1>1, <2>1, ScanLine
  <1>3. g[3] = LineStart("fence", "fence")
    <2>1. PICK next : g[3] = Mail!ScanToken(g[2], "nl", next)
      BY DEF Runs
    <2>2. QED
      BY <1>2, <2>1, ScanLine
  <1>4. g[4] = MidLine("fence", "fence")
    <2>1. PICK next : g[4] = Mail!ScanToken(g[3], w, next)
      BY DEF Runs
    <2>2. QED
      BY <1>3, <2>1, ScanFence
  <1>5. g[5] = LineStart("fence", "fence")
    <2>1. PICK next : g[5] = Mail!ScanToken(g[4], "nl", next)
      BY DEF Runs
    <2>2. QED
      BY <1>4, <2>1, ScanFence
  <1>6. g[6] = LineStart("line", "text")
    <2>1. PICK next : next = u[7] /\ g[6] = Mail!ScanToken(g[5], "ticks3", next)
      BY DEF Runs
    <2>2. QED
      BY <1>5, <2>1, ScanFence
  <1>7. g[7] = LineStart("text", "text")
    <2>1. PICK next : g[7] = Mail!ScanToken(g[6], "nl", next)
      BY DEF Runs
    <2>2. QED
      BY <1>6, <2>1, ScanLine
  <1>8. \A j \in 1 .. 7 : Put(g, u, otp, j) = u[j]
    <2>1. g[3].ctx = "fence"
      BY <1>3, ContextIs
    <2>2. \A j \in 1 .. 7 : u[j] = "otp" => j = 4
      OBVIOUS
    <2>3. QED
      BY <2>1, <2>2 DEF Put
  <1>9. QED
    BY <1>7, <1>8 DEF Done

(* Whatever the block. *)
LEMMA BlockDone ==
  ASSUME NEW b \in Kinds \X Words, NEW vars_, NEW otp, NEW u, NEW g, NEW mark,
         u = Mail!substitute(Mail!Tokens(b), vars_), Runs(g, u),
         g[0] = LineStart("text", mark)
  PROVE  Done(g, u, Mail!Rendered(b, vars_, otp), otp)
  <1>0. PICK w, r : w = Filled(b[2], vars_) /\ r = Mail!Rendered(b, vars_, otp)
    OBVIOUS
  <1>1. w \in {"text", "otp", "esc", "bad"}
    BY <1>0, FilledIs
  <1>2. CASE b[1] = "line"
    <2>1. Len(u) = 2 /\ u[1] = w /\ u[2] = "nl"
      BY <1>0, <1>2, FilledTokens
    <2>2. Len(r) = 2 /\ r[1] = (IF w = "otp" THEN otp ELSE w) /\ r[2] = "nl"
      BY <1>0, <1>2, RenderedIs
    <2>3. QED
      BY <1>0, <1>1, <2>1, <2>2, LineDone
  <1>3. CASE b[1] # "line"
    <2>1. r = u
      BY <1>0, <1>3, RenderedIs
    <2>2. b[1] \in Kinds
      OBVIOUS
    <2>3. CASE b[1] = "span"
      <3>1. Len(u) = 5 /\ u[1] = "text" /\ u[2] = "tick" /\ u[3] = w /\ u[4] = "tick" /\ u[5] = "nl"
        BY <1>0, <2>3, FilledTokens
      <3>2. QED
        BY <1>0, <1>1, <2>1, <3>1, SpanDone
    <2>4. CASE b[1] = "span2"
      <3>1. /\ Len(u) = 5 /\ u[1] = "ticks2" /\ u[2] = "tick" /\ u[3] = w /\ u[4] = "ticks2"
            /\ u[5] = "nl"
        BY <1>0, <2>4, FilledTokens
      <3>2. QED
        BY <1>0, <1>1, <2>1, <3>1, Span2Done
    <2>5. CASE b[1] = "fenced"
      <3>1. /\ Len(u) = 7 /\ u[1] = "ticks3" /\ u[2] = "text" /\ u[3] = "nl" /\ u[4] = w
            /\ u[5] = "nl" /\ u[6] = "ticks3" /\ u[7] = "nl"
        BY <1>0, <2>5, FilledTokens
      <3>2. QED
        BY <1>0, <1>1, <2>1, <3>1, FencedDone
    <2>6. QED
      BY <1>3, <2>2, <2>3, <2>4, <2>5 DEF Kinds
  <1>4. QED
    BY <1>2, <1>3

(* The token at place i of the message. *)
Shown(f, tokens, otp, i) == IF tokens[i] = "otp" /\ f[i - 1].ctx = "text" THEN otp ELSE tokens[i]

(* A block from place p on becomes what it is to become. *)
BlockShown(f, tokens, otp, p, u, r) ==
  /\ \E after : f[p + Len(u)] = LineStart("text", after)
  /\ \A j \in 1 .. Len(u) : Shown(f, tokens, otp, p + j) = r[j]

(* Somewhere among the tokens is a block, and a line starts there. *)
LEMMA ScanOfBlock ==
  ASSUME NEW tokens, Len(tokens) \in Nat, NEW f, IsScan(f, tokens), NEW p \in Nat,
         NEW b \in Kinds \X Words, NEW vars_, NEW otp, NEW u, Len(u) \in Nat,
         u = Mail!substitute(Mail!Tokens(b), vars_),
         \A j \in 1 .. Len(u) : p + j \in 1 .. Len(tokens) /\ tokens[p + j] = u[j],
         NEW mark, f[p] = LineStart("text", mark)
  PROVE  BlockShown(f, tokens, otp, p, u, Mail!Rendered(b, vars_, otp))
  <1> DEFINE g == [j \in 0 .. Len(u) |-> f[p + j]]
  <1>1. \A i \in 1 .. Len(tokens) :
          f[i] = Mail!ScanToken(f[i - 1], tokens[i], IF i < Len(tokens) THEN tokens[i + 1] ELSE "nl")
    BY ScanSteps
  <1>2. g[0] = LineStart("text", mark)
    <2>1. p + 0 = p /\ 0 \in 0 .. Len(u)
      OBVIOUS
    <2>2. g[0] = f[p]
      BY <2>1
    <2>3. QED
      BY <2>2
  <1>3. Runs(g, u)
    <2> SUFFICES ASSUME NEW j \in 1 .. Len(u)
                 PROVE  \E next : /\ j < Len(u) => next = u[j + 1]
                                  /\ g[j] = Mail!ScanToken(g[j - 1], u[j], next)
      BY DEF Runs
    <2>1. PICK i : i = p + j
      OBVIOUS
    <2>2. i \in 1 .. Len(tokens) /\ tokens[i] = u[j]
      BY <2>1
    <2>3. PICK next : /\ f[i] = Mail!ScanToken(f[i - 1], tokens[i], next)
                      /\ next = IF i < Len(tokens) THEN tokens[i + 1] ELSE "nl"
      BY <1>1, <2>2
    <2>4. g[j] = f[i] /\ g[j - 1] = f[i - 1]
      <3>1. j - 1 \in 0 .. Len(u) /\ j \in 0 .. Len(u) /\ p + (j - 1) = i - 1
        BY <2>1
      <3>2. QED
        BY <2>1, <3>1
    <2>5. ASSUME j < Len(u) PROVE next = u[j + 1]
      <3>1. j + 1 \in 1 .. Len(u)
        BY <2>5
      <3>2. p + (j + 1) \in 1 .. Len(tokens) /\ tokens[p + (j + 1)] = u[j + 1]
        BY <3>1
      <3>3. i < Len(tokens) /\ p + (j + 1) = i + 1
        BY <2>1, <3>2
      <3>4. QED
        BY <2>3, <3>2, <3>3
    <2>6. QED
      BY <2>2, <2>3, <2>4, <2>5
  <1>4. Done(g, u, Mail!Rendered(b, vars_, otp), otp)
    <2> HIDE DEF g
    <2>1. QED
      BY <1>2, <1>3, BlockDone
  <1>5. /\ Len(Mail!Rendered(b, vars_, otp)) = Len(u)
        /\ \E after : g[Len(u)] = LineStart("text", after)
        /\ \A j \in 1 .. Len(u) : Put(g, u, otp, j) = Mail!Rendered(b, vars_, otp)[j]
    <2> HIDE DEF g
    <2>1. QED
      BY <1>4 DEF Done
  <1>6. g[Len(u)] = f[p + Len(u)]
    OBVIOUS
  <1>7. ASSUME NEW j \in 1 .. Len(u)
        PROVE  Shown(f, tokens, otp, p + j) = Put(g, u, otp, j)
    <2>1. tokens[p + j] = u[j]
      OBVIOUS
    <2>2. j - 1 \in 0 .. Len(u) /\ p + (j - 1) = (p + j) - 1
      OBVIOUS
    <2>3. g[j - 1] = f[(p + j) - 1]
      BY <2>2
    <2> HIDE DEF g
    <2>4. QED
      BY <2>1, <2>3 DEF Shown, Put
  <1>8. QED
    <2> HIDE DEF g
    <2>1. QED
      BY <1>5, <1>6, <1>7 DEF BlockShown

(* The tokens of templates. *)
Letters == {"text", "otp", "var", "esc", "bad", "nl", "tick", "ticks2", "ticks3"}

LEMMA TokensType ==
  ASSUME NEW b \in Kinds \X Words
  PROVE  Mail!Tokens(b) \in Seq(Letters)
  <1>0. b[1] \in Kinds /\ b[2] \in Letters
    BY DEF Words, Letters
  <1>1. CASE b[1] = "line"
    BY <1>0, <1>1 DEF Mail!Tokens, Letters
  <1>2. CASE b[1] = "span"
    BY <1>0, <1>2 DEF Mail!Tokens, Letters
  <1>3. CASE b[1] = "span2"
    BY <1>0, <1>3 DEF Mail!Tokens, Letters
  <1>4. CASE b[1] = "fenced"
    BY <1>0, <1>4 DEF Mail!Tokens, Letters
  <1>5. QED
    BY <1>0, <1>1, <1>2, <1>3, <1>4 DEF Kinds

LEMMA SubstituteType ==
  ASSUME NEW s \in Seq(Letters), NEW vars_
  PROVE  /\ Mail!substitute(s, vars_) \in Seq(Letters)
         /\ Len(Mail!substitute(s, vars_)) = Len(s)
         /\ \A i \in 1 .. Len(s) : Mail!substitute(s, vars_)[i] = Filled(s[i], vars_)
  <1>1. Mail!substitute(s, vars_) = [i \in 1 .. Len(s) |-> Filled(s[i], vars_)]
    BY DEF Mail!substitute, Filled
  <1>2. \A t \in Letters : Filled(t, vars_) \in Letters
    BY DEF Filled, Letters
  <1>3. QED
    BY <1>1, <1>2

LEMMA RenderedType ==
  ASSUME NEW b \in Kinds \X Words, NEW vars_, NEW otp
  PROVE  /\ Mail!Rendered(b, vars_, otp) \in Seq(Letters \cup {otp})
         /\ Len(Mail!Rendered(b, vars_, otp)) = Len(Mail!Tokens(b))
  <1>1. PICK u : u = Mail!substitute(Mail!Tokens(b), vars_)
    OBVIOUS
  <1>2. u \in Seq(Letters) /\ Len(u) = Len(Mail!Tokens(b))
    BY <1>1, TokensType, SubstituteType
  <1>3. PICK w, r : w = Filled(b[2], vars_) /\ r = Mail!Rendered(b, vars_, otp)
    OBVIOUS
  <1>4. CASE r = u
    <2>1. u \in Seq(Letters \cup {otp})
      BY <1>2
    <2>2. QED
      BY <1>2, <1>3, <1>4, <2>1
  <1>5. CASE r # u
    <2>1. r = <<otp, "nl">>
      BY <1>1, <1>3, <1>5 DEF Mail!Rendered
    <2>2. b[1] = "line"
      BY <1>1, <1>3, <1>5, RenderedIs
    <2>3. Len(Mail!Tokens(b)) = 2
      BY <2>2 DEF Mail!Tokens
    <2>4. r \in Seq(Letters \cup {otp}) /\ Len(r) = 2
      BY <2>1 DEF Letters
    <2>5. QED
      BY <1>3, <2>3, <2>4
  <1>6. QED
    BY <1>4, <1>5

(* Every block becomes what it is to become. *)
BlocksShown(f, tokens, otp, F, a, blocks, vars_) ==
  \A k \in 1 .. Len(blocks) : \A j \in 1 .. Len(a[k]) :
    Shown(f, tokens, otp, Len(F[k - 1]) + j) = Mail!Rendered(blocks[k], vars_, otp)[j]

(* Every block starts and ends in text, where a line starts. *)
LEMMA BlocksDone ==
  ASSUME NEW blocks \in Seq(Kinds \X Words), NEW vars_, NEW otp,
         NEW a \in Seq(Seq(Letters)), Len(a) = Len(blocks),
         \A k \in 1 .. Len(blocks) : a[k] = Mail!Tokens(blocks[k]),
         NEW F, Joined(F, Letters, a),
         NEW tokens, tokens = Mail!substitute(F[Len(a)], vars_),
         NEW f, IsScan(f, tokens)
  PROVE  BlocksShown(f, tokens, otp, F, a, blocks, vars_)
  <1>0. PICK N : N = Len(blocks)
    OBVIOUS
  <1>n. N \in Nat /\ N = Len(a) /\ \A k \in 1 .. N : blocks[k] \in Kinds \X Words
    BY <1>0
  <1>1. F[N] \in Seq(Letters) /\ \A k \in 0 .. N : Len(F[k]) \in Nat
    <2>1. \A k \in 0 .. N : F[k] \in Seq(Letters)
      BY <1>n DEF Joined
    <2>2. QED
      BY <1>n, <2>1
  <1>2. /\ tokens \in Seq(Letters)
        /\ Len(tokens) = Len(F[N])
        /\ \A i \in 1 .. Len(F[N]) : tokens[i] = Filled(F[N][i], vars_)
    BY <1>n, <1>1, SubstituteType
  <1>3. Len(tokens) \in Nat
    BY <1>2
  <1>4. ASSUME NEW k \in 1 .. N, NEW mark, f[Len(F[k - 1])] = LineStart("text", mark)
        PROVE  /\ \E after : f[Len(F[k])] = LineStart("text", after)
               /\ \A j \in 1 .. Len(a[k]) :
                    Shown(f, tokens, otp, Len(F[k - 1]) + j) = Mail!Rendered(blocks[k], vars_, otp)[j]
    <2>1. PICK p, b, u : /\ p = Len(F[k - 1]) /\ b = blocks[k]
                         /\ u = Mail!substitute(Mail!Tokens(b), vars_)
      OBVIOUS
    <2>2. p \in Nat /\ b \in Kinds \X Words /\ a[k] = Mail!Tokens(b)
      <3>1. k - 1 \in 0 .. N
        BY <1>n
      <3>2. QED
        BY <1>0, <1>n, <1>1, <2>1, <3>1
    <2>3. Mail!Tokens(b) \in Seq(Letters)
      BY <2>2, TokensType
    <2>4. /\ u \in Seq(Letters) /\ Len(u) = Len(a[k])
          /\ \A j \in 1 .. Len(a[k]) : u[j] = Filled(a[k][j], vars_)
      BY <2>1, <2>2, <2>3, SubstituteType
    <2>5. Len(u) \in Nat
      BY <2>4
    <2>6. ASSUME NEW j \in 1 .. Len(u)
          PROVE  p + j \in 1 .. Len(tokens) /\ tokens[p + j] = u[j]
      <3>1. k \in 1 .. Len(a) /\ j \in 1 .. Len(a[k])
        BY <1>n, <2>4
      <3>2. p + j \in 1 .. Len(F[N]) /\ F[N][p + j] = a[k][j]
        <4>1. Placed(F, a)
          BY JoinedAt
        <4>2. QED
          BY <1>n, <2>1, <3>1, <4>1 DEF Placed
      <3>3. tokens[p + j] = Filled(a[k][j], vars_)
        BY <1>2, <3>2
      <3>4. u[j] = Filled(a[k][j], vars_)
        BY <2>4, <3>1
      <3>5. QED
        BY <1>2, <3>2, <3>3, <3>4
    <2>7. f[p] = LineStart("text", mark)
      BY <1>4, <2>1
    <2>8. /\ \E after : f[p + Len(u)] = LineStart("text", after)
          /\ \A j \in 1 .. Len(u) : Shown(f, tokens, otp, p + j) = Mail!Rendered(b, vars_, otp)[j]
      <3>1. BlockShown(f, tokens, otp, p, u, Mail!Rendered(b, vars_, otp))
        BY <1>3, <2>1, <2>2, <2>5, <2>6, <2>7, ScanOfBlock, ZenonT(30)
      <3>2. QED
        BY <3>1 DEF BlockShown
    <2>9. Len(F[k]) = p + Len(u)
      <3>1. Follows(F[k - 1], a[k], F[k])
        BY <1>n, JoinedStep
      <3>2. Len(F[k]) = Len(F[k - 1]) + Len(a[k])
        BY <3>1 DEF Follows
      <3>3. QED
        BY <2>1, <2>4, <3>2
    <2>10. QED
      BY <2>1, <2>4, <2>8, <2>9
  <1>5. \A k \in 0 .. N : \E mark : f[Len(F[k])] = LineStart("text", mark)
    <2> DEFINE B == {k \in 0 .. N : ~ \E mark : f[Len(F[k])] = LineStart("text", mark)}
    <2> SUFFICES ASSUME B # {} PROVE FALSE
      OBVIOUS
    <2>1. B \subseteq Nat
      BY <1>n
    <2>2. 0 \notin B
      <3>1. f[0] = LineStart("text", "text")
        BY <1>3, ScanSteps
      <3>2. Len(F[0]) = 0
        BY DEF Joined
      <3>3. QED
        BY <3>1, <3>2
    <2>3. PICK k \in B : k \in Nat /\ k # 0 /\ k - 1 \in Nat /\ k - 1 \notin B
      BY <2>1, <2>2, LeastOf
    <2>4. k \in 1 .. N /\ k - 1 \in 0 .. N
      BY <1>n, <2>3
    <2>5. PICK mark : f[Len(F[k - 1])] = LineStart("text", mark)
      BY <2>3, <2>4
    <2>6. \E after : f[Len(F[k])] = LineStart("text", after)
      BY <1>4, <2>4, <2>5
    <2>7. QED
      BY <2>3, <2>6
  <1>6. ASSUME NEW k \in 1 .. N
        PROVE  \A j \in 1 .. Len(a[k]) :
                 Shown(f, tokens, otp, Len(F[k - 1]) + j) = Mail!Rendered(blocks[k], vars_, otp)[j]
    <2>1. k - 1 \in 0 .. N
      BY <1>n
    <2>2. PICK mark : f[Len(F[k - 1])] = LineStart("text", mark)
      BY <1>5, <2>1
    <2>3. QED
      BY <1>4, <2>2
  <1>7. QED
    BY <1>0, <1>6 DEF BlocksShown

(* transform_otp shows the codes that are written as text, and no other.   *)
LEMMA CodesShown ==
  ASSUME NEW template, Mail!IsTemplate(template), NEW vars_, NEW otp
  PROVE  Mail!transform_otp(Mail!substitute(Mail!Body(template), vars_), otp) =
           Mail!FlattenSeq([i \in DOMAIN template.blocks |->
                              Mail!Rendered(template.blocks[i], vars_, otp)])
  <1> DEFINE T == Letters \cup {otp}
  <1>0. PICK blocks : blocks = template.blocks
    OBVIOUS
  <1>1. blocks \in Seq(Kinds \X Words)
    BY <1>0 DEF Mail!IsTemplate, Kinds, Words
  <1>2. PICK N : N = Len(blocks)
    OBVIOUS
  <1>3. N \in Nat /\ DOMAIN blocks = 1 .. N /\ \A k \in 1 .. N : blocks[k] \in Kinds \X Words
    BY <1>1, <1>2
  <1>4. PICK a, r : /\ a = [i \in DOMAIN blocks |-> Mail!Tokens(blocks[i])]
                    /\ r = [i \in DOMAIN blocks |-> Mail!Rendered(blocks[i], vars_, otp)]
    OBVIOUS
  <1>5. a \in Seq(Seq(Letters)) /\ Len(a) = N /\ \A k \in 1 .. N : a[k] = Mail!Tokens(blocks[k])
    <2>1. \A k \in 1 .. N : Mail!Tokens(blocks[k]) \in Seq(Letters)
      BY <1>3, TokensType
    <2>2. QED
      BY <1>3, <1>4, <2>1
  <1>6. /\ r \in Seq(Seq(T)) /\ Len(r) = N
        /\ \A k \in 1 .. N : r[k] = Mail!Rendered(blocks[k], vars_, otp) /\ Len(a[k]) = Len(r[k])
    <2>1. \A k \in 1 .. N : /\ Mail!Rendered(blocks[k], vars_, otp) \in Seq(T)
                            /\ Len(Mail!Rendered(blocks[k], vars_, otp)) = Len(Mail!Tokens(blocks[k]))
      BY <1>3, RenderedType
    <2> HIDE DEF T
    <2>2. QED
      BY <1>3, <1>4, <1>5, <2>1
  <1> HIDE DEF T
  <1>7. PICK F : Joined(F, Letters, a) /\ Mail!FlattenSeq(a) = F[Len(a)]
    BY <1>5, FlattenIs
  <1>8. PICK G : Joined(G, T, r) /\ Mail!FlattenSeq(r) = G[Len(r)]
    BY <1>6, FlattenIs
  <1>9. \A k \in 0 .. N : Len(F[k]) = Len(G[k])
    <2>1. Len(a) = Len(r) /\ \A k \in 1 .. Len(a) : Len(a[k]) = Len(r[k])
      BY <1>5, <1>6
    <2>2. \A k \in 0 .. Len(a) : Len(F[k]) = Len(G[k])
      BY <1>5, <1>6, <1>7, <1>8, <2>1, SameLengths
    <2>3. QED
      BY <1>5, <2>2
  <1>10. PICK tokens : tokens = Mail!substitute(F[N], vars_)
    OBVIOUS
  <1>11. Mail!substitute(Mail!Body(template), vars_) = tokens
    <2>1. Mail!Body(template) = Mail!FlattenSeq(a)
      BY <1>0, <1>4 DEF Mail!Body
    <2>2. Mail!Body(template) = F[N]
      BY <1>5, <1>7, <2>1
    <2>3. QED
      BY <1>10, <2>2
  <1>12. F[N] \in Seq(Letters) /\ G[N] \in Seq(T)
    BY <1>3, <1>5, <1>6, <1>7, <1>8 DEF Joined
  <1>13. Len(tokens) = Len(F[N]) /\ Len(tokens) \in Nat
    <2>1. tokens \in Seq(Letters) /\ Len(tokens) = Len(F[N])
      BY <1>10, <1>12, SubstituteType
    <2>2. QED
      BY <2>1
  <1>14. PICK f : /\ IsScan(f, tokens)
                  /\ Mail!transform_otp(tokens, otp) =
                       [i \in 1 .. Len(tokens) |->
                          IF tokens[i] = "otp" /\ f[i - 1].ctx = "text" THEN otp ELSE tokens[i]]
    BY <1>13, TransformIs
  <1>15. Mail!transform_otp(tokens, otp) = [i \in 1 .. Len(tokens) |-> Shown(f, tokens, otp, i)]
    BY <1>14 DEF Shown
  <1>16. \A k \in 1 .. N : \A j \in 1 .. Len(a[k]) :
           Shown(f, tokens, otp, Len(F[k - 1]) + j) = Mail!Rendered(blocks[k], vars_, otp)[j]
    <2>1. Len(a) = Len(blocks) /\ \A k \in 1 .. Len(blocks) : a[k] = Mail!Tokens(blocks[k])
      BY <1>2, <1>5
    <2>2. tokens = Mail!substitute(F[Len(a)], vars_)
      BY <1>5, <1>10
    <2>3. BlocksShown(f, tokens, otp, F, a, blocks, vars_)
      BY <1>1, <1>5, <1>7, <1>14, <2>1, <2>2, BlocksDone
    <2>4. QED
      BY <1>2, <2>3 DEF BlocksShown
  <1>17. ASSUME NEW i \in 1 .. Len(tokens)
         PROVE  Shown(f, tokens, otp, i) = G[N][i]
    <2>1. i \in 1 .. Len(F[Len(a)])
      BY <1>5, <1>13
    <2>2. PICK k \in 1 .. N : \E j \in 1 .. Len(a[k]) : i = Len(F[k - 1]) + j
      <3>1. Placed(F, a)
        BY <1>5, <1>7, JoinedAt
      <3>2. QED
        BY <1>5, <2>1, <3>1 DEF Placed
    <2>3. PICK j \in 1 .. Len(a[k]) : i = Len(F[k - 1]) + j
      BY <2>2
    <2>4. Shown(f, tokens, otp, i) = r[k][j]
      BY <1>6, <1>16, <2>3
    <2>5. k \in 1 .. Len(r) /\ j \in 1 .. Len(r[k]) /\ k - 1 \in 0 .. N
      BY <1>3, <1>6
    <2>6. G[Len(r)][Len(G[k - 1]) + j] = r[k][j]
      <3>1. Placed(G, r)
        BY <1>6, <1>8, JoinedAt
      <3>2. QED
        BY <1>6, <2>5, <3>1 DEF Placed
    <2>7. Len(G[k - 1]) = Len(F[k - 1])
      BY <1>9, <2>5
    <2>8. QED
      BY <1>6, <2>3, <2>4, <2>6, <2>7
  <1>18. G[N] = [i \in 1 .. Len(tokens) |-> G[N][i]]
    <2>1. Len(G[N]) = Len(tokens)
      <3>1. N \in 0 .. N
        BY <1>3
      <3>2. QED
        BY <1>9, <1>13, <3>1
    <2>2. QED
      BY <1>12, <2>1
  <1>19. Mail!transform_otp(tokens, otp) = G[N]
    BY <1>15, <1>17, <1>18
  <1>20. Mail!FlattenSeq(r) = G[N]
    BY <1>6, <1>8
  <1>21. QED
    BY <1>0, <1>4, <1>11, <1>19, <1>20

(* A template that load finds is one of the files. *)
LEMMA LoadIs ==
  ASSUME NEW fs, \A p \in DOMAIN fs : Mail!IsTemplate(fs[p]), NEW name, NEW locale,
         Mail!load(fs, name, locale) # None
  PROVE  Mail!IsTemplate(Mail!load(fs, name, locale))
  <1>0. PICK chain : chain = <<<<locale, name>>, <<DefaultLocale, name>>, <<"", name>>>>
    OBVIOUS
  <1> DEFINE I == {i \in 1 .. Len(chain) : chain[i] \in DOMAIN fs}
             found == IF I # {} THEN Mail!Min(I) ELSE 0
  <1>1. Mail!load(fs, name, locale) = IF found = 0 THEN None ELSE fs[chain[found]]
    BY <1>0 DEF Mail!load, Mail!SelectInSeq
  <1>2. Len(chain) = 3
    BY <1>0
  <1>3. I \subseteq Nat
    BY <1>2
  <1>4. I # {}
    BY <1>1
  <1>5. \E x \in I : \A y \in I : x <= y
    BY <1>3, <1>4, LeastNat
  <1>6. Mail!Min(I) \in I
    <2> HIDE DEF I
    <2>1. QED
      BY <1>5 DEF Mail!Min
  <1>7. found \in I
    BY <1>4, <1>6
  <1>8. chain[found] \in DOMAIN fs /\ found # 0
    BY <1>7
  <1> HIDE DEF found
  <1>9. QED
    BY <1>1, <1>8

(* A template that its name and locale led to. *)
Loaded(name, locale, template) ==
  /\ Mail!IsTemplate(template)
  /\ template \in {Mail!load(TemplateFiles, name, locale), Mail!load(templates, name, locale)}

Rendering(me) ==
  me.at \in {"store", "render"} => Loaded(me.email.template, Mail!Locale(me.email), me.template)

(* What was sent last. *)
Mailed(m) ==
  /\ Loaded(m.email.template, Mail!Locale(m.email), m.template)
  /\ m.message = Mail!render(m.template, m.email.vars)

(* Templates in the files, in the cache, in the hands of senders and in    *)
(* the message sent last.                                                  *)
FilesInv == \A path \in DOMAIN templates : Mail!IsTemplate(templates[path])
CachedInv == \A key \in DOMAIN map : Loaded(key[1], key[2], map[key])
CallsInv == DOMAIN mailing = Senders /\ \A s \in Senders : Rendering(mailing[s])
MailInv == FilesInv /\ CachedInv /\ CallsInv /\ (mail # None => Mailed(mail))

(* The files change once. *)
Kept == templates' = templates \/ templates = TemplateFiles

LEMMA LoadedKept ==
  ASSUME Kept, NEW name, NEW locale, NEW template, Loaded(name, locale, template)
  PROVE  Loaded(name, locale, template)'
  <1>1. CASE templates = TemplateFiles
    BY <1>1 DEF Loaded
  <1>2. CASE templates' = templates
    BY <1>2 DEF Loaded
  <1>3. QED
    BY <1>1, <1>2 DEF Kept

LEMMA CachedKept ==
  ASSUME Kept, CachedInv, map' = map
  PROVE  CachedInv'
  <1> SUFFICES ASSUME NEW key \in DOMAIN map
               PROVE  Loaded(key[1], key[2], map[key])'
    BY DEF CachedInv
  <1>1. PICK t : t = map[key]
    OBVIOUS
  <1>2. Loaded(key[1], key[2], t)
    BY <1>1 DEF CachedInv
  <1>3. Loaded(key[1], key[2], t)'
    BY <1>2, LoadedKept
  <1>4. QED
    BY <1>1, <1>3

LEMMA RenderingKept ==
  ASSUME Kept, NEW me, Rendering(me)
  PROVE  Rendering(me)'
  <1>1. PICK name, locale, t : name = me.email.template /\ locale = Mail!Locale(me.email)
                               /\ t = me.template
    OBVIOUS
  <1>2. CASE me.at \in {"store", "render"}
    <2>1. Loaded(name, locale, t)
      BY <1>1, <1>2 DEF Rendering
    <2>2. Loaded(name, locale, t)'
      BY <2>1, LoadedKept
    <2>3. QED
      BY <1>1, <2>2 DEF Rendering
  <1>3. CASE me.at \notin {"store", "render"}
    BY <1>3 DEF Rendering
  <1>4. QED
    BY <1>2, <1>3

LEMMA CallsKept ==
  ASSUME Kept, CallsInv,
         \/ mailing' = mailing
         \/ \E s \in Senders : \E x : mailing' = [mailing EXCEPT ![s] = x] /\ Rendering(x)
  PROVE  CallsInv'
  <1>1. \A s \in Senders : \E me : me = mailing'[s] /\ Rendering(me)
    BY DEF CallsInv
  <1>2. ASSUME NEW s \in Senders
        PROVE  Rendering(mailing[s])'
    <2>1. PICK me : me = mailing'[s] /\ Rendering(me)
      BY <1>1
    <2>2. Rendering(me)'
      BY <2>1, RenderingKept
    <2>3. QED
      BY <2>1, <2>2
  <1>3. DOMAIN mailing' = Senders
    BY DEF CallsInv
  <1>4. QED
    BY <1>2, <1>3 DEF CallsInv

LEMMA MailedKept ==
  ASSUME Kept, NEW m, Mailed(m)
  PROVE  Mailed(m)'
  <1>1. PICK name, locale, t : name = m.email.template /\ locale = Mail!Locale(m.email)
                               /\ t = m.template
    OBVIOUS
  <1>2. Loaded(name, locale, t)
    BY <1>1 DEF Mailed
  <1>3. Loaded(name, locale, t)'
    BY <1>2, LoadedKept
  <1>4. QED
    BY <1>1, <1>3 DEF Mailed

LEMMA MailKept ==
  ASSUME Kept, mail # None => Mailed(mail), mail' = mail
  PROVE  (mail # None => Mailed(mail))'
  <1>1. PICK m : m = mail
    OBVIOUS
  <1>2. CASE m # None
    <2>1. Mailed(m)'
      BY <1>1, <1>2, MailedKept
    <2>2. QED
      BY <1>1, <2>1
  <1>3. CASE m = None
    BY <1>1, <1>3
  <1>4. QED
    BY <1>2, <1>3

LEMMA SendMails ==
  ASSUME MailInv, NEW s \in Senders, NEW email \in Emails, Mail!Send(s, email)
  PROVE  MailInv'
  <1>1. PICK key : key = <<email.template, Mail!Locale(email)>>
    OBVIOUS
  <1>2. Kept /\ templates' = templates /\ mail' = mail
    BY DEF Mail!Send, Kept
  <1>3. map' = map
    BY DEF Mail!Send, Mail!get
  <1>4. PICK x : mailing' = [mailing EXCEPT ![s] = x] /\ Rendering(x)
    <2>1. CASE key \in DOMAIN map /\ Mail!Goes(s, "render", email, map[key])
      <3>1. PICK x : x = [at |-> "render", email |-> email, template |-> map[key]]
        OBVIOUS
      <3>2. mailing' = [mailing EXCEPT ![s] = x]
        BY <2>1, <3>1 DEF Mail!Goes
      <3>3. Loaded(key[1], key[2], map[key])
        BY <2>1 DEF MailInv, CachedInv
      <3>4. key[1] = email.template /\ key[2] = Mail!Locale(email)
        BY <1>1
      <3>5. Loaded(email.template, Mail!Locale(email), map[key])
        BY <3>3, <3>4
      <3>6. Rendering(x)
        BY <3>1, <3>5 DEF Rendering
      <3>7. QED
        BY <3>2, <3>6
    <2>2. CASE Mail!Goes(s, "load", email, None)
      <3>1. PICK x : x = [at |-> "load", email |-> email, template |-> None]
        OBVIOUS
      <3>2. mailing' = [mailing EXCEPT ![s] = x]
        BY <2>2, <3>1 DEF Mail!Goes
      <3>3. Rendering(x)
        BY <3>1 DEF Rendering
      <3>4. QED
        BY <3>2, <3>3
    <2>3. QED
      BY <1>1, <2>1, <2>2 DEF Mail!Send
  <1>5. FilesInv'
    BY <1>2 DEF MailInv, FilesInv
  <1>6. CachedInv'
    BY <1>2, <1>3, CachedKept DEF MailInv
  <1>7. CallsInv'
    BY <1>2, <1>4, CallsKept DEF MailInv
  <1>8. (mail # None => Mailed(mail))'
    BY <1>2, MailKept DEF MailInv
  <1>9. QED
    BY <1>5, <1>6, <1>7, <1>8 DEF MailInv

LEMMA IdleRenders ==
  Rendering(Mail!Idle)
  BY DEF Rendering, Mail!Idle

LEMMA LoadMails ==
  ASSUME MailInv, NEW s \in Senders, Mail!Load(s)
  PROVE  MailInv'
  <1>1. Kept /\ templates' = templates /\ mail' = mail /\ map' = map
    BY DEF Mail!Load, Kept
  <1>2. PICK email, t : email = mailing[s].email /\ t = Mail!load(templates, email.template, Mail!Locale(email))
    OBVIOUS
  <1>3. PICK x : mailing' = [mailing EXCEPT ![s] = x] /\ Rendering(x)
    <2>1. CASE t = None
      <3>1. mailing' = [mailing EXCEPT ![s] = Mail!Idle]
        BY <1>2, <2>1 DEF Mail!Load, Mail!Fails
      <3>2. QED
        BY <3>1, IdleRenders
    <2>2. CASE t # None
      <3>1. PICK x : x = [at |-> IF capacity > 0 THEN "store" ELSE "render", email |-> email, template |-> t]
        OBVIOUS
      <3>2. mailing' = [mailing EXCEPT ![s] = x]
        BY <1>2, <2>2, <3>1 DEF Mail!Load, Mail!Goes
      <3>3. Mail!IsTemplate(t)
        BY <1>2, <2>2, LoadIs DEF MailInv, FilesInv
      <3>4. Loaded(email.template, Mail!Locale(email), t)
        BY <1>2, <3>3 DEF Loaded
      <3>5. x.email = email /\ x.template = t
        BY <3>1
      <3>6. Rendering(x)
        BY <3>4, <3>5 DEF Rendering
      <3>7. QED
        BY <3>2, <3>6
    <2>3. QED
      BY <2>1, <2>2
  <1>5. FilesInv'
    BY <1>1 DEF MailInv, FilesInv
  <1>6. CachedInv'
    BY <1>1, CachedKept DEF MailInv
  <1>7. CallsInv'
    BY <1>1, <1>3, CallsKept DEF MailInv
  <1>8. (mail # None => Mailed(mail))'
    BY <1>1, MailKept DEF MailInv
  <1>9. QED
    BY <1>5, <1>6, <1>7, <1>8 DEF MailInv

LEMMA StoreMails ==
  ASSUME MailInv, NEW s \in Senders, Mail!Store(s)
  PROVE  MailInv'
  <1>1. Kept /\ templates' = templates /\ mail' = mail
    BY DEF Mail!Store, Kept
  <1>2. PICK email, t, key : /\ email = mailing[s].email /\ t = mailing[s].template
                             /\ key = <<email.template, Mail!Locale(email)>>
    OBVIOUS
  <1>3. mailing[s].at = "store" /\ Mail!put(key, t) /\ Mail!Goes(s, "render", email, t)
    BY <1>2 DEF Mail!Store
  <1>4. Loaded(email.template, Mail!Locale(email), t)
    BY <1>2, <1>3 DEF MailInv, CallsInv, Rendering
  <1>5. FilesInv'
    BY <1>1 DEF MailInv, FilesInv
  <1>6. CachedInv'
    <2>1. key \in DOMAIN map' /\ map'[key] = t
      BY <1>3 DEF Mail!put
    <2>2. \A k \in DOMAIN map' : k # key => k \in DOMAIN map /\ map'[k] = map[k]
      BY <1>3 DEF Mail!put
    <2>3. ASSUME NEW k \in DOMAIN map'
          PROVE  Loaded(k[1], k[2], map[k])'
      <3>1. PICK v : v = map'[k]
        OBVIOUS
      <3>2. Loaded(k[1], k[2], v)
        <4>1. CASE k = key
          <5>1. k[1] = email.template /\ k[2] = Mail!Locale(email) /\ v = t
            BY <1>2, <2>1, <3>1, <4>1
          <5>2. QED
            BY <1>4, <5>1
        <4>2. CASE k # key
          BY <2>2, <3>1, <4>2 DEF MailInv, CachedInv
        <4>3. QED
          BY <4>1, <4>2
      <3>3. Loaded(k[1], k[2], v)'
        BY <1>1, <3>2, LoadedKept
      <3>4. QED
        BY <3>1, <3>3
    <2>4. QED
      BY <2>3 DEF CachedInv
  <1>7. CallsInv'
    <2>1. PICK x : x = [at |-> "render", email |-> email, template |-> t]
      OBVIOUS
    <2>2. mailing' = [mailing EXCEPT ![s] = x]
      BY <1>3, <2>1 DEF Mail!Goes
    <2>3. Rendering(x)
      BY <1>4, <2>1 DEF Rendering
    <2>4. QED
      BY <1>1, <2>2, <2>3, CallsKept DEF MailInv
  <1>8. (mail # None => Mailed(mail))'
    BY <1>1, MailKept DEF MailInv
  <1>9. QED
    BY <1>5, <1>6, <1>7, <1>8 DEF MailInv

LEMMA DeliverMails ==
  ASSUME MailInv, NEW s \in Senders, Mail!Deliver(s)
  PROVE  MailInv'
  <1>1. Kept /\ templates' = templates /\ map' = map
    BY DEF Mail!Deliver, Kept
  <1>2. PICK email, t : email = mailing[s].email /\ t = mailing[s].template
    OBVIOUS
  <1>3. mailing[s].at = "render" /\ mailing' = [mailing EXCEPT ![s] = Mail!Idle]
    BY DEF Mail!Deliver, Mail!Fails
  <1>4. Loaded(email.template, Mail!Locale(email), t)
    BY <1>2, <1>3 DEF MailInv, CallsInv, Rendering
  <1>5. FilesInv'
    BY <1>1 DEF MailInv, FilesInv
  <1>6. CachedInv'
    BY <1>1, CachedKept DEF MailInv
  <1>7. CallsInv'
    BY <1>1, <1>3, CallsKept, IdleRenders DEF MailInv
  <1>8. (mail # None => Mailed(mail))'
    <2>1. CASE mail' = mail
      BY <1>1, <2>1, MailKept DEF MailInv
    <2>2. CASE mail' = [email |-> email, template |-> t, message |-> Mail!render(t, email.vars)]
      <3>1. PICK m : m = [email |-> email, template |-> t, message |-> Mail!render(t, email.vars)]
        OBVIOUS
      <3>2. m.email = email /\ m.template = t /\ m.message = Mail!render(t, email.vars)
        BY <3>1
      <3>3. Mailed(m)
        BY <1>4, <3>2 DEF Mailed
      <3>4. Mailed(m)'
        BY <1>1, <3>3, MailedKept
      <3>5. QED
        BY <2>2, <3>1, <3>4
    <2>3. QED
      BY <1>2, <2>1, <2>2 DEF Mail!Deliver
  <1>9. QED
    BY <1>5, <1>6, <1>7, <1>8 DEF MailInv

LEMMA EditMails ==
  ASSUME MailInv, Mail!Edit
  PROVE  MailInv'
  <1>1. Kept /\ map' = map /\ mailing' = mailing /\ mail' = mail
    BY DEF Mail!Edit, Kept
  <1>2. PICK e \in Edits :
          templates' = [p \in DOMAIN templates \cup {e[1]} |-> IF p = e[1] THEN e[2] ELSE templates[p]]
    BY DEF Mail!Edit
  <1>3. FilesInv'
    BY <1>2, ServicesAssumption DEF MailInv, FilesInv
  <1>4. CachedInv'
    BY <1>1, CachedKept DEF MailInv
  <1>5. CallsInv'
    BY <1>1, CallsKept DEF MailInv
  <1>6. (mail # None => Mailed(mail))'
    BY <1>1, MailKept DEF MailInv
  <1>7. QED
    BY <1>3, <1>4, <1>5, <1>6 DEF MailInv

LEMMA MailsStep ==
  ASSUME MailInv, [Mail!Next]_(Mail!vars)
  PROVE  MailInv'
  <1>1. CASE UNCHANGED Mail!vars
    <2>1. Kept /\ templates' = templates /\ map' = map /\ mailing' = mailing /\ mail' = mail
      BY <1>1 DEF Mail!vars, Kept
    <2>2. FilesInv'
      BY <2>1 DEF MailInv, FilesInv
    <2>3. CachedInv'
      BY <2>1, CachedKept DEF MailInv
    <2>4. CallsInv'
      BY <2>1, CallsKept DEF MailInv
    <2>5. (mail # None => Mailed(mail))'
      BY <2>1, MailKept DEF MailInv
    <2>6. QED
      BY <2>2, <2>3, <2>4, <2>5 DEF MailInv
  <1>2. QED
    BY <1>1, SendMails, LoadMails, StoreMails, DeliverMails, EditMails DEF Mail!Next

(* A mail that is handed to the SMTP server is made from a template its    *)
(* name and locale lead to, and shows exactly the codes that are written   *)
(* as text, however many blocks the template has and whatever is around    *)
(* them, for every number of threads and capacity of the cache.            *)
THEOREM MailSaysWhatIsWritten == Mail!Spec => []SentAsWritten
  <1>1. Mail!Init => MailInv
    <2> SUFFICES ASSUME Mail!Init
                 PROVE  MailInv
      OBVIOUS
    <2>1. FilesInv
      BY ServicesAssumption DEF Mail!Init, FilesInv
    <2>2. CachedInv
      BY DEF Mail!Init, CachedInv
    <2>3. CallsInv
      BY IdleRenders DEF Mail!Init, CallsInv
    <2>4. mail = None
      BY DEF Mail!Init
    <2>5. QED
      BY <2>1, <2>2, <2>3, <2>4 DEF MailInv
  <1>2. MailInv /\ [Mail!Next]_(Mail!vars) => MailInv'
    BY MailsStep
  <1>3. MailInv => SentAsWritten
    <2> SUFFICES ASSUME MailInv, mail # None
                 PROVE  SentAsWritten
      BY DEF SentAsWritten, Mail!SentAsWritten
    <2>1. PICK m, t : m = mail /\ t = m.template
      OBVIOUS
    <2>2. Mailed(m)
      BY <2>1 DEF MailInv
    <2>3. /\ Mail!IsTemplate(t)
          /\ t \in {Mail!load(TemplateFiles, m.email.template, Mail!Locale(m.email)),
                    Mail!load(templates, m.email.template, Mail!Locale(m.email))}
      BY <2>1, <2>2 DEF Mailed, Loaded
    <2> DEFINE body == Mail!substitute(Mail!Body(t), m.email.vars)
               expected(otp) == Mail!FlattenSeq([i \in DOMAIN t.blocks |->
                                                   Mail!Rendered(t.blocks[i], m.email.vars, otp)])
    <2>4. /\ m.message.html.body = Mail!transform_otp(body, "pill")
          /\ m.message.text.body = Mail!transform_otp(body, "code")
      BY <2>1, <2>2 DEF Mailed, Mail!render, Mail!markdown_to_html, Mail!markdown_to_text
    <2>5. \A otp : Mail!transform_otp(body, otp) = expected(otp)
      BY <2>3, CodesShown
    <2>6. m.message.html.body = expected("pill") /\ m.message.text.body = expected("code")
      BY <2>4, <2>5
    <2>7. QED
      BY <2>1, <2>3, <2>6 DEF SentAsWritten, Mail!SentAsWritten
  <1>4. QED
    BY <1>1, <1>2, <1>3, PTL DEF Mail!Spec

-----------------------------------------------------------------------------
(* Databases and their migrations. *)

CallerState ==
  [at : {"idle", "create", "select", "batch", "record", "commit"}, name : Names,
   db : Stores \cup {NoDb}, sql : Seq(Contents), i : Nat, held : Stores \cup {NoDb}]

Database == [effects : Seq(Nat \X Contents), records : Seq(Nat)]

DbTypeOK ==
  /\ process \in [Callers -> Processes]
  /\ files \in [1 .. Len(Migrations) -> Contents]
  /\ store \in [Stores -> Database]
  /\ lock \in [Stores -> Callers \cup {NoDb}]
  /\ pool \in [Processes -> [Names -> Stores \cup {NoDb}]]
  /\ caller \in [Callers -> CallerState]

(* What is committed in a database: migrations in the order of the files,  *)
(* each with its record.                                                   *)
Applied(d) ==
  /\ Len(store[d].effects) = Len(store[d].records)
  /\ Len(store[d].effects) <= Len(Migrations)
  /\ \A i \in DOMAIN store[d].effects :
       /\ store[d].effects[i][1] = i
       /\ store[d].records[i] = fnv1a_hex(store[d].effects[i][2])

(* A caller opens a file or a memory of its own; the migrations before the *)
(* one it is at are recorded, and from the batch to the commit it has the  *)
(* lock, so that the one it records is not.                                *)
Running(c) ==
  LET me == caller[c] IN
  /\ me.at # "idle" =>
       me.db \in Stores /\ me.db[1] \in {NoDb, c} /\ me.db[2] = me.name
  /\ me.at \in {"select", "batch", "record", "commit"} =>
       /\ me.sql \in [1 .. Len(Migrations) -> Contents]
       /\ me.i >= 1 /\ me.i <= Len(store[me.db].records) + 1
  /\ me.at \in {"batch", "record", "commit"} => me.i <= Len(Migrations)
  /\ me.at \in {"record", "commit"} => lock[me.db] = c
  /\ me.at = "commit" => me.i > Len(store[me.db].records)

(* A database that a caller holds, or a pool, is complete.  If it is the   *)
(* memory of a caller, all who have it are of that caller's process, where *)
(* the pool has a database of its name, so that none is opened again.      *)
Holding(c) ==
  LET d == caller[c].held IN
  d \in Stores =>
    /\ Len(store[d].effects) = Len(Migrations)
    /\ d[1] \in Callers => process[d[1]] = process[c] /\ pool[process[c]][d[2]] # NoDb

Pooling(p, n) ==
  LET d == pool[p][n] IN
  d \in Stores =>
    /\ Len(store[d].effects) = Len(Migrations)
    /\ d[2] = n /\ (d[1] \in Callers => process[d[1]] = p)

MigrationInv ==
  /\ \A d \in Stores : Applied(d)
  /\ \A c \in Callers : Running(c) /\ Holding(c)
  /\ \A p \in Processes, n \in Names : Pooling(p, n)

LEMMA StoreParts ==
  ASSUME NEW d \in Stores
  PROVE  d = <<d[1], d[2]>> /\ d[1] \in Callers \cup {NoDb} /\ d[2] \in Names
  BY DEF Stores, Names

LEMMA NoDbIsNone == NoDb \notin Callers /\ NoDb \notin Stores
  BY NoDbAssumption

LEMMA MigrationsLen == Len(Migrations) \in Nat
  BY DatabasesAssumption, LenProperties

LEMMA IdleType ==
  /\ Idle \in CallerState /\ Idle.at = "idle" /\ Idle.held = NoDb
  <1>1. <<>> \in Seq(Contents) /\ Default \in Names
    BY DEF Names
  <1>2. QED
    BY <1>1 DEF Idle, CallerState

LEMMA EmptyType ==
  /\ Empty \in Database /\ Len(Empty.effects) = 0 /\ Len(Empty.records) = 0
  /\ DOMAIN Empty.effects = {}
  <1>1. <<>> \in Seq(Nat \X Contents) /\ <<>> \in Seq(Nat) /\ Len(<<>>) = 0 /\ DOMAIN <<>> = {}
    OBVIOUS
  <1>2. QED
    BY <1>1 DEF Empty, Database

LEMMA HeldType ==
  ASSUME NEW d \in Stores \cup {NoDb}
  PROVE  /\ [Idle EXCEPT !.held = d] \in CallerState
         /\ [Idle EXCEPT !.held = d].at = "idle" /\ [Idle EXCEPT !.held = d].held = d
  <1>1. [Idle EXCEPT !.held = d] \in CallerState
    BY IdleType DEF CallerState
  <1>2. QED
    BY <1>1 DEF Idle

(* A step that changes what one caller does, and nothing else. *)
LEMMA CallerAlone ==
  ASSUME DbTypeOK, MigrationInv, NEW c \in Callers, NEW q \in CallerState,
         caller' = [caller EXCEPT ![c] = q], UNCHANGED <<process, files, store, lock, pool>>,
         Running(c)', Holding(c)'
  PROVE  DbTypeOK' /\ MigrationInv'
  <1>1. /\ caller' \in [Callers -> CallerState]
        /\ \A b \in Callers : b # c => caller'[b] = caller[b]
    BY DEF DbTypeOK
  <1>2. DbTypeOK'
    BY <1>1 DEF DbTypeOK
  <1>3. \A b \in Callers : b # c => Running(b)' /\ Holding(b)'
    BY <1>1 DEF MigrationInv, Running, Holding
  <1>4. \A d \in Stores : Applied(d)'
    BY DEF MigrationInv, Applied, fnv1a_hex
  <1>5. \A p \in Processes, n \in Names : Pooling(p, n)'
    BY DEF MigrationInv, Pooling
  <1>6. QED
    BY <1>2, <1>3, <1>4, <1>5 DEF MigrationInv

(* connect begins, of a name that the pool of the process does not have. *)
LEMMA ConnectsStep ==
  ASSUME DbTypeOK, MigrationInv, NEW c \in Callers, NEW name \in Names,
         pool[process[c]][name] = NoDb, Connects(c, name)
  PROVE  DbTypeOK' /\ MigrationInv'
  <1> DEFINE db == <<IF memory /\ name # Default THEN c ELSE NoDb, name>>
             q == [Idle EXCEPT !.at = "create", !.name = name, !.db = db]
  <1>1. /\ caller' = [caller EXCEPT ![c] = q]
        /\ store' = IF db[1] = c THEN [store EXCEPT ![db] = Empty] ELSE store
        /\ UNCHANGED <<process, files, lock, pool>>
    BY DEF Connects
  <1>2. db \in Stores /\ db[1] \in {NoDb, c} /\ db[2] = name
    BY DEF Stores, Names
  <1> HIDE DEF db
  <1>3. q \in CallerState
    BY <1>2, IdleType DEF CallerState
  <1>4. q.at = "create" /\ q.db = db /\ q.name = name /\ q.held = NoDb
    BY DEF Idle
  <1> HIDE DEF q
  <1>5. /\ caller' \in [Callers -> CallerState] /\ caller'[c] = q
        /\ \A b \in Callers : b # c => caller'[b] = caller[b]
    BY <1>1, <1>3 DEF DbTypeOK
  <1>6. /\ store' \in [Stores -> Database]
        /\ \A d \in Stores : \/ store'[d] = store[d]
                             \/ d = db /\ db[1] = c /\ store'[d] = Empty
    <2>1. store \in [Stores -> Database] /\ Empty \in Database
      BY EmptyType DEF DbTypeOK
    <2>2. CASE db[1] = c
      <3>1. store' = [store EXCEPT ![db] = Empty]
        BY <2>2, <1>1
      <3>2. QED
        BY <2>1, <2>2, <3>1, <1>2
    <2>3. CASE db[1] # c
      <3>1. store' = store
        BY <2>3, <1>1
      <3>2. QED
        BY <2>1, <3>1
    <2>4. QED
      BY <2>2, <2>3
  <1>7. DbTypeOK'
    BY <1>1, <1>5, <1>6 DEF DbTypeOK
  <1>8. ASSUME NEW d \in Stores
        PROVE  Applied(d)'
    <2>1. CASE store'[d] = store[d]
      BY <2>1 DEF MigrationInv, Applied, fnv1a_hex
    <2>2. CASE store'[d] = Empty
      BY <2>2, EmptyType, MigrationsLen DEF Applied
    <2>3. QED
      BY <1>6, <2>1, <2>2
  <1>9. ASSUME NEW b \in Callers
        PROVE  Running(b)'
    <2>1. CASE b = c
      BY <2>1, <1>2, <1>4, <1>5 DEF Running
    <2>2. CASE b # c
      <3>1. Running(b) /\ caller'[b] = caller[b]
        BY <2>2, <1>5 DEF MigrationInv
      <3>2. caller[b].at # "idle" => store'[caller[b].db] = store[caller[b].db]
        BY <2>2, <3>1, <1>6, NoDbIsNone DEF Running
      <3>3. QED
        BY <3>1, <3>2, <1>1 DEF Running
    <2>3. QED
      BY <2>1, <2>2
  <1>10. ASSUME NEW b \in Callers
         PROVE  Holding(b)'
    <2>1. CASE b = c
      BY <2>1, <1>4, <1>5, NoDbIsNone DEF Holding
    <2>2. CASE b # c
      <3>1. Holding(b) /\ caller'[b] = caller[b]
        BY <2>2, <1>5 DEF MigrationInv
      <3>2. caller[b].held \in Stores => store'[caller[b].held] = store[caller[b].held]
        BY <3>1, <1>2, <1>6 DEF Holding
      <3>3. QED
        BY <3>1, <3>2, <1>1 DEF Holding
    <2>3. QED
      BY <2>1, <2>2
  <1>11. ASSUME NEW p \in Processes, NEW n \in Names
         PROVE  Pooling(p, n)'
    <2>1. Pooling(p, n)
      BY DEF MigrationInv
    <2>2. pool[p][n] \in Stores => store'[pool[p][n]] = store[pool[p][n]]
      BY <2>1, <1>2, <1>6, NoDbIsNone DEF Pooling
    <2>3. QED
      BY <2>1, <2>2, <1>1 DEF Pooling
  <1>12. QED
    BY <1>7, <1>8, <1>9, <1>10, <1>11 DEF MigrationInv

LEMMA ConnStep ==
  ASSUME DbTypeOK, MigrationInv, NEW c \in Callers, NEW name \in Names \cup {BadName},
         Conn(c, name)
  PROVE  DbTypeOK' /\ MigrationInv'
  <1>1. CASE Rejects(c) /\ UNCHANGED <<memory, process, files, store, lock, pool>>
    <2>1. caller' = [caller EXCEPT ![c] = Idle] /\ caller'[c] = Idle
      BY <1>1 DEF Rejects, DbTypeOK
    <2>2. Running(c)' /\ Holding(c)'
      BY <2>1, IdleType, NoDbIsNone DEF Running, Holding
    <2>3. QED
      BY <1>1, <2>1, <2>2, IdleType, CallerAlone
  <1>2. CASE /\ name \in Names /\ pool[process[c]][name] # NoDb
             /\ Returns(c, pool[process[c]][name])
             /\ UNCHANGED <<memory, process, files, store, lock, pool>>
    <2> DEFINE d == pool[process[c]][name]
               q == [Idle EXCEPT !.held = d]
    <2>1. d \in Stores /\ process[c] \in Processes
      BY <1>2 DEF DbTypeOK
    <2>2. Pooling(process[c], name)
      BY <1>2, <2>1 DEF MigrationInv
    <2>3. /\ Len(store[d].effects) = Len(Migrations) /\ pool[process[c]][d[2]] # NoDb
          /\ d[1] \in Callers => process[d[1]] = process[c]
      BY <1>2, <2>1, <2>2 DEF Pooling
    <2> HIDE DEF d
    <2>4. q \in CallerState /\ q.at = "idle" /\ q.held = d
      BY <2>1, HeldType
    <2>5. caller' = [caller EXCEPT ![c] = q]
      BY <1>2 DEF Returns, d
    <2> HIDE DEF q
    <2>6. caller'[c] = q
      BY <2>5 DEF DbTypeOK
    <2>7. Running(c)' /\ Holding(c)'
      BY <1>2, <2>3, <2>4, <2>6 DEF Running, Holding
    <2>8. QED
      BY <1>2, <2>4, <2>5, <2>7, CallerAlone
  <1>3. CASE name \in Shards /\ pool[process[c]][name] = NoDb /\ Connects(c, name)
    BY <1>3, ConnectsStep DEF Names
  <1>4. QED
    BY <1>1, <1>2, <1>3 DEF Conn

(* Changing some fields of a caller's state. *)
LEMMA CallerFields ==
  ASSUME DbTypeOK, NEW c \in Callers
  PROVE  /\ caller[c] \in CallerState
         /\ \A step \in {"batch", "record", "commit"} :
              [caller[c] EXCEPT !.at = step] \in CallerState
         /\ \A i \in Nat : [caller[c] EXCEPT !.i = i] \in CallerState
         /\ \A i \in Nat : [caller[c] EXCEPT !.at = "select", !.i = i] \in CallerState
  <1>1. caller[c] \in CallerState
    BY DEF DbTypeOK
  <1>2. QED
    BY <1>1 DEF CallerState

LEMMA CreateTableStep ==
  ASSUME DbTypeOK, MigrationInv, NEW c \in Callers, CreateTable(c)
  PROVE  DbTypeOK' /\ MigrationInv'
  <1> DEFINE q == [caller[c] EXCEPT !.at = "select", !.sql = files, !.i = 1]
  <1>1. /\ caller[c] \in CallerState /\ caller \in [Callers -> CallerState]
        /\ files \in [1 .. Len(Migrations) -> Contents] /\ store \in [Stores -> Database]
    BY DEF DbTypeOK
  <1>2. files \in Seq(Contents)
    BY <1>1, MigrationsLen, SeqDef
  <1>3. /\ caller' = [caller EXCEPT ![c] = q] /\ caller[c].at = "create"
        /\ UNCHANGED <<process, files, store, lock, pool>>
    BY <1>1 DEF CreateTable, At
  <1>4. q \in CallerState
    BY <1>1, <1>2 DEF CallerState
  <1>5. /\ q.at = "select" /\ q.sql = files /\ q.i = 1 /\ q.db = caller[c].db
        /\ q.name = caller[c].name /\ q.held = caller[c].held
    BY <1>1 DEF CallerState
  <1> HIDE DEF q
  <1>6. caller'[c] = q
    BY <1>1, <1>3, <1>4
  <1>7. Running(c) /\ Holding(c)
    BY DEF MigrationInv
  <1>8. caller[c].db \in Stores /\ Len(store[caller[c].db].records) \in Nat
    BY <1>1, <1>3, <1>7, LenProperties DEF Running, Database
  <1>9. Running(c)' /\ Holding(c)'
    BY <1>1, <1>3, <1>5, <1>6, <1>7, <1>8 DEF Running, Holding
  <1>10. QED
    BY <1>3, <1>4, <1>9, CallerAlone

LEMMA SelectStep ==
  ASSUME DbTypeOK, MigrationInv, NEW c \in Callers, Select(c)
  PROVE  DbTypeOK' /\ MigrationInv'
  <1> DEFINE me == caller[c]
             n == Len(store[me.db].records)
  <1>1. me \in CallerState /\ caller \in [Callers -> CallerState] /\ me.i \in Nat
    BY DEF DbTypeOK, CallerState
  <1>2. /\ me.at = "select" /\ me.i <= Len(Migrations)
        /\ UNCHANGED <<process, files, store, lock, pool>>
    BY DEF Select, At
  <1>3. Running(c) /\ Holding(c)
    BY DEF MigrationInv
  <1>4. n \in Nat /\ me.i <= n + 1
    BY <1>2, <1>3, LenProperties DEF Running, DbTypeOK, Database
  <1>5. CASE Rejects(c)
    <2>1. caller' = [caller EXCEPT ![c] = Idle] /\ caller'[c] = Idle
      BY <1>1, <1>5 DEF Rejects
    <2>2. Running(c)' /\ Holding(c)'
      BY <2>1, IdleType, NoDbIsNone DEF Running, Holding
    <2>3. QED
      BY <1>2, <2>1, <2>2, IdleType, CallerAlone
  <1>6. CASE n >= me.i /\ caller' = [caller EXCEPT ![c].i = me.i + 1]
    <2> DEFINE q == [me EXCEPT !.i = me.i + 1]
    <2>1. caller' = [caller EXCEPT ![c] = q] /\ me.i + 1 \in Nat
      BY <1>1, <1>6
    <2>2. q \in CallerState
      BY <2>1, CallerFields
    <2>3. /\ q.at = "select" /\ q.i = me.i + 1 /\ q.db = me.db /\ q.sql = me.sql
          /\ q.name = me.name /\ q.held = me.held
      BY <1>1, <1>2 DEF CallerState
    <2> HIDE DEF q
    <2>4. caller'[c] = q
      BY <1>1, <2>1
    <2>5. Running(c)' /\ Holding(c)'
      BY <1>1, <1>2, <1>3, <1>4, <1>6, <2>3, <2>4 DEF Running, Holding
    <2>6. QED
      BY <1>2, <2>1, <2>2, <2>5, CallerAlone
  <1>7. CASE Step(c, "batch")
    <2> DEFINE q == [me EXCEPT !.at = "batch"]
    <2>1. caller' = [caller EXCEPT ![c] = q]
      BY <1>1, <1>7 DEF Step
    <2>2. q \in CallerState
      BY CallerFields
    <2>3. /\ q.at = "batch" /\ q.i = me.i /\ q.db = me.db /\ q.sql = me.sql
          /\ q.name = me.name /\ q.held = me.held
      BY <1>1 DEF CallerState
    <2> HIDE DEF q
    <2>4. caller'[c] = q
      BY <1>1, <2>1
    <2>5. Running(c)' /\ Holding(c)'
      BY <1>2, <1>3, <2>3, <2>4 DEF Running, Holding
    <2>6. QED
      BY <1>2, <2>1, <2>2, <2>5, CallerAlone
  <1>8. QED
    BY <1>5, <1>6, <1>7 DEF Select

LEMMA RecordStep ==
  ASSUME DbTypeOK, MigrationInv, NEW c \in Callers, Record(c)
  PROVE  DbTypeOK' /\ MigrationInv'
  <1> DEFINE me == caller[c]
             q == [me EXCEPT !.at = "commit"]
  <1>1. me \in CallerState /\ caller \in [Callers -> CallerState]
    BY DEF DbTypeOK
  <1>2. /\ me.at = "record" /\ Len(store[me.db].records) < me.i
        /\ caller' = [caller EXCEPT ![c] = q]
        /\ UNCHANGED <<process, files, store, lock, pool>>
    BY <1>1 DEF Record, At, Step
  <1>3. Running(c) /\ Holding(c)
    BY DEF MigrationInv
  <1>4. q \in CallerState
    BY CallerFields
  <1>5. /\ q.at = "commit" /\ q.i = me.i /\ q.db = me.db /\ q.sql = me.sql
        /\ q.name = me.name /\ q.held = me.held
    BY <1>1 DEF CallerState
  <1> HIDE DEF q
  <1>6. caller'[c] = q
    BY <1>1, <1>2
  <1>i. me.i \in Nat /\ Len(store[me.db].records) \in Nat
    BY <1>1, <1>2, <1>3, LenProperties DEF DbTypeOK, CallerState, Running, Database
  <1>7. Running(c)' /\ Holding(c)'
    BY <1>2, <1>3, <1>5, <1>6, <1>i DEF Running, Holding
  <1>8. QED
    BY <1>2, <1>4, <1>7, CallerAlone

LEMMA BatchStep ==
  ASSUME DbTypeOK, MigrationInv, NEW c \in Callers, Batch(c)
  PROVE  DbTypeOK' /\ MigrationInv'
  <1> DEFINE me == caller[c]
             q == [me EXCEPT !.at = "record"]
  <1>1. me \in CallerState /\ caller \in [Callers -> CallerState]
    BY DEF DbTypeOK
  <1>2. /\ me.at = "batch" /\ lock[me.db] = NoDb /\ lock' = [lock EXCEPT ![me.db] = c]
        /\ caller' = [caller EXCEPT ![c] = q]
        /\ UNCHANGED <<process, files, store, pool>>
    BY <1>1 DEF Batch, At, Step, Unlocked
  <1>3. Running(c) /\ Holding(c) /\ me.db \in Stores
    BY <1>2 DEF MigrationInv, Running
  <1>4. q \in CallerState
    BY CallerFields
  <1>5. /\ q.at = "record" /\ q.i = me.i /\ q.db = me.db /\ q.sql = me.sql
        /\ q.name = me.name /\ q.held = me.held
    BY <1>1 DEF CallerState
  <1> HIDE DEF q
  <1>6. /\ caller' \in [Callers -> CallerState] /\ caller'[c] = q
        /\ \A b \in Callers : b # c => caller'[b] = caller[b]
    BY <1>1, <1>2, <1>4
  <1>7. /\ lock' \in [Stores -> Callers \cup {NoDb}] /\ lock'[me.db] = c
        /\ \A d \in Stores : lock[d] # NoDb => lock'[d] = lock[d]
    BY <1>2, <1>3 DEF DbTypeOK
  <1>8. DbTypeOK'
    BY <1>2, <1>6, <1>7 DEF DbTypeOK
  <1>9. Running(c)' /\ Holding(c)'
    BY <1>2, <1>3, <1>5, <1>6, <1>7 DEF Running, Holding
  <1>10. ASSUME NEW b \in Callers, b # c
         PROVE  Running(b)' /\ Holding(b)'
    <2>1. Running(b) /\ Holding(b) /\ caller'[b] = caller[b]
      BY <1>6, <1>10 DEF MigrationInv
    <2>2. caller[b].at \in {"record", "commit"} => lock'[caller[b].db] = b
      BY <2>1, <1>7, NoDbIsNone DEF Running
    <2>3. QED
      BY <2>1, <2>2, <1>2 DEF Running, Holding
  <1>11. \A d \in Stores : Applied(d)'
    BY <1>2 DEF MigrationInv, Applied, fnv1a_hex
  <1>12. \A p \in Processes, n \in Names : Pooling(p, n)'
    BY <1>2 DEF MigrationInv, Pooling
  <1>13. QED
    BY <1>8, <1>9, <1>10, <1>11, <1>12 DEF MigrationInv

(* COMMIT: the caller has the lock, so the migration is the next one. *)
LEMMA CommitStep ==
  ASSUME DbTypeOK, MigrationInv, NEW c \in Callers, Commit(c)
  PROVE  DbTypeOK' /\ MigrationInv'
  <1> DEFINE me == caller[c]
             db == me.db
             e == <<me.i, me.sql[me.i]>>
             new == [effects |-> Append(store[db].effects, e),
                     records |-> Append(store[db].records, fnv1a_hex(me.sql[me.i]))]
             q == [me EXCEPT !.at = "select", !.i = me.i + 1]
  <1>1. me \in CallerState /\ caller \in [Callers -> CallerState] /\ me.i \in Nat
    BY DEF DbTypeOK, CallerState
  <1>2. me.at = "commit"
    BY DEF Commit, At
  <1>3. Running(c) /\ Holding(c)
    BY DEF MigrationInv
  <1>4. /\ db \in Stores /\ db[1] \in {NoDb, c} /\ db[2] = me.name
        /\ me.sql \in [1 .. Len(Migrations) -> Contents]
        /\ me.i >= 1 /\ me.i <= Len(Migrations) /\ lock[db] = c
        /\ me.i <= Len(store[db].records) + 1 /\ me.i > Len(store[db].records)
    BY <1>2, <1>3 DEF Running
  <1>5. store' = [store EXCEPT ![db] = new]
    BY <1>4 DEF Commit, DbTypeOK
  <1>6. /\ lock' = [lock EXCEPT ![db] = NoDb] /\ caller' = [caller EXCEPT ![c] = q]
        /\ UNCHANGED <<process, files, pool>>
    BY <1>1 DEF Commit
  <1>7. q \in CallerState
    <2>1. me.i + 1 \in Nat
      BY <1>1
    <2>2. QED
      BY <2>1, CallerFields
  <1>8. /\ q.at = "select" /\ q.i = me.i + 1 /\ q.db = db /\ q.sql = me.sql
        /\ q.name = me.name /\ q.held = me.held
    BY <1>1 DEF CallerState
  <1> HIDE DEF q
  <1>9. /\ caller' \in [Callers -> CallerState] /\ caller'[c] = q
        /\ \A b \in Callers : b # c => caller'[b] = caller[b]
    BY <1>1, <1>6, <1>7
  <1>10. /\ store[db].effects \in Seq(Nat \X Contents) /\ store[db].records \in Seq(Nat)
         /\ e \in Nat \X Contents /\ fnv1a_hex(me.sql[me.i]) \in Nat
    BY <1>1, <1>4, MigrationsLen, DatabasesAssumption DEF DbTypeOK, Database, fnv1a_hex
  <1>11. /\ Len(store[db].effects) \in Nat /\ Len(store[db].records) \in Nat
         /\ Len(store[db].effects) = Len(store[db].records)
         /\ DOMAIN store[db].effects = 1 .. Len(store[db].effects)
         /\ \A i \in DOMAIN store[db].effects :
              /\ store[db].effects[i][1] = i
              /\ store[db].records[i] = fnv1a_hex(store[db].effects[i][2])
    BY <1>4, <1>10, LenProperties DEF MigrationInv, Applied
  <1>12. me.i = Len(store[db].records) + 1
    BY <1>1, <1>4, <1>11
  <1> DEFINE sum == fnv1a_hex(me.sql[me.i])
             effects == store[db].effects
             records == store[db].records
  <1>13. /\ new.effects = Append(effects, e) /\ new.records = Append(records, sum)
         /\ new \in Database
    <2>1. effects \in Seq(Nat \X Contents) /\ records \in Seq(Nat) /\ sum \in Nat
      BY <1>10
    <2>2. e \in Nat \X Contents
      BY <1>10
    <2>3. new = [effects |-> Append(effects, e), records |-> Append(records, sum)]
      OBVIOUS
    <2> HIDE DEF effects, records, sum, e, new
    <2>4. Append(effects, e) \in Seq(Nat \X Contents) /\ Append(records, sum) \in Seq(Nat)
      BY <2>1, <2>2, AppendProperties
    <2>5. QED
      BY <2>3, <2>4 DEF Database
  <1>14. e[1] = me.i /\ fnv1a_hex(e[2]) = sum
    OBVIOUS
  <1> HIDE DEF new, e, sum
  <1>15. /\ Len(new.effects) = me.i /\ Len(new.records) = me.i
         /\ DOMAIN new.effects = 1 .. me.i
         /\ new.effects[me.i] = e /\ new.records[me.i] = sum
         /\ \A i \in 1 .. Len(effects) :
              new.effects[i] = effects[i] /\ new.records[i] = records[i]
    <2>1. effects \in Seq(Nat \X Contents) /\ records \in Seq(Nat) /\ sum \in Nat
      BY <1>10 DEF sum
    <2> HIDE DEF effects, records
    <2>2. /\ Append(effects, e) \in Seq(Nat \X Contents)
          /\ Len(Append(effects, e)) = Len(effects) + 1
          /\ Append(effects, e)[Len(effects) + 1] = e
          /\ \A i \in 1 .. Len(effects) : Append(effects, e)[i] = effects[i]
      BY <2>1, <1>10, AppendProperties
    <2>3. /\ Len(Append(records, sum)) = Len(records) + 1
          /\ Append(records, sum)[Len(records) + 1] = sum
          /\ \A i \in 1 .. Len(records) : Append(records, sum)[i] = records[i]
      BY <2>1, AppendProperties
    <2>4. Len(effects) = Len(records) /\ me.i = Len(records) + 1 /\ Len(records) \in Nat
      BY <1>11, <1>12 DEF effects, records
    <2>5. DOMAIN Append(effects, e) = 1 .. Len(Append(effects, e))
      BY <2>2, LenProperties
    <2>6. QED
      BY <2>2, <2>3, <2>4, <2>5, <1>13
  <1>16. /\ store' \in [Stores -> Database] /\ store'[db] = new
         /\ \A d \in Stores : d # db => store'[d] = store[d]
    BY <1>4, <1>5, <1>13 DEF DbTypeOK
  <1>17. /\ lock' \in [Stores -> Callers \cup {NoDb}]
         /\ \A d \in Stores : d # db => lock'[d] = lock[d]
    BY <1>4, <1>6 DEF DbTypeOK
  <1>18. DbTypeOK'
    BY <1>6, <1>9, <1>16, <1>17 DEF DbTypeOK
  <1>19. ASSUME NEW d \in Stores
         PROVE  Applied(d)'
    <2>1. CASE d # db
      BY <2>1, <1>16 DEF MigrationInv, Applied, fnv1a_hex
    <2>2. CASE d = db
      <3>1. ASSUME NEW i \in 1 .. me.i
            PROVE  new.effects[i][1] = i /\ new.records[i] = fnv1a_hex(new.effects[i][2])
        <4>1. CASE i = me.i
          BY <4>1, <1>14, <1>15
        <4>2. CASE i # me.i
          <5>1. i \in 1 .. Len(effects)
            BY <4>2, <1>1, <1>11, <1>12
          <5>2. QED
            BY <5>1, <1>11, <1>15
        <4>3. QED
          BY <4>1, <4>2
      <3>2. QED
        BY <2>2, <3>1, <1>4, <1>15, <1>16 DEF Applied, fnv1a_hex
    <2>3. QED
      BY <2>1, <2>2
  <1>20. Running(c)'
    <2>1. /\ caller'[c].at = "select" /\ caller'[c].i = me.i + 1 /\ caller'[c].db = db
          /\ caller'[c].sql = me.sql /\ caller'[c].name = me.name
      BY <1>8, <1>9
    <2>2. Len(store'[db].records) = me.i
      BY <1>15, <1>16
    <2> HIDE DEF db, me
    <2>3. QED
      BY <2>1, <2>2, <1>1, <1>4 DEF Running
  <1>21. \A d \in Stores : Len(store[d].effects) = Len(Migrations) => store'[d] = store[d]
    BY <1>4, <1>11, <1>12, <1>16, MigrationsLen
  <1>22. Holding(c)'
    BY <1>3, <1>6, <1>8, <1>9, <1>21 DEF Holding
  <1>23. ASSUME NEW b \in Callers, b # c
         PROVE  Running(b)' /\ Holding(b)'
    <2>1. Running(b) /\ Holding(b) /\ caller'[b] = caller[b]
      BY <1>9, <1>23 DEF MigrationInv
    <2>2. Holding(b)'
      BY <2>1, <1>6, <1>21 DEF Holding
    <2>3. CASE caller[b].db # db
      <3>1. caller[b].at # "idle" => /\ store'[caller[b].db] = store[caller[b].db]
                                     /\ lock'[caller[b].db] = lock[caller[b].db]
        BY <2>1, <2>3, <1>16, <1>17 DEF Running
      <3>2. QED
        BY <2>1, <2>2, <3>1 DEF Running
    <2>4. CASE caller[b].db = db
      <3>1. caller[b].at \notin {"record", "commit"}
        BY <2>1, <2>4, <1>4, <1>23 DEF Running
      <3>2. caller[b].i \in Nat
        BY DEF DbTypeOK, CallerState
      <3>3. QED
        BY <2>1, <2>2, <2>4, <3>1, <3>2, <1>11, <1>12, <1>15, <1>16, SMTT(30) DEF Running
    <2>5. QED
      BY <2>3, <2>4
  <1>24. \A p \in Processes, n \in Names : Pooling(p, n)'
    BY <1>6, <1>21 DEF MigrationInv, Pooling
  <1>25. QED
    BY <1>18, <1>19, <1>20, <1>22, <1>23, <1>24 DEF MigrationInv

LEMMA FailsStep ==
  ASSUME DbTypeOK, MigrationInv, NEW c \in Callers, Fails(c)
  PROVE  DbTypeOK' /\ MigrationInv'
  <1>1. /\ caller' = [caller EXCEPT ![c] = Idle]
        /\ lock' = [d \in Stores |-> IF lock[d] = c THEN NoDb ELSE lock[d]]
        /\ UNCHANGED <<process, files, store, pool>>
    BY DEF Fails, Rejects
  <1>2. /\ caller' \in [Callers -> CallerState] /\ caller'[c] = Idle
        /\ \A b \in Callers : b # c => caller'[b] = caller[b]
    BY <1>1, IdleType DEF DbTypeOK
  <1>3. /\ lock' \in [Stores -> Callers \cup {NoDb}]
        /\ \A d \in Stores : lock[d] # c => lock'[d] = lock[d]
    BY <1>1 DEF DbTypeOK
  <1>4. DbTypeOK'
    BY <1>1, <1>2, <1>3 DEF DbTypeOK
  <1>5. Running(c)' /\ Holding(c)'
    BY <1>2, IdleType, NoDbIsNone DEF Running, Holding
  <1>6. ASSUME NEW b \in Callers, b # c
        PROVE  Running(b)' /\ Holding(b)'
    <2>1. Running(b) /\ Holding(b) /\ caller'[b] = caller[b]
      BY <1>2, <1>6 DEF MigrationInv
    <2>2. caller[b].at \in {"record", "commit"} => lock'[caller[b].db] = b
      BY <2>1, <1>3, <1>6 DEF Running
    <2>3. QED
      BY <2>1, <2>2, <1>1 DEF Running, Holding
  <1>7. \A d \in Stores : Applied(d)'
    BY <1>1 DEF MigrationInv, Applied, fnv1a_hex
  <1>8. \A p \in Processes, n \in Names : Pooling(p, n)'
    BY <1>1 DEF MigrationInv, Pooling
  <1>9. QED
    BY <1>4, <1>5, <1>6, <1>7, <1>8 DEF MigrationInv

LEMMA InsertStep ==
  ASSUME DbTypeOK, MigrationInv, NEW c \in Callers, Insert(c)
  PROVE  DbTypeOK' /\ MigrationInv'
  <1> DEFINE me == caller[c]
             db == me.db
             q == [Idle EXCEPT !.held = db]
  <1>1. /\ me.at = "select" /\ me.i > Len(Migrations)
        /\ pool' = [pool EXCEPT ![process[c]][me.name] = db]
        /\ caller' = [caller EXCEPT ![c] = q]
        /\ UNCHANGED <<process, files, store, lock>>
    BY DEF Insert, At, Returns
  <1>2. /\ me.i \in Nat /\ me.name \in Names /\ process[c] \in Processes
        /\ pool \in [Processes -> [Names -> Stores \cup {NoDb}]]
    BY DEF DbTypeOK, CallerState
  <1>3. /\ db \in Stores /\ db[1] \in {NoDb, c} /\ db[2] = me.name
        /\ me.i <= Len(store[db].records) + 1
    BY <1>1 DEF MigrationInv, Running
  <1>4. q \in CallerState /\ q.at = "idle" /\ q.held = db
    BY <1>3, HeldType
  <1> HIDE DEF q
  <1>5. /\ caller' \in [Callers -> CallerState] /\ caller'[c] = q
        /\ \A b \in Callers : b # c => caller'[b] = caller[b]
    BY <1>1, <1>4 DEF DbTypeOK
  <1>6. Len(store[db].effects) = Len(Migrations)
    <2>1. /\ Applied(db) /\ store[db].effects \in Seq(Nat \X Contents)
          /\ store[db].records \in Seq(Nat)
      BY <1>3 DEF MigrationInv, DbTypeOK, Database
    <2>2. Len(store[db].effects) \in Nat /\ Len(store[db].records) \in Nat
      BY <2>1, LenProperties
    <2>3. QED
      BY <1>1, <1>2, <1>3, <2>1, <2>2, MigrationsLen DEF Applied
  <1> HIDE DEF db
  <1>7. /\ pool' \in [Processes -> [Names -> Stores \cup {NoDb}]]
        /\ pool'[process[c]][me.name] = db
        /\ \A p \in Processes, n \in Names :
             <<p, n>> # <<process[c], me.name>> => pool'[p][n] = pool[p][n]
    BY <1>1, <1>2, <1>3
  <1>8. \A p \in Processes, n \in Names : pool[p][n] # NoDb => pool'[p][n] # NoDb
    BY <1>3, <1>7, NoDbIsNone
  <1>9. DbTypeOK'
    BY <1>1, <1>5, <1>7 DEF DbTypeOK
  <1>10. Running(c)' /\ Holding(c)'
    BY <1>1, <1>3, <1>4, <1>5, <1>6, <1>7, NoDbIsNone DEF Running, Holding
  <1>11. ASSUME NEW b \in Callers, b # c
         PROVE  Running(b)' /\ Holding(b)'
    <2>1. Running(b) /\ Holding(b) /\ caller'[b] = caller[b] /\ process[b] \in Processes
      BY <1>5, <1>11 DEF MigrationInv, DbTypeOK
    <2>2. Running(b)'
      BY <2>1, <1>1 DEF Running
    <2>3. caller[b].held \in Stores => caller[b].held[2] \in Names
      BY StoreParts
    <2>4. QED
      BY <2>1, <2>2, <2>3, <1>1, <1>8 DEF Holding
  <1>12. \A d \in Stores : Applied(d)'
    BY <1>1 DEF MigrationInv, Applied, fnv1a_hex
  <1>13. ASSUME NEW p \in Processes, NEW n \in Names
         PROVE  Pooling(p, n)'
    <2>1. CASE <<p, n>> # <<process[c], me.name>>
      BY <2>1, <1>1, <1>7 DEF MigrationInv, Pooling
    <2>2. CASE p = process[c] /\ n = me.name
      BY <2>2, <1>1, <1>3, <1>6, <1>7, NoDbIsNone DEF Pooling
    <2>3. QED
      BY <2>1, <2>2
  <1>14. QED
    BY <1>9, <1>10, <1>11, <1>12, <1>13 DEF MigrationInv

(* A process stops or crashes: the memory of its callers was known to no   *)
(* other process.                                                          *)
LEMMA StopStep ==
  ASSUME DbTypeOK, MigrationInv, NEW p \in Processes, Stop(p)
  PROVE  DbTypeOK' /\ MigrationInv'
  <1> DEFINE mine == {c \in Callers : process[c] = p}
             none == [n \in Names |-> NoDb]
  <1>1. /\ pool' = [pool EXCEPT ![p] = none]
        /\ caller' = [c \in Callers |-> IF c \in mine THEN Idle ELSE caller[c]]
        /\ lock' = [d \in Stores |-> IF lock[d] \in mine THEN NoDb ELSE lock[d]]
        /\ store' = [d \in Stores |-> IF d[1] \in mine THEN Empty ELSE store[d]]
        /\ UNCHANGED <<process, files>>
    BY DEF Stop
  <1>2. /\ caller' \in [Callers -> CallerState]
        /\ \A c \in Callers : caller'[c] = IF process[c] = p THEN Idle ELSE caller[c]
    BY <1>1, IdleType DEF DbTypeOK
  <1>3. /\ store' \in [Stores -> Database]
        /\ \A d \in Stores : /\ d[1] \notin mine => store'[d] = store[d]
                             /\ d[1] \in mine => store'[d] = Empty
    BY <1>1, EmptyType DEF DbTypeOK
  <1>4. /\ lock' \in [Stores -> Callers \cup {NoDb}]
        /\ \A d \in Stores : lock[d] \notin mine => lock'[d] = lock[d]
    BY <1>1 DEF DbTypeOK
  <1>5. /\ pool' \in [Processes -> [Names -> Stores \cup {NoDb}]]
        /\ \A n \in Names : pool'[p][n] = NoDb
        /\ \A r \in Processes : r # p => pool'[r] = pool[r]
    BY <1>1 DEF DbTypeOK
  <1>6. DbTypeOK'
    BY <1>1, <1>2, <1>3, <1>4, <1>5 DEF DbTypeOK
  <1>7. ASSUME NEW d \in Stores
        PROVE  Applied(d)'
    <2>1. CASE store'[d] = store[d]
      BY <2>1 DEF MigrationInv, Applied, fnv1a_hex
    <2>2. CASE store'[d] = Empty
      BY <2>2, EmptyType, MigrationsLen DEF Applied
    <2>3. QED
      BY <1>3, <2>1, <2>2
  <1>8. ASSUME NEW c \in Callers
        PROVE  Running(c)' /\ Holding(c)'
    <2>1. CASE process[c] = p
      <3>1. caller'[c] = Idle
        BY <2>1, <1>2
      <3>2. QED
        BY <3>1, IdleType, NoDbIsNone DEF Running, Holding
    <2>2. CASE process[c] # p
      <3>1. /\ Running(c) /\ Holding(c) /\ caller'[c] = caller[c] /\ process[c] \in Processes
        BY <2>2, <1>2 DEF MigrationInv, DbTypeOK
      <3>2. caller[c].at # "idle" => store'[caller[c].db] = store[caller[c].db]
        BY <2>2, <3>1, <1>3, NoDbIsNone DEF Running
      <3>3. caller[c].at \in {"record", "commit"} => lock'[caller[c].db] = c
        BY <2>2, <3>1, <1>4 DEF Running
      <3>4. Running(c)'
        BY <3>1, <3>2, <3>3 DEF Running
      <3>5. caller[c].held \in Stores => store'[caller[c].held] = store[caller[c].held]
        BY <2>2, <3>1, <1>3 DEF Holding
      <3>6. Holding(c)'
        BY <2>2, <3>1, <3>5, <1>1, <1>5 DEF Holding
      <3>7. QED
        BY <3>4, <3>6
    <2>3. QED
      BY <2>1, <2>2
  <1>9. ASSUME NEW r \in Processes, NEW n \in Names
        PROVE  Pooling(r, n)'
    <2>1. CASE r = p
      BY <2>1, <1>5, NoDbIsNone DEF Pooling
    <2>2. CASE r # p
      <3>1. Pooling(r, n) /\ pool'[r] = pool[r]
        BY <2>2, <1>5 DEF MigrationInv
      <3>2. pool[r][n] \in Stores => store'[pool[r][n]] = store[pool[r][n]]
        BY <2>2, <3>1, <1>3 DEF Pooling
      <3>3. QED
        BY <3>1, <3>2, <1>1 DEF Pooling
    <2>3. QED
      BY <2>1, <2>2
  <1>10. QED
    BY <1>6, <1>7, <1>8, <1>9 DEF MigrationInv

LEMMA MigrationStep ==
  ASSUME DbTypeOK, MigrationInv, [Next]_vars
  PROVE  DbTypeOK' /\ MigrationInv'
  <1>1. ASSUME NEW c \in Callers, New(c)
        PROVE  DbTypeOK' /\ MigrationInv'
    <2>1. Default \in Names
      BY DEF Names
    <2>2. QED
      BY <1>1, <2>1, ConnectsStep DEF New
  <1>2. CASE Deploy
    <2>1. /\ files' \in [1 .. Len(Migrations) -> Contents]
          /\ UNCHANGED <<memory, process, store, lock, pool, caller>>
      BY <1>2 DEF Deploy, DbTypeOK
    <2>2. QED
      BY <2>1 DEF DbTypeOK, MigrationInv, Applied, Running, Holding, Pooling, fnv1a_hex
  <1>3. CASE UNCHANGED vars
    BY <1>3 DEF vars, DbTypeOK, MigrationInv, Applied, Running, Holding, Pooling, fnv1a_hex
  <1>4. QED
    BY <1>1, <1>2, <1>3, ConnStep, CreateTableStep, SelectStep, BatchStep, RecordStep, CommitStep,
       FailsStep, InsertStep, StopStep DEF Next

(* Each migration takes effect once, in the order of the files, together   *)
(* with its record, and nobody gets a database before all of them did,     *)
(* whatever callers and processes open it together (migrate, DatabasePool).*)
THEOREM MigrationsApplyOnce == Spec => []MigratedOnce
  <1>1. Init => DbTypeOK
    <2>1. Released \in [1 .. Len(Migrations) -> Contents]
      BY DatabasesAssumption DEF Released
    <2>2. QED
      BY <2>1, IdleType, EmptyType DEF Init, DbTypeOK
  <1>2. Init => MigrationInv
    <2> SUFFICES ASSUME Init PROVE MigrationInv
      OBVIOUS
    <2>1. /\ \A d \in Stores : store[d] = Empty
          /\ \A c \in Callers : caller[c] = Idle
          /\ \A p \in Processes, n \in Names : pool[p][n] = NoDb
      BY DEF Init
    <2>2. \A d \in Stores : Applied(d)
      BY <2>1, EmptyType, MigrationsLen DEF Applied
    <2>3. \A c \in Callers : Running(c) /\ Holding(c)
      BY <2>1, IdleType, NoDbIsNone DEF Running, Holding
    <2>4. \A p \in Processes, n \in Names : Pooling(p, n)
      BY <2>1, NoDbIsNone DEF Pooling
    <2>5. QED
      BY <2>2, <2>3, <2>4 DEF MigrationInv
  <1>3. DbTypeOK /\ MigrationInv /\ [Next]_vars => DbTypeOK' /\ MigrationInv'
    BY MigrationStep
  <1>4. MigrationInv => MigratedOnce
    BY DEF MigrationInv, Applied, Holding, Pooling, MigratedOnce, Handles
  <1>5. QED
    BY <1>1, <1>2, <1>3, <1>4, PTL DEF Spec

-----------------------------------------------------------------------------
(* File storage. *)

Requests == {"put", "cleanup", "delete", "delete_each"}
StorageCall ==
  [at : Requests \cup {"idle", "list", "deleting"}, key : Paths \cup {None},
   keys : SUBSET Paths, prefix : PathPrefixes \cup {None}, token : Nat,
   reply : {None, "ok", "error"}, started : SUBSET Paths]

ObjectsTypeOK ==
  /\ bucket \subseteq Paths /\ acked \subseteq Paths /\ doomed \subseteq Paths /\ gone \subseteq Paths
  /\ late \subseteq Requests \X Paths
  /\ storing \in [Callers -> StorageCall]
  /\ \A c \in Callers : storing[c].at \in Requests => storing[c].key \in Paths
  /\ usedIds \in Nat

Uploading(c) == storing[c].at \in {"put", "cleanup"}
Pending(key) ==
  \/ \E c \in Callers : storing[c].at = "put" /\ storing[c].reply = None /\ storing[c].key = key
  \/ <<"put", key>> \in late
Known(key) ==
  \/ key \in bucket \/ key \in acked \/ key \in doomed \/ key \in gone
  \/ \E c \in Callers : key \in storing[c].started
  \/ \E c \in Callers : Uploading(c) /\ storing[c].key = key
  \/ <<"put", key>> \in late \/ <<"cleanup", key>> \in late
Removes(key) == \E k \in doomed : key = k \/ key = Objects!Escaped(k)

(* A key that was there when delete_prefix began is gone, or comes on a    *)
(* later page, or is one to delete.                                        *)
Remaining(me) ==
  me.at \in {"list", "deleting", "delete_each"} =>
    \A key \in me.started : Objects!Escaped(key) = key =>
      \/ key \notin bucket
      \/ key \in me.keys
      \/ me.at = "list" /\ Objects!IdOf(key) > me.token /\ Objects!IsPrefix(me.prefix, key)
      \/ me.at = "delete_each" /\ key = me.key /\ me.reply # "ok"

(* Every key that was generated has an id of its own. *)
IdsInv ==
  \A key : Known(key) =>
    /\ Objects!IdOf(key) \in DOMAIN Ulids /\ Objects!IdOf(key) <= usedIds
    /\ Objects!Carries(key, Objects!IdOf(key))
    /\ \A other : Known(other) /\ Objects!IdOf(other) = Objects!IdOf(key) => other = key

(* What is deleted is, up to escapes, what somebody asked to delete. *)
RemovalInv ==
  /\ \A c \in Callers : storing[c].at \in {"delete", "delete_each"} => Removes(storing[c].key)
  /\ \A c \in Callers : \A key \in storing[c].keys : Removes(key)
  /\ \A key : <<"delete", key>> \in late \/ <<"delete_each", key>> \in late => Removes(key)

(* An upload under way has a key of its own that nobody was told of. *)
UploadInv ==
  /\ \A c, d \in Callers : Uploading(c) /\ Uploading(d) /\ storing[c].key = storing[d].key => c = d
  /\ \A c \in Callers : Uploading(c) => storing[c].key \notin acked
  /\ \A key : <<"put", key>> \in late \/ <<"cleanup", key>> \in late =>
       /\ key \notin acked
       /\ \A c \in Callers : storing[c].at = "put" /\ storing[c].reply # "error" =>
            storing[c].key # key
  /\ \A c \in Callers : storing[c].at = "put" /\ storing[c].reply = "ok" =>
       storing[c].key \in bucket \/ storing[c].key \in doomed
  /\ Objects!AcknowledgedIsStored

(* A key that was deleted is not about to be stored. *)
DeletionInv ==
  /\ \A key : Pending(key) =>
       /\ key \notin bucket /\ key \notin gone
       /\ \A c \in Callers : key \notin storing[c].started
  /\ \A c \in Callers : storing[c].at = "delete" =>
       storing[c].key \in acked /\ (storing[c].reply = "ok" => storing[c].key \notin bucket)
  /\ \A c \in Callers : Remaining(storing[c])
  /\ Objects!PrefixIsGone

ObjectsInv == ObjectsTypeOK /\ IdsInv /\ RemovalInv /\ UploadInv /\ DeletionInv

-----------------------------------------------------------------------------
(* A key that carries an id has it as its own, escaped or not. *)
LEMMA IdOfCarried ==
  ASSUME ObjectsAssumption, NEW key, NEW i \in DOMAIN Ulids, Objects!Carries(key, i)
  PROVE  Objects!IdOf(key) = i
  BY DEF Objects!IdOf, Objects!Carries

LEMMA EscapedPath ==
  ASSUME ObjectsAssumption, NEW key \in Paths
  PROVE  Objects!Escaped(key) \in Paths
  <1> DEFINE e == Objects!Escaped(key)
  <1>1. Len(key) \in Nat /\ key \in [1 .. Len(key) -> Chars] /\ DOMAIN key = 1 .. Len(key)
    BY LenProperties DEF Paths
  <1>2. "&amp;" \in Chars
    BY DEF ObjectsAssumption
  <1>3. e \in [1 .. Len(key) -> Chars]
    BY <1>1, <1>2 DEF Objects!Escaped
  <1>4. QED
    BY <1>1, <1>3, SeqDef DEF Paths

LEMMA EscapedCarries ==
  ASSUME ObjectsAssumption, NEW key, NEW i, Objects!Carries(key, i)
  PROVE  Objects!Carries(Objects!Escaped(key), i)
  <1> DEFINE e == Objects!Escaped(key)
  <1>1. DOMAIN e = DOMAIN key
        /\ \A j \in DOMAIN key : e[j] = IF key[j] = "&" THEN "&amp;" ELSE key[j]
    BY DEF Objects!Escaped
  <1> HIDE DEF e
  <1>2. \A n \in DOMAIN Ulids : Ulids[n] # "&" /\ Ulids[n] # "&amp;"
    BY DEF ObjectsAssumption, Objects!IdsAreUnique
  <1>3. ASSUME NEW n \in DOMAIN Ulids
        PROVE  Ulids[n] \in Objects!Range(e) <=> Ulids[n] \in Objects!Range(key)
    <2>1. Objects!Range(e) = {e[j] : j \in DOMAIN key}
      BY <1>1 DEF Objects!Range
    <2>2. Objects!Range(key) = {key[j] : j \in DOMAIN key}
      BY DEF Objects!Range
    <2>3. \A j \in DOMAIN key : e[j] = Ulids[n] <=> key[j] = Ulids[n]
      BY <1>1, <1>2
    <2>4. QED
      BY <2>1, <2>2, <2>3
  <1>4. QED
    BY <1>3 DEF e, Objects!Carries

(* A key that is generated carries its id. *)
LEMMA GeneratedCarries ==
  ASSUME ObjectsAssumption, NEW prefix \in PathPrefixes, NEW file \in Files,
         NEW i \in DOMAIN Ulids
  PROVE  LET key == Objects!generate_key(prefix, Ulids[i], Objects!extension(file.filename)) IN
         key \in Paths /\ Objects!Carries(key, i)
  <1> DEFINE ext == Objects!extension(file.filename)
             key == Objects!generate_key(prefix, Ulids[i], ext)
             name == file.filename
             end == IF ext # <<>> /\ ext[2] # "" THEN ext ELSE <<>>
             id == <<Ulids[i]>>
             front == prefix \o id
  <1>1. prefix \in Paths /\ name \in Paths /\ Ulids \in Paths /\ Ulids[i] \in Chars
    BY ElementOfSeq, LenProperties DEF ObjectsAssumption, Paths
  <1>2. end \in Paths /\ \A j \in DOMAIN end : end[j] = "." \/ \E n \in DOMAIN name : end[j] = name[n]
    <2>1. CASE Len(name) < 2
      BY <2>1 DEF Objects!extension, Paths
    <2>2. CASE ~(Len(name) < 2)
      <3>1. ext = <<".", name[Len(name)]>>
        BY <2>2 DEF Objects!extension, Objects!Last
      <3>2. Len(name) \in DOMAIN name /\ name[Len(name)] \in Chars /\ "." \in Chars
        <4>1. Len(name) \in Nat /\ DOMAIN name = 1 .. Len(name)
          BY <1>1, LenProperties DEF Paths
        <4>2. Len(name) \in 1 .. Len(name)
          BY <2>2, <4>1
        <4>3. name[Len(name)] \in Chars
          BY <1>1, <4>2, ElementOfSeq DEF Paths
        <4>4. QED
          BY <4>1, <4>2, <4>3 DEF ObjectsAssumption
      <3> DEFINE last == name[Len(name)]
      <3> HIDE DEF last
      <3>3. <<".", last>> \in Seq(Chars) /\ \A j \in DOMAIN <<".", last>> :
              <<".", last>>[j] = "." \/ <<".", last>>[j] = last
        BY <3>2 DEF last
      <3>4. end = <<".", last>> \/ end = <<>>
        BY <3>1 DEF last
      <3> HIDE DEF end, name
      <3>5. CASE end = <<".", last>>
        BY <3>2, <3>3, <3>5 DEF last, Paths
      <3>6. CASE end = <<>>
        BY <3>6 DEF Paths
      <3>7. QED
        BY <3>4, <3>5, <3>6
    <2>3. QED
      BY <2>1, <2>2
  <1> HIDE DEF end, ext
  <1>3. key = front \o end
    BY DEF Objects!generate_key, end
  <1>4. id \in Paths /\ Len(id) = 1 /\ id[1] = Ulids[i]
    BY <1>1 DEF Paths
  <1> HIDE DEF id
  <1>5. /\ front \in Paths /\ Len(front) = Len(prefix) + 1 /\ Len(prefix) \in Nat
        /\ \A j \in 1 .. Len(prefix) + 1 : front[j] = IF j <= Len(prefix) THEN prefix[j] ELSE id[j - Len(prefix)]
        /\ DOMAIN front = 1 .. Len(prefix) + 1 /\ DOMAIN prefix = 1 .. Len(prefix)
    <2>1. /\ front \in Seq(Chars) /\ Len(front) = Len(prefix) + Len(id)
          /\ \A j \in 1 .. Len(prefix) + Len(id) :
               front[j] = IF j <= Len(prefix) THEN prefix[j] ELSE id[j - Len(prefix)]
      <3>1. prefix \in Seq(Chars) /\ id \in Seq(Chars)
        BY <1>1, <1>4 DEF Paths
      <3>2. QED
        BY <3>1, ConcatProperties
    <2> HIDE DEF front
    <2>2. Len(prefix) \in Nat /\ DOMAIN prefix = 1 .. Len(prefix) /\ DOMAIN front = 1 .. Len(front)
      BY <1>1, <2>1, LenProperties DEF Paths
    <2>3. QED
      BY <1>4, <2>1, <2>2 DEF Paths
  <1> HIDE DEF front
  <1>6. /\ front[Len(prefix) + 1] = Ulids[i]
        /\ \A j \in DOMAIN front : front[j] = Ulids[i] \/ \E n \in DOMAIN prefix : front[j] = prefix[n]
    <2>1. ASSUME NEW j \in DOMAIN front
          PROVE  front[j] = Ulids[i] \/ \E n \in DOMAIN prefix : front[j] = prefix[n]
      <3>1. CASE j <= Len(prefix)
        BY <1>5, <3>1
      <3>2. CASE j = Len(prefix) + 1
        BY <1>4, <1>5, <3>2
      <3>3. QED
        BY <1>5, <3>1, <3>2
    <2>2. front[Len(prefix) + 1] = Ulids[i]
      BY <1>4, <1>5
    <2>3. QED
      BY <2>1, <2>2
  <1>7. /\ key \in Paths /\ Len(key) = Len(front) + Len(end) /\ Len(end) \in Nat
        /\ \A j \in 1 .. Len(front) + Len(end) :
             key[j] = IF j <= Len(front) THEN front[j] ELSE end[j - Len(front)]
        /\ DOMAIN key = 1 .. Len(front) + Len(end) /\ DOMAIN end = 1 .. Len(end)
    <2>1. /\ key \in Seq(Chars) /\ Len(key) = Len(front) + Len(end)
          /\ \A j \in 1 .. Len(front) + Len(end) :
               key[j] = IF j <= Len(front) THEN front[j] ELSE end[j - Len(front)]
      <3>1. front \in Seq(Chars) /\ end \in Seq(Chars)
        BY <1>2, <1>5 DEF Paths
      <3> HIDE DEF key
      <3>2. QED
        BY <1>3, <3>1, ConcatProperties
    <2> HIDE DEF key
    <2>2. Len(end) \in Nat /\ DOMAIN end = 1 .. Len(end) /\ DOMAIN key = 1 .. Len(key)
      BY <1>2, <2>1, LenProperties DEF Paths
    <2>3. QED
      BY <2>1, <2>2 DEF Paths
  <1> HIDE DEF key
  <1>8. /\ \E j \in DOMAIN key : key[j] = Ulids[i]
        /\ \A j \in DOMAIN key :
             \/ \E m \in DOMAIN front : key[j] = front[m]
             \/ \E m \in DOMAIN end : key[j] = end[m]
    <2>1. Len(prefix) + 1 \in DOMAIN key /\ key[Len(prefix) + 1] = Ulids[i]
      BY <1>5, <1>6, <1>7
    <2>2. ASSUME NEW j \in DOMAIN key
          PROVE  \/ \E m \in DOMAIN front : key[j] = front[m]
                 \/ \E m \in DOMAIN end : key[j] = end[m]
      <3>1. CASE j <= Len(front)
        BY <1>5, <1>7, <3>1
      <3>2. CASE j > Len(front)
        <4>1. j - Len(front) \in DOMAIN end /\ key[j] = end[j - Len(front)]
          BY <1>5, <1>7, <3>2
        <4>2. QED
          BY <4>1
      <3>3. QED
        BY <1>5, <1>7, <3>1, <3>2
    <2>3. QED
      BY <2>1, <2>2
  <1>9. /\ \A n \in DOMAIN Ulids :
             /\ Ulids[n] # "."
             /\ \A m \in DOMAIN prefix : Ulids[n] # prefix[m]
             /\ \A m \in DOMAIN name : Ulids[n] # name[m]
        /\ \A m, n \in DOMAIN Ulids : Ulids[m] = Ulids[n] => m = n
    <2>1. \A m, n \in DOMAIN Ulids : Ulids[m] = Ulids[n] => m = n
      BY DEF ObjectsAssumption, Objects!IdsAreUnique, Objects!IsInjective
    <2>2. \A n \in DOMAIN Ulids :
            /\ Ulids[n] # "."
            /\ Ulids[n] \notin Objects!Range(prefix)
            /\ Ulids[n] \notin Objects!Range(name)
      BY DEF ObjectsAssumption, Objects!IdsAreUnique
    <2>3. QED
      BY <2>1, <2>2 DEF Objects!Range
  <1> HIDE DEF name
  <1>10. Objects!Carries(key, i)
    <2> SUFFICES ASSUME NEW n \in DOMAIN Ulids
                 PROVE  Ulids[n] \in Objects!Range(key) <=> n = i
      BY DEF Objects!Carries
    <2>1. n = i => Ulids[n] \in Objects!Range(key)
      BY <1>8 DEF Objects!Range
    <2>2. ASSUME NEW j \in DOMAIN key, key[j] = Ulids[n]
          PROVE  n = i
      BY <1>2, <1>6, <1>8, <1>9, <2>2
    <2>3. QED
      BY <2>1, <2>2 DEF Objects!Range
  <1>11. QED
    BY <1>7, <1>10 DEF key, ext

-----------------------------------------------------------------------------
(* What is deleted without having been asked for is no key of anyone. *)
LEMMA RemovedIsDoomed ==
  ASSUME ObjectsAssumption, IdsInv, NEW key, Known(key), Removes(key)
  PROVE  key \in doomed
  <1>1. PICK k \in doomed : key = k \/ key = Objects!Escaped(k)
    BY DEF Removes
  <1>2. Known(k)
    BY DEF Known
  <1>3. /\ Objects!IdOf(k) \in DOMAIN Ulids /\ Objects!Carries(k, Objects!IdOf(k))
        /\ \A other : Known(other) /\ Objects!IdOf(other) = Objects!IdOf(k) => other = k
    BY <1>2 DEF IdsInv
  <1>4. CASE key = Objects!Escaped(k)
    <2>1. Objects!Carries(key, Objects!IdOf(k))
      BY <1>3, <1>4, EscapedCarries
    <2>2. Objects!IdOf(key) = Objects!IdOf(k)
      BY <1>3, <2>1, IdOfCarried
    <2>3. QED
      BY <1>3, <2>2
  <1>5. QED
    BY <1>1, <1>4

LEMMA IdsKept ==
  ASSUME ObjectsTypeOK, IdsInv, UNCHANGED usedIds, \A key : Known(key)' => Known(key)
  PROVE  IdsInv'
  <1>1. \A key : /\ Objects!IdOf(key)' = Objects!IdOf(key)
                 /\ \A i : Objects!Carries(key, i)' = Objects!Carries(key, i)
    BY DEF Objects!IdOf, Objects!Carries, Objects!Range
  <1>2. QED
    BY <1>1 DEF IdsInv

(* A call that goes on changes no other call. *)
LEMMA CallStep ==
  ASSUME ObjectsTypeOK, NEW c \in Callers, NEW q \in StorageCall, q.at \in Requests => q.key \in Paths,
         storing' = [storing EXCEPT ![c] = q]
  PROVE  /\ storing' \in [Callers -> StorageCall]
         /\ storing'[c] = q /\ \A d \in Callers : d # c => storing'[d] = storing[d]
         /\ \A d \in Callers : storing'[d].at \in Requests => storing'[d].key \in Paths
  BY DEF ObjectsTypeOK

(* Nothing but one call changes. *)
LEMMA LocalStep ==
  ASSUME ObjectsInv, UNCHANGED <<bucket, late, acked, doomed, gone, usedIds>>,
         NEW c \in Callers, NEW q \in StorageCall, q.at \in Requests => q.key \in Paths,
         storing' = [storing EXCEPT ![c] = q],
         q.keys \subseteq storing[c].keys,
         \A key \in q.started : key \in storing[c].started \/ key \in bucket,
         q.at \in {"put", "cleanup"} => Uploading(c) /\ q.key = storing[c].key,
         q.at = "put" => /\ storing[c].at = "put"
                         /\ q.reply # "error" => q.reply = storing[c].reply,
         q.at \in {"delete", "delete_each"} => Removes(q.key),
         q.at = "delete" => /\ storing[c].at = "delete" /\ q.key = storing[c].key
                            /\ q.reply = "ok" => storing[c].reply = "ok",
         Remaining(q),
         None # "error"
  PROVE  ObjectsInv'
  <1> USE DEF ObjectsInv
  <1>1. /\ storing' \in [Callers -> StorageCall]
        /\ storing'[c] = q /\ \A d \in Callers : d # c => storing'[d] = storing[d]
        /\ \A d \in Callers : storing'[d].at \in Requests => storing'[d].key \in Paths
    BY CallStep
  <1>2. ObjectsTypeOK'
    BY <1>1 DEF ObjectsTypeOK
  <1>3. ASSUME NEW key, Known(key)'
        PROVE  Known(key)
    <2>1. \A d \in Callers : key \in storing'[d].started => key \in storing[d].started \/ key \in bucket
      BY <1>1
    <2>2. \A d \in Callers : storing'[d].at \in {"put", "cleanup"} /\ storing'[d].key = key =>
            storing[d].at \in {"put", "cleanup"} /\ storing[d].key = key
      BY <1>1 DEF Uploading
    <2>3. QED
      BY <1>3, <2>1, <2>2 DEF Known, Uploading
  <1>4. IdsInv'
    BY <1>3, IdsKept
  <1>5. RemovalInv'
    <2>1. \A key : Removes(key)' <=> Removes(key)
      BY DEF Removes, Objects!Escaped
    <2>2. \A d \in Callers : storing'[d].at \in {"delete", "delete_each"} => Removes(storing'[d].key)
      BY <1>1 DEF RemovalInv
    <2>3. \A d \in Callers : \A key \in storing'[d].keys : Removes(key)
      BY <1>1 DEF RemovalInv
    <2>4. QED
      BY <2>1, <2>2, <2>3 DEF RemovalInv
  <1>6. UploadInv'
    <2>1. \A d \in Callers : Uploading(d)' => Uploading(d) /\ storing'[d].key = storing[d].key
      BY <1>1 DEF Uploading
    <2>2. \A d \in Callers : storing'[d].at = "put" /\ storing'[d].reply # "error" =>
            /\ storing[d].at = "put" /\ storing[d].reply = storing'[d].reply
            /\ storing[d].key = storing'[d].key
      BY <1>1
    <2>3. \A d, e \in Callers :
            Uploading(d)' /\ Uploading(e)' /\ storing'[d].key = storing'[e].key => d = e
      BY <2>1 DEF UploadInv
    <2>4. \A d \in Callers : Uploading(d)' => storing'[d].key \notin acked
      BY <2>1 DEF UploadInv
    <2>5. \A key : <<"put", key>> \in late \/ <<"cleanup", key>> \in late =>
            /\ key \notin acked
            /\ \A d \in Callers : storing'[d].at = "put" /\ storing'[d].reply # "error" =>
                 storing'[d].key # key
      BY <2>2 DEF UploadInv
    <2>6. \A d \in Callers : storing'[d].at = "put" /\ storing'[d].reply = "ok" =>
            storing'[d].key \in bucket \/ storing'[d].key \in doomed
      BY <2>2 DEF UploadInv
    <2>7. Objects!AcknowledgedIsStored'
      BY DEF UploadInv, Objects!AcknowledgedIsStored
    <2>8. QED
      BY <2>3, <2>4, <2>5, <2>6, <2>7 DEF UploadInv
  <1>7. DeletionInv'
    <2>0. \A key, p : /\ Objects!Escaped(key)' = Objects!Escaped(key)
                      /\ Objects!IdOf(key)' = Objects!IdOf(key)
                      /\ Objects!IsPrefix(p, key)' = Objects!IsPrefix(p, key)
      BY DEF Objects!Escaped, Objects!IdOf, Objects!Range, Objects!IsPrefix
    <2>1. \A key : Pending(key)' => Pending(key)
      BY <1>1 DEF Pending
    <2>2. \A key : Pending(key)' =>
            /\ key \notin bucket /\ key \notin gone
            /\ \A d \in Callers : key \notin storing'[d].started
      BY <1>1, <2>1 DEF DeletionInv
    <2>3. \A d \in Callers : storing'[d].at = "delete" =>
            storing'[d].key \in acked /\ (storing'[d].reply = "ok" => storing'[d].key \notin bucket)
      BY <1>1 DEF DeletionInv
    <2>4. \A d \in Callers : Remaining(storing[d])'
      <3>1. \A d \in Callers : Remaining(storing'[d])
        BY <1>1 DEF DeletionInv
      <3>2. QED
        BY <3>1, <2>0 DEF Remaining
    <2>5. Objects!PrefixIsGone'
      BY <2>0 DEF DeletionInv, Objects!PrefixIsGone
    <2>6. QED
      BY <2>0, <2>2, <2>3, <2>4, <2>5 DEF DeletionInv
  <1>8. QED
    BY <1>2, <1>4, <1>5, <1>6, <1>7

LEMMA IdleCall ==
  /\ Objects!Idle \in StorageCall /\ Objects!Idle.at = "idle"
  /\ Objects!Idle.keys = {} /\ Objects!Idle.started = {}
  BY DEF Objects!Idle, StorageCall

LEMMA RefuseStep ==
  ASSUME ObjectsAssumption, ObjectsInv, NEW c \in Callers, Objects!Refuse(c)
  PROVE  ObjectsInv'
  <1> DEFINE me == storing[c]
             q == [me EXCEPT !.reply = "error"]
  <1>1. me \in StorageCall /\ (me.at \in Requests => me.key \in Paths)
    BY DEF ObjectsInv, ObjectsTypeOK
  <1>2. storing' = [storing EXCEPT ![c] = q] /\ UNCHANGED <<bucket, late, acked, doomed, gone, usedIds>>
        /\ me.reply = None /\ None # "ok" /\ None # "error"
    BY DEF Objects!Refuse, ObjectsAssumption
  <1>3. /\ q \in StorageCall /\ q.at = me.at /\ q.key = me.key /\ q.keys = me.keys /\ q.token = me.token
        /\ q.prefix = me.prefix /\ q.started = me.started /\ q.reply = "error"
    BY <1>1 DEF StorageCall
  <1> HIDE DEF q
  <1>4. Remaining(q) /\ (q.at \in {"delete", "delete_each"} => Removes(q.key))
    BY <1>2, <1>3 DEF ObjectsInv, DeletionInv, RemovalInv, Remaining
  <1> HIDE DEF me
  <1>5. QED
    BY <1>1, <1>2, <1>3, <1>4, LocalStep DEF me, Uploading

LEMMA PutFailedStep ==
  ASSUME ObjectsAssumption, ObjectsInv, NEW c \in Callers, Objects!PutFailed(c)
  PROVE  ObjectsInv'
  <1> DEFINE me == storing[c]
             q == [me EXCEPT !.at = "cleanup", !.key = me.key, !.reply = None]
  <1>1. me \in StorageCall /\ me.at = "put" /\ me.key \in Paths
    BY DEF ObjectsInv, ObjectsTypeOK, Requests, Objects!PutFailed, Objects!Replied
  <1>2. storing' = [storing EXCEPT ![c] = q] /\ UNCHANGED <<bucket, late, acked, doomed, gone, usedIds>>
        /\ None # "error"
    BY DEF Objects!PutFailed, Objects!Sends, ObjectsAssumption
  <1>3. /\ q \in StorageCall /\ q.at = "cleanup" /\ q.key = me.key /\ q.keys = me.keys
        /\ q.started = me.started
    BY <1>1 DEF StorageCall, Requests
  <1> HIDE DEF q
  <1>4. Remaining(q)
    BY <1>3 DEF Remaining
  <1> HIDE DEF me
  <1>5. QED
    BY <1>1, <1>2, <1>3, <1>4, LocalStep DEF me, Uploading

LEMMA FailedStep ==
  ASSUME ObjectsAssumption, ObjectsInv, NEW c \in Callers,
         Objects!CleanedUp(c) \/ Objects!DeletePrefixFailed(c)
  PROVE  ObjectsInv'
  <1>1. storing' = [storing EXCEPT ![c] = Objects!Idle] /\ UNCHANGED <<bucket, late, acked, doomed, gone, usedIds>>
        /\ None # "error"
    BY DEF Objects!CleanedUp, Objects!DeletePrefixFailed, Objects!Ends, ObjectsAssumption
  <1>2. Remaining(Objects!Idle)
    BY IdleCall DEF Remaining
  <1>3. QED
    BY <1>1, <1>2, IdleCall, LocalStep DEF Requests

LEMMA DeletePrefixStep ==
  ASSUME ObjectsAssumption, ObjectsInv, NEW c \in Callers, NEW prefix \in PathPrefixes,
         Objects!DeletePrefix(c, prefix)
  PROVE  ObjectsInv'
  <1> DEFINE found == {k \in bucket : Objects!IsPrefix(prefix, k)}
             q == [Objects!Idle EXCEPT !.at = "list", !.prefix = prefix, !.started = found]
  <1>1. storing' = [storing EXCEPT ![c] = q] /\ UNCHANGED <<bucket, late, acked, doomed, gone, usedIds>>
        /\ None # "error"
    BY DEF Objects!DeletePrefix, ObjectsAssumption
  <1>2. found \subseteq Paths
    BY DEF ObjectsInv, ObjectsTypeOK
  <1> HIDE DEF found
  <1>3. /\ q \in StorageCall /\ q.at = "list" /\ q.keys = {} /\ q.started = found
        /\ q.token = 0 /\ q.prefix = prefix
    BY <1>2 DEF StorageCall, Objects!Idle
  <1> HIDE DEF q
  <1>4. Remaining(q)
    <2>1. \A key \in found : key \in bucket /\ Objects!IsPrefix(prefix, key)
      BY DEF found
    <2>2. \A key \in found : Objects!IdOf(key) > 0
      <3>1. \A key \in found : Objects!IdOf(key) \in DOMAIN Ulids
        BY <2>1 DEF ObjectsInv, IdsInv, Known
      <3>2. Len(Ulids) \in Nat /\ DOMAIN Ulids = 1 .. Len(Ulids)
        BY LenProperties DEF ObjectsAssumption, Paths
      <3>3. QED
        BY <3>1, <3>2
    <2>3. QED
      BY <1>3, <2>1, <2>2 DEF Remaining
  <1>5. QED
    BY <1>1, <1>3, <1>4, LocalStep DEF Requests, found

LEMMA DeleteEachStep ==
  ASSUME ObjectsAssumption, ObjectsInv, NEW c \in Callers, NEW key, key \in storing[c].keys,
         storing[c].at = "deleting" \/ (storing[c].at = "delete_each" /\ storing[c].reply = "ok"),
         storing' = [storing EXCEPT ![c] =
           [storing[c] EXCEPT !.at = "delete_each", !.key = key, !.keys = storing[c].keys \ {key},
                              !.reply = None]],
         UNCHANGED <<bucket, late, usedIds, acked, doomed, gone>>
  PROVE  ObjectsInv'
  <1> DEFINE me == storing[c]
             q == [me EXCEPT !.at = "delete_each", !.key = key, !.keys = me.keys \ {key}, !.reply = None]
  <1>1. me \in StorageCall
    BY DEF ObjectsInv, ObjectsTypeOK
  <1>2. storing' = [storing EXCEPT ![c] = q] /\ None # "ok" /\ None # "error"
    BY DEF ObjectsAssumption
  <1>3. key \in Paths
    BY <1>1 DEF StorageCall
  <1>4. /\ q \in StorageCall /\ q.at = "delete_each" /\ q.key = key /\ q.keys = me.keys \ {key}
        /\ q.started = me.started /\ q.reply = None
    BY <1>1, <1>3 DEF StorageCall, Requests
  <1> HIDE DEF q
  <1>5. Remaining(q)
    BY <1>1, <1>2, <1>4 DEF ObjectsInv, DeletionInv, Remaining
  <1>6. Removes(q.key)
    BY <1>4 DEF ObjectsInv, RemovalInv
  <1> HIDE DEF me
  <1>7. QED
    BY <1>1, <1>2, <1>3, <1>4, <1>5, <1>6, LocalStep DEF me, Uploading

(* Nothing of a call changes but what it was answered. *)
Answered(k, step(_)) ==
  \A d \in Callers :
    /\ storing'[d].at = storing[d].at /\ storing'[d].key = storing[d].key
    /\ storing'[d].keys = storing[d].keys /\ storing'[d].started = storing[d].started
    /\ storing'[d].prefix = storing[d].prefix /\ storing'[d].token = storing[d].token
    /\ \/ storing'[d].reply = storing[d].reply
       \/ /\ step(storing[d].at) /\ storing[d].key = k
          /\ storing[d].reply = None /\ storing'[d].reply = "ok"

(* A key is stored, by a caller's request or one that was late. *)
LEMMA StoreStep ==
  ASSUME ObjectsAssumption, ObjectsInv, NEW k \in Paths, Pending(k), ~Pending(k)',
         bucket' = bucket \cup {k}, late' \subseteq late, UNCHANGED <<acked, doomed, gone, usedIds>>,
         storing' \in [Callers -> StorageCall], Answered(k, LAMBDA step : step = "put")
  PROVE  ObjectsInv'
  <1> USE DEF ObjectsInv
  <1>1. None # "ok" /\ None # "error"
    BY DEF ObjectsAssumption
  <1>2. ObjectsTypeOK'
    BY DEF ObjectsTypeOK, Answered
  <1>3. Known(k) /\ k \notin acked /\ k \notin gone /\ \A d \in Callers : k \notin storing[d].started
    <2>1. Known(k)
      BY DEF Pending, Known, Uploading
    <2>2. k \notin acked
      BY DEF Pending, UploadInv, Uploading
    <2>3. QED
      BY <2>1, <2>2 DEF DeletionInv
  <1>4. \A key : Known(key)' => Known(key)
    BY <1>3 DEF Known, Uploading, Answered
  <1>5. IdsInv'
    BY <1>4, IdsKept
  <1>6. RemovalInv'
    <2>1. \A key : Removes(key)' <=> Removes(key)
      BY DEF Removes, Objects!Escaped
    <2>2. QED
      BY <2>1 DEF RemovalInv, Answered
  <1>7. UploadInv'
    <2>1. \A d, e \in Callers :
            Uploading(d)' /\ Uploading(e)' /\ storing'[d].key = storing'[e].key => d = e
      BY DEF UploadInv, Uploading, Answered
    <2>2. \A d \in Callers : Uploading(d)' => storing'[d].key \notin acked
      BY DEF UploadInv, Uploading, Answered
    <2>3. \A key : <<"put", key>> \in late' \/ <<"cleanup", key>> \in late' =>
            /\ key \notin acked
            /\ \A d \in Callers : storing'[d].at = "put" /\ storing'[d].reply # "error" =>
                 storing'[d].key # key
      BY <1>1 DEF UploadInv, Answered
    <2>4. \A d \in Callers : storing'[d].at = "put" /\ storing'[d].reply = "ok" =>
            storing'[d].key \in bucket' \/ storing'[d].key \in doomed
      BY DEF UploadInv, Answered
    <2>5. Objects!AcknowledgedIsStored'
      BY DEF UploadInv, Objects!AcknowledgedIsStored
    <2>6. QED
      BY <2>1, <2>2, <2>3, <2>4, <2>5 DEF UploadInv
  <1>8. DeletionInv'
    <2>0. \A key, p : /\ Objects!Escaped(key)' = Objects!Escaped(key)
                      /\ Objects!IdOf(key)' = Objects!IdOf(key)
                      /\ Objects!IsPrefix(p, key)' = Objects!IsPrefix(p, key)
      BY DEF Objects!Escaped, Objects!IdOf, Objects!Range, Objects!IsPrefix
    <2>1. \A key : Pending(key)' => Pending(key) /\ key # k
      BY <1>1 DEF Pending, Answered
    <2>2. \A key : Pending(key)' =>
            /\ key \notin bucket' /\ key \notin gone
            /\ \A d \in Callers : key \notin storing'[d].started
      BY <2>1 DEF DeletionInv, Answered
    <2>3. \A d \in Callers : storing'[d].at = "delete" =>
            storing'[d].key \in acked /\ (storing'[d].reply = "ok" => storing'[d].key \notin bucket')
      BY <1>3 DEF DeletionInv, Answered
    <2>4. \A d \in Callers : Remaining(storing[d])'
      BY <1>1, <1>3, <2>0 DEF DeletionInv, Remaining, Answered
    <2>5. Objects!PrefixIsGone'
      BY <1>3, <2>0 DEF DeletionInv, Objects!PrefixIsGone
    <2>6. QED
      BY <2>2, <2>3, <2>4, <2>5 DEF DeletionInv
  <1>9. QED
    BY <1>2, <1>5, <1>6, <1>7, <1>8

(* A key is deleted: one that somebody asked to delete, or one that was    *)
(* uploaded without success.                                               *)
LEMMA RemoveStep ==
  ASSUME ObjectsAssumption, ObjectsInv, NEW k \in Paths,
         Removes(k) \/ (/\ k \notin acked
                        /\ \A d \in Callers : storing[d].at = "put" /\ storing[d].reply = "ok" =>
                             storing[d].key # k),
         bucket' = bucket \ {k}, late' \subseteq late, UNCHANGED <<acked, doomed, gone, usedIds>>,
         storing' \in [Callers -> StorageCall], Answered(k, LAMBDA step : step # "put")
  PROVE  ObjectsInv'
  <1> USE DEF ObjectsInv
  <1>1. None # "ok" /\ None # "error"
    BY DEF ObjectsAssumption
  <1>2. ObjectsTypeOK'
    BY DEF ObjectsTypeOK, Answered
  <1>3. /\ k \in acked => k \in doomed
        /\ \A d \in Callers : storing[d].at = "put" /\ storing[d].reply = "ok" /\ storing[d].key = k =>
             k \in doomed
    BY RemovedIsDoomed DEF Known, Uploading
  <1>4. \A key : Known(key)' => Known(key)
    BY DEF Known, Uploading, Answered
  <1>5. IdsInv'
    BY <1>4, IdsKept
  <1>6. RemovalInv'
    <2>1. \A key : Removes(key)' <=> Removes(key)
      BY DEF Removes, Objects!Escaped
    <2>2. QED
      BY <2>1 DEF RemovalInv, Answered
  <1>7. UploadInv'
    <2>1. \A d, e \in Callers :
            Uploading(d)' /\ Uploading(e)' /\ storing'[d].key = storing'[e].key => d = e
      BY DEF UploadInv, Uploading, Answered
    <2>2. \A d \in Callers : Uploading(d)' => storing'[d].key \notin acked
      BY DEF UploadInv, Uploading, Answered
    <2>3. \A key : <<"put", key>> \in late' \/ <<"cleanup", key>> \in late' =>
            /\ key \notin acked
            /\ \A d \in Callers : storing'[d].at = "put" /\ storing'[d].reply # "error" =>
                 storing'[d].key # key
      BY <1>1 DEF UploadInv, Answered
    <2>4. \A d \in Callers : storing'[d].at = "put" /\ storing'[d].reply = "ok" =>
            storing'[d].key \in bucket' \/ storing'[d].key \in doomed
      BY <1>3 DEF UploadInv, Answered
    <2>5. Objects!AcknowledgedIsStored'
      BY <1>3 DEF UploadInv, Objects!AcknowledgedIsStored
    <2>6. QED
      BY <2>1, <2>2, <2>3, <2>4, <2>5 DEF UploadInv
  <1>8. DeletionInv'
    <2>0. \A key, p : /\ Objects!Escaped(key)' = Objects!Escaped(key)
                      /\ Objects!IdOf(key)' = Objects!IdOf(key)
                      /\ Objects!IsPrefix(p, key)' = Objects!IsPrefix(p, key)
      BY DEF Objects!Escaped, Objects!IdOf, Objects!Range, Objects!IsPrefix
    <2>1. \A key : Pending(key)' => Pending(key)
      BY <1>1 DEF Pending, Answered
    <2>2. \A key : Pending(key)' =>
            /\ key \notin bucket' /\ key \notin gone
            /\ \A d \in Callers : key \notin storing'[d].started
      BY <2>1 DEF DeletionInv, Answered
    <2>3. \A d \in Callers : storing'[d].at = "delete" =>
            storing'[d].key \in acked /\ (storing'[d].reply = "ok" => storing'[d].key \notin bucket')
      BY DEF DeletionInv, Answered
    <2>4. \A d \in Callers : Remaining(storing[d])'
      BY <1>1, <2>0 DEF DeletionInv, Remaining, Answered
    <2>5. Objects!PrefixIsGone'
      BY <2>0 DEF DeletionInv, Objects!PrefixIsGone
    <2>6. QED
      BY <2>2, <2>3, <2>4, <2>5 DEF DeletionInv
  <1>9. QED
    BY <1>2, <1>5, <1>6, <1>7, <1>8

LEMMA ServeStep ==
  ASSUME ObjectsAssumption, ObjectsInv, NEW c \in Callers, Objects!Serve(c)
  PROVE  ObjectsInv'
  <1>0. PICK k : k = storing[c].key
    OBVIOUS
  <1> DEFINE me == storing[c]
             q == [me EXCEPT !.reply = "ok"]
  <1>1. me \in StorageCall /\ me.at \in Requests /\ me.reply = None /\ k \in Paths
        /\ None # "ok" /\ None # "error"
    <2>1. me.at \in Requests /\ me.reply = None
      BY DEF Objects!Serve, Objects!Method, Requests
    <2>2. QED
      BY <1>0, <2>1 DEF ObjectsInv, ObjectsTypeOK, ObjectsAssumption
  <1>2. /\ storing' = [storing EXCEPT ![c] = q] /\ bucket' = Objects!Apply(me.at, k)
        /\ UNCHANGED <<late, acked, doomed, gone, usedIds>>
    BY <1>0 DEF Objects!Serve
  <1>3. /\ q \in StorageCall /\ q.at = me.at /\ q.key = k /\ q.keys = me.keys /\ q.token = me.token
        /\ q.prefix = me.prefix /\ q.started = me.started /\ q.reply = "ok"
    BY <1>0, <1>1 DEF StorageCall
  <1> HIDE DEF q
  <1>4. /\ storing' \in [Callers -> StorageCall]
        /\ storing'[c] = q /\ \A d \in Callers : d # c => storing'[d] = storing[d]
    BY <1>1, <1>2, <1>3, CallStep DEF ObjectsInv
  <1>5. CASE me.at = "put"
    <2>1. Answered(k, LAMBDA step : step = "put")
      BY <1>0, <1>1, <1>3, <1>4, <1>5 DEF Answered
    <2>2. Pending(k)
      BY <1>0, <1>1, <1>5 DEF Pending
    <2>3. ~Pending(k)'
      <3>1. <<"put", k>> \notin late
        BY <1>0, <1>1, <1>5 DEF ObjectsInv, UploadInv
      <3>2. \A d \in Callers : d # c /\ storing[d].at = "put" => storing[d].key # k
        BY <1>0, <1>5 DEF ObjectsInv, UploadInv, Uploading
      <3>3. ASSUME NEW d \in Callers, storing'[d].at = "put", storing'[d].reply = None, storing'[d].key = k
            PROVE  FALSE
        BY <1>1, <1>3, <1>4, <3>2, <3>3
      <3>4. QED
        BY <1>2, <3>1, <3>3 DEF Pending
    <2>4. bucket' = bucket \cup {k}
      BY <1>2, <1>5 DEF Objects!Apply
    <2>5. QED
      BY <1>1, <1>2, <1>4, <2>1, <2>2, <2>3, <2>4, StoreStep
  <1>6. CASE me.at # "put"
    <2>1. Answered(k, LAMBDA step : step # "put")
      BY <1>0, <1>1, <1>3, <1>4, <1>6 DEF Answered
    <2>2. bucket' = bucket \ {k}
      BY <1>1, <1>2, <1>6 DEF Objects!Apply, Requests
    <2>3. Removes(k) \/ (/\ k \notin acked
                         /\ \A d \in Callers : storing[d].at = "put" /\ storing[d].reply = "ok" =>
                              storing[d].key # k)
      <3>1. CASE me.at = "cleanup"
        BY <1>0, <3>1 DEF ObjectsInv, UploadInv, Uploading
      <3>2. CASE me.at \in {"delete", "delete_each"}
        BY <1>0, <3>2 DEF ObjectsInv, RemovalInv
      <3>3. QED
        BY <1>1, <1>6, <3>1, <3>2 DEF Requests
    <2>4. QED
      BY <1>1, <1>2, <1>4, <2>1, <2>2, <2>3, RemoveStep
  <1>7. QED
    BY <1>5, <1>6

LEMMA ArrivesStep ==
  ASSUME ObjectsAssumption, ObjectsInv, NEW request \in late, Objects!Arrives(request)
  PROVE  ObjectsInv'
  <1>1. PICK step \in Requests, k \in Paths : request = <<step, k>>
    BY DEF ObjectsInv, ObjectsTypeOK
  <1>2. /\ late' = late \ {<<step, k>>} /\ bucket' = Objects!Apply(step, k)
        /\ UNCHANGED <<storing, acked, doomed, gone, usedIds>>
    BY <1>1 DEF Objects!Arrives
  <1>3. storing' \in [Callers -> StorageCall] /\ None # "ok" /\ None # "error"
    BY <1>2 DEF ObjectsInv, ObjectsTypeOK, ObjectsAssumption
  <1>4. CASE step = "put"
    <2>1. Answered(k, LAMBDA s : s = "put") /\ <<"put", k>> \in late
      BY <1>1, <1>2, <1>4 DEF Answered
    <2>2. Pending(k)
      BY <2>1 DEF Pending
    <2>3. ~Pending(k)'
      <3>1. \A c \in Callers : ~(storing[c].at = "put" /\ storing[c].reply = None /\ storing[c].key = k)
        BY <2>1, <1>3 DEF ObjectsInv, UploadInv
      <3>2. QED
        BY <1>2, <1>4, <3>1 DEF Pending
    <2>4. bucket' = bucket \cup {k}
      BY <1>2, <1>4 DEF Objects!Apply
    <2>5. QED
      BY <1>2, <1>3, <2>1, <2>2, <2>3, <2>4, StoreStep
  <1>5. CASE step # "put"
    <2>1. Answered(k, LAMBDA s : s # "put") /\ <<step, k>> \in late
      BY <1>1, <1>2 DEF Answered
    <2>2. bucket' = bucket \ {k}
      BY <1>1, <1>2, <1>5 DEF Objects!Apply, Requests
    <2>3. Removes(k) \/ (/\ k \notin acked
                         /\ \A d \in Callers : storing[d].at = "put" /\ storing[d].reply = "ok" =>
                              storing[d].key # k)
      <3>1. CASE step = "cleanup"
        BY <2>1, <3>1 DEF ObjectsInv, UploadInv
      <3>2. CASE step \in {"delete", "delete_each"}
        BY <2>1, <3>2 DEF ObjectsInv, RemovalInv
      <3>3. QED
        BY <1>1, <1>5, <3>1, <3>2 DEF Requests
    <2>4. QED
      BY <1>2, <1>3, <2>1, <2>2, <2>3, RemoveStep
  <1>6. QED
    BY <1>4, <1>5

(* A connection breaks and the request may still get there. *)
LEMMA BreaksStep ==
  ASSUME ObjectsAssumption, ObjectsInv, NEW c \in Callers, Objects!Breaks(c)
  PROVE  ObjectsInv'
  <1> USE DEF ObjectsInv
  <1>0. PICK k, step : k = storing[c].key /\ step = storing[c].at
    OBVIOUS
  <1> DEFINE me == storing[c]
             q == [me EXCEPT !.reply = "error"]
  <1>1. me \in StorageCall /\ step \in Requests /\ me.reply = None /\ k \in Paths
        /\ None # "ok" /\ None # "error"
    <2>1. me.at \in Requests /\ me.reply = None
      BY DEF Objects!Breaks, Objects!Method, Requests
    <2>2. QED
      BY <1>0, <2>1 DEF ObjectsTypeOK, ObjectsAssumption
  <1>2. /\ storing' = [storing EXCEPT ![c] = q] /\ late' = late \cup {<<step, k>>}
        /\ UNCHANGED <<bucket, acked, doomed, gone, usedIds>>
    BY <1>0 DEF Objects!Breaks
  <1>3. /\ q \in StorageCall /\ q.at = step /\ q.key = k /\ q.keys = me.keys /\ q.token = me.token
        /\ q.prefix = me.prefix /\ q.started = me.started /\ q.reply = "error"
    BY <1>0, <1>1 DEF StorageCall
  <1> HIDE DEF q
  <1>4. /\ storing' \in [Callers -> StorageCall]
        /\ storing'[c] = q /\ \A d \in Callers : d # c => storing'[d] = storing[d]
        /\ \A d \in Callers : storing'[d].at \in Requests => storing'[d].key \in Paths
    BY <1>1, <1>2, <1>3, CallStep
  <1>5. \A d \in Callers :
          /\ storing'[d].at = storing[d].at /\ storing'[d].key = storing[d].key
          /\ storing'[d].keys = storing[d].keys /\ storing'[d].started = storing[d].started
          /\ storing'[d].prefix = storing[d].prefix /\ storing'[d].token = storing[d].token
          /\ (storing'[d].reply = storing[d].reply \/ (d = c /\ storing'[d].reply = "error"))
    <2> SUFFICES ASSUME NEW d \in Callers
                 PROVE  /\ storing'[d].at = storing[d].at /\ storing'[d].key = storing[d].key
                        /\ storing'[d].keys = storing[d].keys
                        /\ storing'[d].started = storing[d].started
                        /\ storing'[d].prefix = storing[d].prefix
                        /\ storing'[d].token = storing[d].token
                        /\ (storing'[d].reply = storing[d].reply \/ (d = c /\ storing'[d].reply = "error"))
      OBVIOUS
    <2>1. CASE d = c
      BY <1>0, <1>3, <1>4, <2>1
    <2>2. CASE d # c
      <3>1. storing'[d] = storing[d]
        BY <1>4, <2>2
      <3>2. QED
        BY <3>1
    <2>3. QED
      BY <2>1, <2>2
  <1>6. ObjectsTypeOK'
    BY <1>1, <1>2, <1>4 DEF ObjectsTypeOK
  <1>7. \A s, key : <<s, key>> \in late' <=> <<s, key>> \in late \/ (s = step /\ key = k)
    <2>1. \A s, key : <<s, key>> = <<step, k>> <=> s = step /\ key = k
      OBVIOUS
    <2>2. late' = late \cup {<<step, k>>}
      BY <1>2
    <2>3. ASSUME NEW s, NEW key
          PROVE  <<s, key>> \in late' <=> <<s, key>> \in late \/ <<s, key>> = <<step, k>>
      BY <2>2
    <2>4. QED
      BY <2>1, <2>3
  <1>8. \A key : Known(key)' => Known(key)
    <2>1. step \in {"put", "cleanup"} => Known(k)
      BY <1>0 DEF Known, Uploading
    <2>2. QED
      BY <1>2, <1>5, <1>7, <2>1 DEF Known, Uploading
  <1>9. IdsInv'
    BY <1>2, <1>8, IdsKept
  <1>10. RemovalInv'
    <2>1. \A key : Removes(key)' <=> Removes(key)
      BY <1>2 DEF Removes, Objects!Escaped
    <2>2. QED
      BY <1>0, <1>5, <1>7, <2>1 DEF RemovalInv
  <1>11. UploadInv'
    <2>1. \A d, e \in Callers :
            Uploading(d)' /\ Uploading(e)' /\ storing'[d].key = storing'[e].key => d = e
      BY <1>5 DEF UploadInv, Uploading
    <2>2. \A d \in Callers : Uploading(d)' => storing'[d].key \notin acked
      BY <1>5 DEF UploadInv, Uploading
    <2>3. ASSUME NEW key, <<"put", key>> \in late' \/ <<"cleanup", key>> \in late'
          PROVE  /\ key \notin acked
                 /\ \A d \in Callers : storing'[d].at = "put" /\ storing'[d].reply # "error" =>
                      storing'[d].key # key
      <3>1. CASE <<"put", key>> \in late \/ <<"cleanup", key>> \in late
        BY <1>5, <3>1 DEF UploadInv
      <3>2. CASE key = k /\ step \in {"put", "cleanup"}
        <4>1. Uploading(c) /\ storing[c].key = key
          BY <1>0, <3>2 DEF Uploading
        <4>2. \A d \in Callers : d # c /\ storing[d].at = "put" => storing[d].key # key
          BY <4>1 DEF UploadInv, Uploading
        <4>3. QED
          BY <1>3, <1>4, <4>1, <4>2 DEF UploadInv
      <3>3. QED
        BY <1>7, <2>3, <3>1, <3>2
    <2>4. \A d \in Callers : storing'[d].at = "put" /\ storing'[d].reply = "ok" =>
            storing'[d].key \in bucket \/ storing'[d].key \in doomed
      BY <1>5 DEF UploadInv
    <2>5. Objects!AcknowledgedIsStored'
      BY <1>2 DEF UploadInv, Objects!AcknowledgedIsStored
    <2>6. QED
      BY <1>2, <2>1, <2>2, <2>3, <2>4, <2>5 DEF UploadInv
  <1>12. DeletionInv'
    <2>0. \A key, p : /\ Objects!Escaped(key)' = Objects!Escaped(key)
                      /\ Objects!IdOf(key)' = Objects!IdOf(key)
                      /\ Objects!IsPrefix(p, key)' = Objects!IsPrefix(p, key)
      BY DEF Objects!Escaped, Objects!IdOf, Objects!Range, Objects!IsPrefix
    <2>1. \A key : Pending(key)' => Pending(key)
      BY <1>0, <1>1, <1>5, <1>7 DEF Pending
    <2>2. \A key : Pending(key)' =>
            /\ key \notin bucket /\ key \notin gone
            /\ \A d \in Callers : key \notin storing'[d].started
      BY <1>5, <2>1 DEF DeletionInv
    <2>3. \A d \in Callers : storing'[d].at = "delete" =>
            storing'[d].key \in acked /\ (storing'[d].reply = "ok" => storing'[d].key \notin bucket)
      BY <1>5 DEF DeletionInv
    <2>4. \A d \in Callers : Remaining(storing[d])'
      BY <1>1, <1>2, <1>3, <1>4, <1>5, <2>0 DEF DeletionInv, Remaining
    <2>5. Objects!PrefixIsGone'
      BY <1>2, <2>0 DEF DeletionInv, Objects!PrefixIsGone
    <2>6. QED
      BY <1>2, <2>2, <2>3, <2>4, <2>5 DEF DeletionInv
  <1>13. QED
    BY <1>6, <1>9, <1>10, <1>11, <1>12

(* A new upload takes the next id. *)
LEMMA PutStep ==
  ASSUME ObjectsAssumption, ObjectsInv, NEW c \in Callers, NEW prefix \in PathPrefixes,
         NEW file \in Files, Objects!Put(c, prefix, file)
  PROVE  ObjectsInv'
  <1> USE DEF ObjectsInv
  <1>0. PICK k : k = Objects!generate_key(prefix, Ulids[usedIds + 1], Objects!extension(file.filename))
    OBVIOUS
  <1> DEFINE me == storing[c]
             q == [me EXCEPT !.at = "put", !.key = k, !.reply = None]
  <1>1. me \in StorageCall /\ me.at = "idle" /\ usedIds \in Nat /\ None # "ok" /\ None # "error"
    BY DEF ObjectsTypeOK, ObjectsAssumption, Objects!Put, Objects!Begins
  <1>2. /\ storing' = [storing EXCEPT ![c] = q] /\ usedIds' = usedIds + 1 /\ usedIds < Len(Ulids)
        /\ UNCHANGED <<bucket, late, acked, doomed, gone>>
    <2>1. /\ Objects!Sends(c, "put", k) /\ usedIds' = usedIds + 1 /\ usedIds < Len(Ulids)
          /\ UNCHANGED <<bucket, late, acked, doomed, gone>>
      BY <1>0 DEF Objects!Put
    <2>2. storing' = [storing EXCEPT ![c] = q]
      BY <2>1 DEF Objects!Sends
    <2>3. QED
      BY <2>1, <2>2
  <1>3. Len(Ulids) \in Nat /\ DOMAIN Ulids = 1 .. Len(Ulids)
    BY LenProperties DEF ObjectsAssumption, Paths
  <1>4. usedIds + 1 \in DOMAIN Ulids
    BY <1>1, <1>2, <1>3
  <1>5. k \in Paths /\ Objects!Carries(k, usedIds + 1)
    BY <1>0, <1>4, GeneratedCarries
  <1>6. Objects!IdOf(k) = usedIds + 1
    BY <1>4, <1>5, IdOfCarried
  <1>7. ~Known(k)
    <2>1. ~(usedIds + 1 <= usedIds)
      BY <1>1
    <2>2. QED
      BY <1>6, <2>1 DEF IdsInv
  <1>8. /\ q \in StorageCall /\ q.at = "put" /\ q.key = k /\ q.keys = me.keys
        /\ q.started = me.started /\ q.reply = None
    BY <1>1, <1>5 DEF StorageCall, Requests
  <1> HIDE DEF q
  <1>9. /\ storing' \in [Callers -> StorageCall]
        /\ storing'[c] = q /\ \A d \in Callers : d # c => storing'[d] = storing[d]
        /\ \A d \in Callers : storing'[d].at \in Requests => storing'[d].key \in Paths
    BY <1>2, <1>5, <1>8, CallStep
  <1>10. ObjectsTypeOK'
    BY <1>1, <1>2, <1>9 DEF ObjectsTypeOK
  <1>11. ASSUME NEW key, Known(key)'
         PROVE  Known(key) \/ key = k
    <2>1. \A d \in Callers : storing'[d].started = storing[d].started
      BY <1>8, <1>9
    <2>2. \A d \in Callers : storing'[d].at \in {"put", "cleanup"} /\ storing'[d].key = key =>
            (storing[d].at \in {"put", "cleanup"} /\ storing[d].key = key) \/ key = k
      BY <1>8, <1>9
    <2>3. QED
      BY <1>2, <1>11, <2>1, <2>2 DEF Known, Uploading
  <1>12. IdsInv'
    <2>1. \A key : /\ Objects!IdOf(key)' = Objects!IdOf(key)
                   /\ \A i : Objects!Carries(key, i)' = Objects!Carries(key, i)
      BY DEF Objects!IdOf, Objects!Carries, Objects!Range
    <2>2. ASSUME NEW key, Known(key)
          PROVE  /\ Objects!IdOf(key) \in DOMAIN Ulids /\ Objects!IdOf(key) <= usedIds + 1
                 /\ Objects!IdOf(key) # usedIds + 1 /\ Objects!Carries(key, Objects!IdOf(key))
      <3>1. /\ Objects!IdOf(key) \in DOMAIN Ulids /\ Objects!IdOf(key) <= usedIds
            /\ Objects!Carries(key, Objects!IdOf(key))
        BY <2>2 DEF IdsInv
      <3>2. QED
        BY <1>1, <1>3, <3>1
    <2>3. ASSUME NEW key, Known(key)', NEW other, Known(other)',
                 Objects!IdOf(other) = Objects!IdOf(key)
          PROVE  other = key
      BY <1>6, <1>11, <2>2, <2>3 DEF IdsInv
    <2>4. ASSUME NEW key, Known(key)'
          PROVE  /\ Objects!IdOf(key) \in DOMAIN Ulids /\ Objects!IdOf(key) <= usedIds + 1
                 /\ Objects!Carries(key, Objects!IdOf(key))
      <3>1. CASE key = k
        BY <1>1, <1>4, <1>5, <1>6, <3>1
      <3>2. CASE Known(key)
        BY <2>2, <3>2
      <3>3. QED
        BY <1>11, <2>4, <3>1, <3>2
    <2>5. QED
      BY <1>2, <2>1, <2>3, <2>4 DEF IdsInv
  <1>13. RemovalInv'
    <2>1. \A key : Removes(key)' <=> Removes(key)
      BY <1>2 DEF Removes, Objects!Escaped
    <2>2. \A d \in Callers : storing'[d].keys = storing[d].keys
      BY <1>8, <1>9
    <2>3. \A d \in Callers : storing'[d].at \in {"delete", "delete_each"} => Removes(storing'[d].key)
      BY <1>8, <1>9 DEF RemovalInv
    <2>4. QED
      BY <1>2, <2>1, <2>2, <2>3 DEF RemovalInv
  <1>14. UploadInv'
    <2>1. /\ k \notin acked /\ <<"put", k>> \notin late /\ <<"cleanup", k>> \notin late
          /\ \A d \in Callers : Uploading(d) => storing[d].key # k
      BY <1>7 DEF Known
    <2>2. \A d \in Callers : Uploading(d)' => d = c \/ Uploading(d)
      BY <1>9 DEF Uploading
    <2>3. \A d, e \in Callers :
            Uploading(d)' /\ Uploading(e)' /\ storing'[d].key = storing'[e].key => d = e
      BY <1>8, <1>9, <2>1, <2>2 DEF UploadInv
    <2>4. \A d \in Callers : Uploading(d)' => storing'[d].key \notin acked
      BY <1>8, <1>9, <2>1, <2>2 DEF UploadInv
    <2>5. \A key : <<"put", key>> \in late \/ <<"cleanup", key>> \in late =>
            /\ key \notin acked
            /\ \A d \in Callers : storing'[d].at = "put" /\ storing'[d].reply # "error" =>
                 storing'[d].key # key
      BY <1>8, <1>9, <2>1 DEF UploadInv
    <2>6. \A d \in Callers : storing'[d].at = "put" /\ storing'[d].reply = "ok" =>
            storing'[d].key \in bucket \/ storing'[d].key \in doomed
      BY <1>1, <1>8, <1>9 DEF UploadInv
    <2>7. Objects!AcknowledgedIsStored'
      BY <1>2 DEF UploadInv, Objects!AcknowledgedIsStored
    <2>8. QED
      BY <1>2, <2>3, <2>4, <2>5, <2>6, <2>7 DEF UploadInv
  <1>15. DeletionInv'
    <2>0. \A key, p : /\ Objects!Escaped(key)' = Objects!Escaped(key)
                      /\ Objects!IdOf(key)' = Objects!IdOf(key)
                      /\ Objects!IsPrefix(p, key)' = Objects!IsPrefix(p, key)
      BY DEF Objects!Escaped, Objects!IdOf, Objects!Range, Objects!IsPrefix
    <2>1. \A key : Pending(key)' => Pending(key) \/ key = k
      BY <1>2, <1>8, <1>9 DEF Pending
    <2>2. k \notin bucket /\ k \notin gone /\ \A d \in Callers : k \notin storing[d].started
      BY <1>7 DEF Known
    <2>3. \A d \in Callers : storing'[d].started = storing[d].started
      BY <1>8, <1>9
    <2>4. \A key : Pending(key)' =>
            /\ key \notin bucket /\ key \notin gone
            /\ \A d \in Callers : key \notin storing'[d].started
      BY <2>1, <2>2, <2>3 DEF DeletionInv
    <2>5. \A d \in Callers : storing'[d].at = "delete" =>
            storing'[d].key \in acked /\ (storing'[d].reply = "ok" => storing'[d].key \notin bucket)
      BY <1>8, <1>9 DEF DeletionInv
    <2>6. \A d \in Callers : Remaining(storing[d])'
      <3>1. Remaining(q)
        BY <1>8 DEF Remaining
      <3>2. \A d \in Callers : Remaining(storing'[d])
        BY <3>1, <1>9 DEF DeletionInv
      <3>3. QED
        BY <1>2, <3>2, <2>0 DEF Remaining
    <2>7. Objects!PrefixIsGone'
      BY <1>2, <2>0 DEF DeletionInv, Objects!PrefixIsGone
    <2>8. QED
      BY <1>2, <2>4, <2>5, <2>6, <2>7 DEF DeletionInv
  <1>16. QED
    BY <1>10, <1>12, <1>13, <1>14, <1>15

(* Somebody asks to delete more: keys that are stored, or that were. *)
LEMMA DoomStep ==
  ASSUME ObjectsAssumption, ObjectsInv, UNCHANGED <<bucket, late, acked, gone, usedIds>>,
         NEW c \in Callers, NEW q \in StorageCall, q.at \in Requests => q.key \in Paths,
         storing' = [storing EXCEPT ![c] = q],
         NEW more, doomed' = doomed \cup more,
         \A key \in more : key \in Paths /\ (key \in bucket \/ key \in acked),
         \A key \in q.keys :
           Removes(key) \/ \E m \in more : key = m \/ key = Objects!Escaped(m),
         q.started = storing[c].started,
         q.at \in {"list", "deleting", "delete"},
         q.at = "delete" => q.key \in acked /\ q.reply = None /\ q.key \in more,
         Remaining(q)
  PROVE  ObjectsInv'
  <1> USE DEF ObjectsInv
  <1>0. None # "ok" /\ None # "error"
    BY DEF ObjectsAssumption
  <1>1. /\ storing' \in [Callers -> StorageCall]
        /\ storing'[c] = q /\ \A d \in Callers : d # c => storing'[d] = storing[d]
        /\ \A d \in Callers : storing'[d].at \in Requests => storing'[d].key \in Paths
    BY CallStep
  <1>2. ObjectsTypeOK'
    BY <1>1 DEF ObjectsTypeOK
  <1>3. \A d \in Callers :
          /\ storing'[d].started = storing[d].started
          /\ storing'[d].at \in {"put", "cleanup"} => d # c /\ storing'[d] = storing[d]
    BY <1>1
  <1>4. \A key : Known(key)' => Known(key)
    <2> SUFFICES ASSUME NEW key, Known(key)'
                 PROVE  Known(key)
      OBVIOUS
    <2>1. key \in doomed' => Known(key)
      BY DEF Known
    <2>2. QED
      BY <1>3, <2>1 DEF Known, Uploading
  <1>5. IdsInv'
    BY <1>4, IdsKept
  <1>6. RemovalInv'
    <2>1. \A key : Removes(key) => Removes(key)'
      BY DEF Removes, Objects!Escaped
    <2>2. ASSUME NEW d \in Callers, storing'[d].at \in {"delete", "delete_each"}
          PROVE  Removes(storing[d].key)'
      <3>1. CASE d = c
        <4>1. storing'[d].key \in doomed'
          BY <1>1, <2>2, <3>1
        <4>2. QED
          BY <4>1 DEF Removes
      <3>2. CASE d # c
        <4>1. storing'[d] = storing[d] /\ Removes(storing[d].key)
          BY <1>1, <2>2, <3>2 DEF RemovalInv
        <4>2. QED
          BY <4>1, <2>1 DEF Removes
      <3>3. QED
        BY <3>1, <3>2
    <2>3. ASSUME NEW d \in Callers, NEW key \in storing'[d].keys
          PROVE  Removes(key)'
      <3>1. CASE d = c
        <4>1. Removes(key) \/ \E m \in more : key = m \/ key = Objects!Escaped(m)
          BY <1>1, <2>3, <3>1
        <4>2. QED
          BY <2>1, <4>1 DEF Removes, Objects!Escaped
      <3>2. CASE d # c
        BY <1>1, <2>1, <2>3, <3>2 DEF RemovalInv
      <3>3. QED
        BY <3>1, <3>2
    <2>4. \A key : <<"delete", key>> \in late \/ <<"delete_each", key>> \in late => Removes(key)'
      BY <2>1 DEF RemovalInv
    <2>5. QED
      BY <2>2, <2>3, <2>4 DEF RemovalInv
  <1>7. UploadInv'
    <2>1. \A d, e \in Callers :
            Uploading(d)' /\ Uploading(e)' /\ storing'[d].key = storing'[e].key => d = e
      BY <1>3 DEF UploadInv, Uploading
    <2>2. \A d \in Callers : Uploading(d)' => storing'[d].key \notin acked
      BY <1>3 DEF UploadInv, Uploading
    <2>3. \A key : <<"put", key>> \in late \/ <<"cleanup", key>> \in late =>
            /\ key \notin acked
            /\ \A d \in Callers : storing'[d].at = "put" /\ storing'[d].reply # "error" =>
                 storing'[d].key # key
      BY <1>3 DEF UploadInv
    <2>4. \A d \in Callers : storing'[d].at = "put" /\ storing'[d].reply = "ok" =>
            storing'[d].key \in bucket \/ storing'[d].key \in doomed'
      BY <1>3 DEF UploadInv
    <2>5. Objects!AcknowledgedIsStored'
      BY DEF UploadInv, Objects!AcknowledgedIsStored
    <2>6. QED
      BY <2>1, <2>2, <2>3, <2>4, <2>5 DEF UploadInv
  <1>8. DeletionInv'
    <2>0. \A key, p : /\ Objects!Escaped(key)' = Objects!Escaped(key)
                      /\ Objects!IdOf(key)' = Objects!IdOf(key)
                      /\ Objects!IsPrefix(p, key)' = Objects!IsPrefix(p, key)
      BY DEF Objects!Escaped, Objects!IdOf, Objects!Range, Objects!IsPrefix
    <2>1. \A key : Pending(key)' => Pending(key)
      BY <1>3 DEF Pending
    <2>2. \A key : Pending(key)' =>
            /\ key \notin bucket /\ key \notin gone
            /\ \A d \in Callers : key \notin storing'[d].started
      BY <1>3, <2>1 DEF DeletionInv
    <2>3. \A d \in Callers : storing'[d].at = "delete" =>
            storing'[d].key \in acked /\ (storing'[d].reply = "ok" => storing'[d].key \notin bucket)
      BY <1>0, <1>1 DEF DeletionInv
    <2>4. \A d \in Callers : Remaining(storing[d])'
      <3>1. \A d \in Callers : Remaining(storing'[d])
        BY <1>1 DEF DeletionInv
      <3>2. QED
        BY <3>1, <2>0 DEF Remaining
    <2>5. Objects!PrefixIsGone'
      BY <2>0 DEF DeletionInv, Objects!PrefixIsGone
    <2>6. QED
      BY <2>2, <2>3, <2>4, <2>5 DEF DeletionInv
  <1>9. QED
    BY <1>2, <1>5, <1>6, <1>7, <1>8

LEMMA DeleteStep ==
  ASSUME ObjectsAssumption, ObjectsInv, NEW c \in Callers, NEW k \in acked, Objects!Delete(c, k)
  PROVE  ObjectsInv'
  <1> DEFINE me == storing[c]
             q == [me EXCEPT !.at = "delete", !.key = k, !.reply = None]
  <1>1. me \in StorageCall /\ me.at = "idle" /\ k \in Paths /\ \A key \in me.keys : Removes(key)
    BY DEF ObjectsInv, ObjectsTypeOK, RemovalInv, Objects!Delete, Objects!Begins
  <1>2. /\ Objects!Sends(c, "delete", k) /\ doomed' = doomed \cup {k}
        /\ UNCHANGED <<bucket, late, acked, gone, usedIds>>
    BY DEF Objects!Delete
  <1>3. storing' = [storing EXCEPT ![c] = q]
    BY <1>2 DEF Objects!Sends
  <1>4. /\ q \in StorageCall /\ q.at = "delete" /\ q.key = k /\ q.keys = me.keys
        /\ q.started = me.started /\ q.reply = None
    BY <1>1 DEF StorageCall, Requests
  <1> HIDE DEF q
  <1>5. Remaining(q)
    BY <1>4 DEF Remaining
  <1>6. PICK more : more = {k}
    OBVIOUS
  <1>7. /\ doomed' = doomed \cup more /\ k \in more
        /\ \A key \in more : key \in Paths /\ (key \in bucket \/ key \in acked)
    BY <1>1, <1>2, <1>6
  <1> HIDE DEF me
  <1>8. QED
    BY <1>1, <1>2, <1>3, <1>4, <1>5, <1>7, DoomStep DEF me

(* A page has everything up to where the next one begins. *)
LEMMA PageCovers ==
  ASSUME ObjectsAssumption, ObjectsInv, NEW prefix, NEW token \in Nat,
         NEW page \in Objects!list(prefix, token)
  PROVE  /\ page.next \in Nat /\ page.keys \subseteq bucket
         /\ \A key \in bucket : Objects!IsPrefix(prefix, key) /\ Objects!IdOf(key) > token =>
              key \in page.keys \/ (page.next # 0 /\ Objects!IdOf(key) > page.next)
  <1> DEFINE found == Objects!Found(prefix, token)
  <1>1. \A key \in bucket : Objects!IdOf(key) \in Nat
    <2>1. \A key \in bucket : Objects!IdOf(key) \in DOMAIN Ulids
      BY DEF ObjectsInv, IdsInv, Known
    <2>2. Len(Ulids) \in Nat /\ DOMAIN Ulids = 1 .. Len(Ulids)
      BY LenProperties DEF ObjectsAssumption, Paths
    <2>3. QED
      BY <2>1, <2>2
  <1>2. found = {key \in bucket : Objects!IsPrefix(prefix, key) /\ Objects!IdOf(key) > token}
    BY DEF Objects!Found
  <1> HIDE DEF found
  <1>3. CASE page = [keys |-> found, next |-> 0]
    BY <1>2, <1>3
  <1>4. ASSUME NEW k \in found, page = [keys |-> Objects!UpTo(found, k), next |-> Objects!IdOf(k)]
        PROVE  /\ page.next \in Nat /\ page.keys \subseteq bucket
               /\ \A key \in bucket : Objects!IsPrefix(prefix, key) /\ Objects!IdOf(key) > token =>
                    key \in page.keys \/ (page.next # 0 /\ Objects!IdOf(key) > page.next)
    <2>1. Objects!UpTo(found, k) = {key \in found : Objects!IdOf(key) <= Objects!IdOf(k)}
      BY DEF Objects!UpTo
    <2>2. /\ page.next = Objects!IdOf(k) /\ page.keys = {key \in found : Objects!IdOf(key) <= Objects!IdOf(k)}
      BY <1>4, <2>1
    <2>3. Objects!IdOf(k) \in Nat /\ Objects!IdOf(k) > token
      BY <1>1, <1>2
    <2>4. QED
      BY <1>1, <1>2, <2>2, <2>3
  <1>5. QED
    BY <1>3, <1>4 DEF Objects!list, found

LEMMA ListPageStep ==
  ASSUME ObjectsAssumption, ObjectsInv, NEW c \in Callers, Objects!ListPage(c)
  PROVE  ObjectsInv'
  <1> DEFINE me == storing[c]
  <1>1. me \in StorageCall /\ me.at = "list" /\ \A key \in me.keys : Removes(key)
    BY DEF ObjectsInv, ObjectsTypeOK, RemovalInv, Objects!ListPage, Objects!Awaits
  <1>2. PICK page \in Objects!list(me.prefix, me.token) :
          /\ storing' = [storing EXCEPT
               ![c].at = IF page.next = 0 THEN "deleting" ELSE "list",
               ![c].token = page.next,
               ![c].keys = @ \cup (IF inner.backend = "remote" THEN Objects!extract_xml_values(page.keys)
                                   ELSE page.keys)]
          /\ doomed' = doomed \cup page.keys
    BY DEF Objects!ListPage
  <1> DEFINE new == IF inner.backend = "remote" THEN Objects!extract_xml_values(page.keys) ELSE page.keys
             step == IF page.next = 0 THEN "deleting" ELSE "list"
             q == [me EXCEPT !.at = step, !.token = page.next, !.keys = me.keys \cup new]
  <1>3. /\ storing' = [storing EXCEPT ![c] = q] /\ UNCHANGED <<bucket, late, acked, gone, usedIds>>
    <2>1. UNCHANGED <<bucket, late, acked, gone, usedIds>>
      BY DEF Objects!ListPage
    <2>2. storing' = [storing EXCEPT ![c] = q]
      BY <1>2
    <2>3. QED
      BY <2>1, <2>2
  <1>4. me.token \in Nat /\ me.keys \subseteq Paths
    BY <1>1 DEF StorageCall
  <1>5. /\ page.next \in Nat /\ page.keys \subseteq bucket
        /\ \A key \in bucket : Objects!IsPrefix(me.prefix, key) /\ Objects!IdOf(key) > me.token =>
             key \in page.keys \/ (page.next # 0 /\ Objects!IdOf(key) > page.next)
    BY <1>4, PageCovers
  <1>6. \A key \in page.keys : key \in Paths /\ key \in bucket
    BY <1>5 DEF ObjectsInv, ObjectsTypeOK
  <1>7. /\ \A key \in new : \E m \in page.keys : key = m \/ key = Objects!Escaped(m)
        /\ \A m \in page.keys : Objects!Escaped(m) = m => m \in new
    BY DEF Objects!extract_xml_values
  <1> HIDE DEF new
  <1>8. new \subseteq Paths
    BY <1>6, <1>7, EscapedPath
  <1>9. /\ q \in StorageCall /\ q.at = step /\ q.key = me.key /\ q.keys = me.keys \cup new
        /\ q.token = page.next /\ q.prefix = me.prefix /\ q.started = me.started
    BY <1>1, <1>4, <1>5, <1>8 DEF StorageCall
  <1>10. step \in {"deleting", "list"} /\ (page.next # 0 => step = "list")
    OBVIOUS
  <1> HIDE DEF q, step
  <1>11. Remaining(q)
    <2>1. Remaining(me)
      BY DEF ObjectsInv, DeletionInv
    <2>2. ASSUME NEW key \in me.started, Objects!Escaped(key) = key, key \in bucket
          PROVE  key \in q.keys \/ (q.at = "list" /\ Objects!IdOf(key) > q.token /\ Objects!IsPrefix(q.prefix, key))
      <3>1. key \in me.keys \/ (Objects!IdOf(key) > me.token /\ Objects!IsPrefix(me.prefix, key))
        BY <1>1, <2>1, <2>2 DEF Remaining
      <3>2. CASE key \in me.keys
        BY <1>9, <3>2
      <3>3. CASE Objects!IdOf(key) > me.token /\ Objects!IsPrefix(me.prefix, key)
        BY <1>5, <1>7, <1>9, <1>10, <2>2, <3>3
      <3>4. QED
        BY <3>1, <3>2, <3>3
    <2>3. QED
      BY <1>9, <2>2 DEF Remaining
  <1>12. PICK more : more = page.keys
    OBVIOUS
  <1>13. /\ doomed' = doomed \cup more
         /\ \A key \in more : key \in Paths /\ (key \in bucket \/ key \in acked)
         /\ \A key \in q.keys :
              Removes(key) \/ \E m \in more : key = m \/ key = Objects!Escaped(m)
    BY <1>1, <1>2, <1>6, <1>7, <1>9, <1>12
  <1> HIDE DEF me
  <1>14. q.at \in {"list", "deleting", "delete"} /\ ~(q.at \in Requests) /\ q.at # "delete"
    BY <1>9, <1>10 DEF Requests
  <1>15. QED
    BY <1>3, <1>9, <1>11, <1>13, <1>14, DoomStep DEF me

(* A caller is told that its call succeeded. *)
LEMMA DoneStep ==
  ASSUME ObjectsAssumption, ObjectsInv, UNCHANGED <<bucket, late, doomed, usedIds>>,
         NEW c \in Callers, storing' = [storing EXCEPT ![c] = Objects!Idle],
         NEW more, acked' = acked \cup more,
         \A key \in more : /\ storing[c].at = "put" /\ storing[c].reply = "ok" /\ key = storing[c].key,
         NEW less, gone' = gone \cup less,
         \A key \in less :
           /\ key \in Paths /\ (key \in acked \/ key \in storing[c].started)
           /\ Objects!Escaped(key) = key => key \notin bucket
  PROVE  ObjectsInv'
  <1> USE DEF ObjectsInv
  <1>0. None # "ok" /\ None # "error"
    BY DEF ObjectsAssumption
  <1>1. /\ storing' \in [Callers -> StorageCall]
        /\ storing'[c] = Objects!Idle /\ \A d \in Callers : d # c => storing'[d] = storing[d]
        /\ \A d \in Callers : storing'[d].at \in Requests => storing'[d].key \in Paths
    BY CallStep, IdleCall DEF Requests
  <1>2. ObjectsTypeOK'
    BY <1>1 DEF ObjectsTypeOK, Requests
  <1>3. \A d \in Callers :
          \/ storing'[d].at = "idle" /\ storing'[d].started = {} /\ storing'[d].keys = {}
          \/ d # c /\ storing'[d] = storing[d]
    BY <1>1, IdleCall
  <1>4. \A key : Known(key)' => Known(key)
    <2>1. \A key \in more : Known(key)
      BY DEF Known, Uploading
    <2>2. \A key \in less : Known(key)
      BY DEF Known
    <2>3. QED
      BY <1>3, <2>1, <2>2 DEF Known, Uploading
  <1>5. IdsInv'
    BY <1>4, IdsKept
  <1>6. RemovalInv'
    <2>1. \A key : Removes(key)' <=> Removes(key)
      BY DEF Removes, Objects!Escaped
    <2>2. QED
      BY <1>3, <2>1 DEF RemovalInv
  <1>7. UploadInv'
    <2>1. \A d, e \in Callers :
            Uploading(d)' /\ Uploading(e)' /\ storing'[d].key = storing'[e].key => d = e
      BY <1>3 DEF UploadInv, Uploading
    <2>2. \A d \in Callers : Uploading(d)' => storing'[d].key \notin acked'
      BY <1>3 DEF UploadInv, Uploading
    <2>3. \A key : <<"put", key>> \in late \/ <<"cleanup", key>> \in late =>
            /\ key \notin acked'
            /\ \A d \in Callers : storing'[d].at = "put" /\ storing'[d].reply # "error" =>
                 storing'[d].key # key
      BY <1>3 DEF UploadInv
    <2>4. \A d \in Callers : storing'[d].at = "put" /\ storing'[d].reply = "ok" =>
            storing'[d].key \in bucket \/ storing'[d].key \in doomed
      BY <1>3 DEF UploadInv
    <2>5. Objects!AcknowledgedIsStored'
      BY DEF UploadInv, Objects!AcknowledgedIsStored
    <2>6. QED
      BY <2>1, <2>2, <2>3, <2>4, <2>5 DEF UploadInv
  <1>8. DeletionInv'
    <2>0. \A key, p : /\ Objects!Escaped(key)' = Objects!Escaped(key)
                      /\ Objects!IdOf(key)' = Objects!IdOf(key)
                      /\ Objects!IsPrefix(p, key)' = Objects!IsPrefix(p, key)
      BY DEF Objects!Escaped, Objects!IdOf, Objects!Range, Objects!IsPrefix
    <2>1. \A key : Pending(key)' => Pending(key)
      BY <1>3 DEF Pending
    <2>2. \A key : Pending(key) => key \notin less
      BY DEF Pending, UploadInv, DeletionInv, Uploading
    <2>3. \A key : Pending(key)' =>
            /\ key \notin bucket /\ key \notin gone'
            /\ \A d \in Callers : key \notin storing'[d].started
      BY <1>3, <2>1, <2>2 DEF DeletionInv
    <2>4. \A d \in Callers : storing'[d].at = "delete" =>
            storing'[d].key \in acked' /\ (storing'[d].reply = "ok" => storing'[d].key \notin bucket)
      BY <1>3 DEF DeletionInv
    <2>5. \A d \in Callers : Remaining(storing[d])'
      <3>1. \A d \in Callers : Remaining(storing'[d])
        BY <1>3 DEF DeletionInv, Remaining
      <3>2. QED
        BY <3>1, <2>0 DEF Remaining
    <2>6. Objects!PrefixIsGone'
      BY <2>0 DEF DeletionInv, Objects!PrefixIsGone
    <2>7. QED
      BY <2>3, <2>4, <2>5, <2>6 DEF DeletionInv
  <1>9. QED
    BY <1>2, <1>5, <1>6, <1>7, <1>8

LEMMA PutDoneStep ==
  ASSUME ObjectsAssumption, ObjectsInv, NEW c \in Callers, Objects!PutDone(c)
  PROVE  ObjectsInv'
  <1>1. PICK more : more = {storing[c].key}
    OBVIOUS
  <1>2. PICK less : less = {}
    OBVIOUS
  <1>3. /\ storing' = [storing EXCEPT ![c] = Objects!Idle] /\ UNCHANGED <<bucket, late, doomed, usedIds>>
        /\ acked' = acked \cup more /\ gone' = gone \cup less
        /\ storing[c].at = "put" /\ storing[c].reply = "ok"
    BY <1>1, <1>2 DEF Objects!PutDone, Objects!Ends, Objects!Replied
  <1>4. /\ \A key \in more : storing[c].at = "put" /\ storing[c].reply = "ok" /\ key = storing[c].key
        /\ \A key \in less : /\ key \in Paths /\ (key \in acked \/ key \in storing[c].started)
                             /\ Objects!Escaped(key) = key => key \notin bucket
    BY <1>1, <1>2, <1>3
  <1>5. QED
    BY <1>3, <1>4, DoneStep

LEMMA DeleteDoneStep ==
  ASSUME ObjectsAssumption, ObjectsInv, NEW c \in Callers, Objects!DeleteDone(c)
  PROVE  ObjectsInv'
  <1> DEFINE me == storing[c]
  <1>1. PICK more : more = {}
    OBVIOUS
  <1>2. PICK less : less = IF me.reply = "ok" THEN {me.key} \cap acked ELSE {}
    OBVIOUS
  <1>3. /\ storing' = [storing EXCEPT ![c] = Objects!Idle] /\ UNCHANGED <<bucket, late, doomed, usedIds>>
        /\ acked' = acked \cup more /\ gone' = gone \cup less
        /\ me.at = "delete"
    BY <1>1, <1>2 DEF Objects!DeleteDone, Objects!Ends
  <1>4. \A key \in less : key \in acked /\ key \in Paths /\ key \notin bucket
    BY <1>2, <1>3 DEF ObjectsInv, ObjectsTypeOK, DeletionInv
  <1>5. /\ \A key \in more : storing[c].at = "put" /\ storing[c].reply = "ok" /\ key = storing[c].key
        /\ \A key \in less : /\ key \in Paths /\ (key \in acked \/ key \in storing[c].started)
                             /\ Objects!Escaped(key) = key => key \notin bucket
    BY <1>1, <1>4
  <1>6. QED
    BY <1>3, <1>5, DoneStep

LEMMA DeleteNextStep ==
  ASSUME ObjectsAssumption, ObjectsInv, NEW c \in Callers, Objects!DeleteNext(c)
  PROVE  ObjectsInv'
  <1> DEFINE me == storing[c]
  <1>1. /\ me \in StorageCall /\ Remaining(me)
        /\ me.at = "deleting" \/ (me.at = "delete_each" /\ me.reply = "ok")
        /\ UNCHANGED <<bucket, late, acked, doomed, usedIds>>
    BY DEF ObjectsInv, ObjectsTypeOK, DeletionInv, Objects!DeleteNext, Objects!Replied
  <1>2. CASE me.keys = {} /\ gone' = gone \cup me.started /\ Objects!Ends(c)
    <2>1. PICK more : more = {}
      OBVIOUS
    <2>2. PICK less : less = me.started
      OBVIOUS
    <2>3. \A key \in less : key \in Paths /\ key \in me.started
      BY <1>1, <2>2 DEF StorageCall
    <2>4. \A key \in less : Objects!Escaped(key) = key => key \notin bucket
      BY <1>1, <1>2, <2>2 DEF Remaining
    <2>5. /\ storing' = [storing EXCEPT ![c] = Objects!Idle]
          /\ acked' = acked \cup more /\ gone' = gone \cup less
      BY <1>1, <1>2, <2>1, <2>2 DEF Objects!Ends
    <2>6. QED
      BY <1>1, <2>1, <2>3, <2>4, <2>5, DoneStep
  <1>3. ASSUME NEW key \in me.keys, UNCHANGED gone,
               storing' = [storing EXCEPT ![c].at = "delete_each", ![c].key = key,
                                          ![c].keys = @ \ {key}, ![c].reply = None]
        PROVE  ObjectsInv'
    <2>1. storing' = [storing EXCEPT ![c] =
            [storing[c] EXCEPT !.at = "delete_each", !.key = key, !.keys = storing[c].keys \ {key},
                               !.reply = None]]
      BY <1>3
    <2>2. QED
      BY <1>1, <1>3, <2>1, DeleteEachStep
  <1>4. QED
    BY <1>2, <1>3 DEF Objects!DeleteNext

LEMMA ObjectsStep ==
  ASSUME ObjectsAssumption, ObjectsInv, [Objects!Next]_(Objects!vars)
  PROVE  ObjectsInv'
  <1>1. CASE \E c \in Callers :
               \/ \E prefix \in PathPrefixes, file \in Files : Objects!Put(c, prefix, file)
               \/ \E key \in acked : Objects!Delete(c, key)
               \/ \E prefix \in PathPrefixes : Objects!DeletePrefix(c, prefix)
    BY <1>1, PutStep, DeleteStep, DeletePrefixStep
  <1>2. CASE \E c \in Callers : Objects!Serve(c) \/ Objects!Refuse(c) \/ Objects!Breaks(c)
    BY <1>2, ServeStep, RefuseStep, BreaksStep
  <1>3. CASE \E c \in Callers :
               \/ Objects!PutDone(c) \/ Objects!PutFailed(c) \/ Objects!CleanedUp(c)
               \/ Objects!DeleteDone(c)
    BY <1>3, PutDoneStep, PutFailedStep, FailedStep, DeleteDoneStep
  <1>4. CASE \E c \in Callers :
               Objects!ListPage(c) \/ Objects!DeleteNext(c) \/ Objects!DeletePrefixFailed(c)
    BY <1>4, ListPageStep, DeleteNextStep, FailedStep
  <1>5. CASE \E request \in late : Objects!Arrives(request)
    BY <1>5, ArrivesStep
  <1>6. CASE UNCHANGED Objects!vars
    <2>1. UNCHANGED <<bucket, late, storing, acked, doomed, gone, usedIds>>
      BY <1>6 DEF Objects!vars
    <2>2. /\ \A key : /\ Objects!Escaped(key)' = Objects!Escaped(key)
                      /\ Objects!IdOf(key)' = Objects!IdOf(key)
                      /\ Known(key)' = Known(key) /\ Pending(key)' = Pending(key)
                      /\ Removes(key)' = Removes(key)
          /\ \A key, p : Objects!IsPrefix(p, key)' = Objects!IsPrefix(p, key)
      BY <2>1 DEF Objects!Escaped, Objects!IdOf, Objects!Range, Objects!IsPrefix, Known, Pending,
                  Removes, Uploading
    <2>3. ObjectsTypeOK'
      BY <2>1 DEF ObjectsInv, ObjectsTypeOK
    <2>4. IdsInv'
      BY <2>1, <2>2, IdsKept DEF ObjectsInv
    <2>5. RemovalInv'
      BY <2>1, <2>2 DEF ObjectsInv, RemovalInv
    <2>6. UploadInv'
      BY <2>1 DEF ObjectsInv, UploadInv, Uploading, Objects!AcknowledgedIsStored
    <2>7. DeletionInv'
      BY <2>1, <2>2 DEF ObjectsInv, DeletionInv, Remaining, Objects!PrefixIsGone
    <2>8. QED
      BY <2>3, <2>4, <2>5, <2>6, <2>7 DEF ObjectsInv
  <1>7. QED
    BY <1>1, <1>2, <1>3, <1>4, <1>5, <1>6 DEF Objects!Next

LEMMA ObjectsStart ==
  ASSUME ObjectsAssumption, Objects!Init
  PROVE  ObjectsInv
  <1>1. /\ bucket = Stored /\ late = {} /\ acked = {} /\ doomed = {} /\ gone = {}
        /\ \A c \in Callers : storing[c] = Objects!Idle
        /\ storing \in [Callers -> StorageCall]
    BY IdleCall DEF Objects!Init
  <1>2. usedIds = Cardinality(Stored) /\ IsFiniteSet(Stored)
    <2>1. Objects!IsFiniteSet(Stored) = IsFiniteSet(Stored)
      BY DEF IsFiniteSet, Objects!IsFiniteSet
    <2>2. Objects!Cardinality(Stored) = Cardinality(Stored)
      BY DEF Cardinality, Objects!Cardinality, IsFiniteSet, Objects!IsFiniteSet
    <2>3. QED
      BY <2>1, <2>2 DEF Objects!Init, ObjectsAssumption, Objects!IdsAreUnique
  <1>3. usedIds \in Nat
    BY <1>2, FS_CardinalityType
  <1>4. ObjectsTypeOK
    BY <1>1, <1>3, IdleCall DEF ObjectsTypeOK, ObjectsAssumption, Requests
  <1>5. IdsInv
    <2>1. \A key : Known(key) => key \in Stored
      BY <1>1, IdleCall DEF Known, Uploading
    <2>2. Objects!Cardinality(Stored) = usedIds
      BY DEF Objects!Init
    <2>3. /\ \A key \in Stored : \E i \in 1 .. usedIds : i \in DOMAIN Ulids /\ Objects!Carries(key, i)
          /\ \A key, other \in Stored : Objects!IdOf(key) = Objects!IdOf(other) => key = other
      BY <2>2 DEF ObjectsAssumption, Objects!IdsAreUnique
    <2>4. ASSUME NEW key \in Stored
          PROVE  /\ Objects!IdOf(key) \in DOMAIN Ulids /\ Objects!IdOf(key) <= usedIds
                 /\ Objects!Carries(key, Objects!IdOf(key))
      <3>1. PICK i \in 1 .. usedIds : i \in DOMAIN Ulids /\ Objects!Carries(key, i)
        BY <2>3
      <3>2. Objects!IdOf(key) = i
        BY <3>1, IdOfCarried
      <3>3. QED
        BY <1>3, <3>1, <3>2
    <2>5. QED
      BY <2>1, <2>3, <2>4 DEF IdsInv
  <1>6. RemovalInv
    BY <1>1, IdleCall DEF RemovalInv
  <1>7. UploadInv
    BY <1>1, IdleCall DEF UploadInv, Uploading, Objects!AcknowledgedIsStored
  <1>8. DeletionInv
    BY <1>1, IdleCall DEF DeletionInv, Pending, Remaining, Objects!PrefixIsGone
  <1>9. QED
    BY <1>4, <1>5, <1>6, <1>7, <1>8 DEF ObjectsInv

LEMMA ObjectsInvariant == Objects!Spec => []ObjectsInv
  <1>1. Objects!Init => ObjectsInv
    BY ObjectsStart, ServicesAssumption
  <1>2. ObjectsInv /\ [Objects!Next]_(Objects!vars) => ObjectsInv'
    BY ObjectsStep, ServicesAssumption
  <1>3. QED
    BY <1>1, <1>2, PTL DEF Objects!Spec

(* put_inner and delete_prefix (src/storage/facade.rs): a key that put     *)
(* returned stays stored until somebody asks to delete it, whatever        *)
(* uploads fail and are cleaned up, whatever requests arrive after their   *)
(* callers gave up, and whatever prefixes are deleted meanwhile.           *)
THEOREM AcknowledgedUploadsStay == Objects!Spec => []AcknowledgedIsStored
  <1>1. ObjectsInv => AcknowledgedIsStored
    BY DEF ObjectsInv, UploadInv, AcknowledgedIsStored
  <1>2. QED
    BY <1>1, ObjectsInvariant, PTL

(* delete and delete_prefix (src/storage/facade.rs): what a caller was     *)
(* told is deleted is not stored and never comes back, for any number of   *)
(* pages, callers and late requests; keys that the XML of the list writes  *)
(* in another way excepted.                                                *)
THEOREM DeletedStaysGone == Objects!Spec => []PrefixIsGone
  <1>1. ObjectsInv => PrefixIsGone
    BY DEF ObjectsInv, DeletionInv, PrefixIsGone
  <1>2. QED
    BY <1>1, ObjectsInvariant, PTL
=============================================================================
