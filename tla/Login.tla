-------------------------------- MODULE Login --------------------------------
(***************************************************************************)
(* Sign-in through GitHub and Google (src/auth/oauth): the state cookie    *)
(* that ties the redirect to a provider to the callback, and the calls to  *)
(* the provider that turn the callback's code into a profile.              *)
(*                                                                         *)
(* A browser has one state cookie for all its tabs and all providers.      *)
(* Flows are numbered: the number of a flow stands for its nonce, its PKCE *)
(* verifier and, at the provider, its code, which are random and never     *)
(* meet.  A flow's callback is a link, and may be opened in any tab of any *)
(* browser, more than once and late.                                       *)
(***************************************************************************)
EXTENDS Naturals, Sequences, FiniteSets

CONSTANTS
  Browsers,
  Tabs,            \* in which callbacks of one browser may be open together
  Accounts,        \* answers of a provider's API: [provider, id_type, id, email,
                   \* verified]
  Pkce,            \* the providers that check the code verifier
  MaxFlows,        \* bound: flows begun
  None

VARIABLES
  flows,           \* flow to [browser, provider], in the order they began
  answered,        \* flows whose redirect has not reached its browser yet
  cookie,          \* each browser's state cookie
  codes,           \* the provider's side: flow to the account that agreed
  used,            \* codes that were exchanged
  call,            \* the callback each browser and tab waits for
  profiles         \* [browser, code, profile] of the calls that succeeded

vars == <<flows, answered, cookie, codes, used, call, profiles>>

-----------------------------------------------------------------------------
Init ==
  /\ flows = <<>>
  /\ answered = {}
  /\ cookie = [b \in Browsers |-> None]
  /\ codes = <<>>
  /\ used = {}
  /\ call = [w \in Browsers \X Tabs |-> None]
  /\ profiles = {}

(* build_oauth_cookie: the signed payload.  The signature makes any other  *)
(* value of the cookie a missing one.                                      *)
build_oauth_cookie(flow) ==
  [state |-> flow, pkce_verifier |-> flow, provider |-> flows[flow].provider]

(* authorize_url: a new nonce and verifier; the response redirects to the  *)
(* provider, with the nonce and the challenge of the verifier.             *)
authorize_url(b, provider) ==
  LET flow == Len(flows) + 1 IN
  /\ Len(flows) < MaxFlows
  /\ flows' = [f \in 1..flow |-> IF f = flow THEN [browser |-> b, provider |-> provider]
                                 ELSE flows[f]]
  /\ answered' = answered \cup {flow}
  /\ UNCHANGED <<cookie, codes, used, call, profiles>>

GitHub(b) == authorize_url(b, "github")

Google(b) == authorize_url(b, "google")

(* AuthorizationRequest::into_response reaches the browser, in any order   *)
(* with the responses to other tabs.                                       *)
IntoResponse(flow) ==
  /\ flow \in answered
  /\ answered' = answered \ {flow}
  /\ cookie' = [cookie EXCEPT ![flows[flow].browser] = build_oauth_cookie(flow)]
  /\ UNCHANGED <<flows, codes, used, call, profiles>>

(* The cookie's five minutes are over. *)
Expire(b) ==
  /\ cookie[b] # None
  /\ cookie' = [cookie EXCEPT ![b] = None]
  /\ UNCHANGED <<flows, answered, codes, used, call, profiles>>

(* The provider: someone agrees, and the code exists. *)
Agree(flow, account) ==
  /\ flow \in DOMAIN flows \ answered
  /\ flow \notin DOMAIN codes
  /\ account.provider = flows[flow].provider
  /\ codes' = [f \in DOMAIN codes \cup {flow} |-> IF f = flow THEN account ELSE codes[f]]
  /\ UNCHANGED <<flows, answered, cookie, used, call, profiles>>

-----------------------------------------------------------------------------
(* Fault: the nonce is not compared. *)
exchange_checks_any(state, provider, nonce) == state.provider = provider

(* What exchange compares before it calls anyone. *)
exchange_checks(state, provider, nonce) == state.provider = provider /\ nonce = state.state

(* The callback: the cookie is verified and compared with the parameters.  *)
(* It is not cleared.                                                      *)
Callback(w, flow) ==
  LET state == cookie[w[1]]
      provider == flows[flow].provider IN
  /\ call[w] = None
  /\ flow \in DOMAIN codes
  /\ state # None
  /\ exchange_checks(state, provider, flow)
  /\ call' = [call EXCEPT ![w] = [provider |-> provider, code |-> flow,
                                  verifier |-> state.pkce_verifier, account |-> None]]
  /\ UNCHANGED <<flows, answered, cookie, codes, used, profiles>>

(* post_form at the provider: a code is good once, and for the verifier it *)
(* was asked with.  The answer may be lost.                                *)
post_form(w) ==
  LET me == call[w]
      good == me.code \notin used /\ (me.provider \in Pkce => me.verifier = me.code)
      taken == IF good THEN used \cup {me.code} ELSE used IN
  /\ me # None
  /\ me.account = None
  /\ \/ /\ good
        /\ used' = taken
        /\ call' = [call EXCEPT ![w].account = codes[me.code]]
     \/ /\ used' \in {used, taken}
        /\ call' = [call EXCEPT ![w] = None]
  /\ UNCHANGED <<flows, answered, cookie, codes, profiles>>

UserProfile(account) ==
  [provider |-> account.provider, provider_user_id |-> account.id, email |-> account.email,
   email_verified |-> account.verified = "yes"]

(* GitHub's id is a number or text; it needs a primary address. *)
github_profile(account) ==
  IF account.id_type \in {"number", "text"} /\ account.email # None
  THEN UserProfile(account) ELSE None

(* Google's id is text; an address is verified only if it says so. *)
google_profile(account) ==
  IF account.id_type = "text" /\ account.email # None THEN UserProfile(account) ELSE None

profile(account) ==
  IF account.provider = "github" THEN github_profile(account) ELSE google_profile(account)

(* get_json for the user, and for GitHub the addresses; one may fail. *)
get_json(w) ==
  LET me == call[w] IN
  /\ me # None
  /\ me.account # None
  /\ \/ /\ profile(me.account) # None
        /\ profiles' = profiles \cup {[browser |-> w[1], code |-> me.code,
                                       profile |-> profile(me.account)]}
     \/ UNCHANGED profiles
  /\ call' = [call EXCEPT ![w] = None]
  /\ UNCHANGED <<flows, answered, cookie, codes, used>>

-----------------------------------------------------------------------------
Next ==
  \/ \E b \in Browsers :
       \/ GitHub(b)
       \/ Google(b)
       \/ Expire(b)
  \/ \E w \in Browsers \X Tabs :
       \/ \E flow \in DOMAIN flows : Callback(w, flow)
       \/ post_form(w)
       \/ get_json(w)
  \/ \E flow \in DOMAIN flows : IntoResponse(flow) \/ \E a \in Accounts : Agree(flow, a)

Spec == Init /\ [][Next]_vars

-----------------------------------------------------------------------------
(* state.rs, github.rs:90, google.rs:85: a browser gets a profile only     *)
(* from a flow that it began itself, at the provider it was begun with, of *)
(* the account that agreed to that flow, and no flow gives two profiles,   *)
(* whatever other tabs and browsers begin, and however late and often      *)
(* callbacks are opened.                                                   *)
LoginIsBound ==
  /\ \A p \in profiles :
       /\ p.browser = flows[p.code].browser
       /\ p.profile.provider = flows[p.code].provider
       /\ p.profile = profile(codes[p.code])
  /\ \A p, q \in profiles : p.code = q.code => p = q
=============================================================================
