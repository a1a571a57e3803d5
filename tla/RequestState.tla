---------------------------- MODULE RequestState ----------------------------
(***************************************************************************)
(* What requests meet and share, side by side: the stack of layers, the    *)
(* cookies of a browser (csrf and flash), the domain claims of tenants and *)
(* the API keys.  They have no state in common; each has its own variables *)
(* and, in its instance, its actions.                                      *)
(***************************************************************************)
EXTENDS Integers, Sequences, FiniteSets

CONSTANTS
  None,
  Directory, PluralRules, DefaultLocale, MaxDepth,
  Names, Base, Exact, Wildcards, Fallback, Prefix,
  Stacks, Parts, Addresses, Accepted, LocaleKeys, Counts, MaxUsage,
  Tabs, Requests, CsrfTokens, Messages,
  ClaimIds, Tenants, DomainNames, ClaimCalls, Expiry, MaxHours,
  KeyIds, KeyCalls, Threshold, MaxSeconds

VARIABLES
  stack, at, dir, parts, ext, saved, resp,
  jar, tab, req, minted, queued, shown, overlap,
  hours, claims, used, dns, served, claimCall,
  seconds, records, keyCall, touches

Stack == INSTANCE Layers

Browser == INSTANCE BrowserCookies

Claims == INSTANCE Domains WITH Ids <- ClaimIds, Calls <- ClaimCalls, MaxTime <- MaxHours,
                                now <- hours, call <- claimCall

Store == INSTANCE ApiKeys WITH Keys <- KeyIds, Callers <- KeyCalls, MaxTime <- MaxSeconds,
                               now <- seconds, caller <- keyCall

(* The errors that responses are made from: with a message, or with a key  *)
(* for one.                                                                *)
Worded ==
  {Stack!Error(status, "refused") : status \in 400 .. 599}
    \cup {Stack!Rejections[x] : x \in DOMAIN Stack!Rejections}
    \cup {Stack!RejectBearer, Stack!internal}
    \cup Stack!FoundErrors \cup Stack!HandlerErrors

Errors == Worded \cup Stack!Localized

(* Times are numbers and keys are sequences of names; a request has its    *)
(* headers; None is nothing else.                                          *)
ASSUME RequestStateAssumption ==
  /\ Stack!CatalogAssumption
  /\ Stack!HostsAssumption
  /\ MaxSeconds \in Nat
  /\ Stacks \subseteq Seq(STRING)
  /\ LocaleKeys \subseteq Seq(STRING) \ {<<>>}
  /\ \A p \in Parts : /\ {"host", "x_forwarded_host", "forwarded"} \subseteq DOMAIN p
                      /\ p.host \in Stack!Header \cup {None}
  /\ DefaultLocale \in STRING
  /\ None \notin Nat \cup BOOLEAN \cup STRING \cup LocaleKeys
  /\ \A e \in Worded : None \notin {e, Stack!clone(e)}
  /\ \A e \in Stack!Localized : None \notin {e, Stack!clone(e)}
  /\ None \notin Stack!Features /\ \A scopes \in SUBSET {"scope"} : scopes # None

-----------------------------------------------------------------------------
(* The properties of the parts; their own modules say what they mean and   *)
(* of which code.                                                          *)

(* A guard lets nobody through whom it should not (src/auth/guard.rs). *)
GuardsFailClosed == Stack!GuardsFailClosed

(* Errors and pages come as they should (src/middleware/error_handler.rs). *)
AnswersAreRendered == Stack!AnswersAreRendered

(* A layer's headers reach the client (src/middleware). *)
HeadersSurvive == Stack!HeadersSurvive

(* The router and the tenant strategies agree (src/server, src/tenant). *)
RouterAndTenantAgree == Stack!RouterAndTenantAgree

(* The token in an open tab is the cookie's (src/middleware/csrf.rs). *)
TabsStayValid == Browser!TabsStayValid

(* An unread flash message leaves for a cause (src/flash). *)
UnreadLeavesForACause == Browser!UnreadLeavesForACause

(* A flash message is shown once (src/flash). *)
ShownOnce == Browser!ShownOnce

(* What a domain is routed to was proved (src/tenant/domain.rs). *)
RoutedWasProved == Claims!RoutedWasProved

(* A removed claim stays removed (src/tenant/domain.rs). *)
RemovedStaysRemoved == Claims!RemovedStaysRemoved

(* A revocation is final (src/auth/apikey). *)
RevokedStaysRevoked == Store!RevokedStaysRevoked
=============================================================================
