----------------------------- MODULE MCRequests -----------------------------
(* Small instances of what requests meet and share: the rate limiter's     *)
(* map, the cookies of a browser, the stack of layers, the domain claims   *)
(* and the API keys.  They have no state in common, so a behaviour takes   *)
(* steps of one of them only, chosen at its start.                         *)
EXTENDS RateLimit, RequestState, TLC

CONSTANTS k1, k2, k3

VARIABLE part

MCShards == <<"a", "b">>
MCShardOf == (k1 :> "a") @@ (k2 :> "a") @@ (k3 :> "b")

-----------------------------------------------------------------------------
b == <<"example", "com">>
MCNames == {b, <<"a">> \o b, <<"b", "a">> \o b, <<"">> \o b, <<"other", "org">>}
MCBase == b
MCExact == {b}
MCWildcards == {b}
MCPrefix == <<"orgs">>

NoParts ==
  [host |-> None, x_forwarded_host |-> None, forwarded |-> None, header |-> None,
   path |-> <<"x">>, param |-> None]
HostHeader(name, upper) == [name |-> name, upper |-> upper, port |-> ~upper]
MCParts ==
  {[NoParts EXCEPT !.host = HostHeader(n, u)] : n \in MCNames, u \in BOOLEAN}
    \cup {[NoParts EXCEPT !.x_forwarded_host = x, !.forwarded = f, !.host = h] :
            h, x \in {None, HostHeader(<<"a">> \o b, TRUE)},
            f \in {None, HostHeader(<<"other", "org">>, TRUE)}}
    \cup {[NoParts EXCEPT !.header = "t"], [NoParts EXCEPT !.param = "t"],
          [NoParts EXCEPT !.path = <<"orgs", "t", "x">>], [NoParts EXCEPT !.path = <<"orgs", "">>]}

Str(text) == [kind |-> "string", text |-> text, map |-> <<>>]
Map(m) == [kind |-> "mapping", text |-> <<>>, map |-> m]
MCDirectory ==
  {[name |-> "en", is_dir |-> TRUE, files |->
      {[stem |-> "errors", ext |-> "yaml", value |->
          Map([gone |-> Str(<<"gone">>),
               items |-> Map([one |-> Str(<<"item">>),
                              other |-> Str(<<"{", "count", "}", "items", "{", "who", "}">>)]),
               other |-> Map([deep |-> Str(<<"deep", "{", "}", "{", "x">>)])])]}],
   [name |-> "uk", is_dir |-> TRUE, files |->
      {[stem |-> "errors", ext |-> "yml", value |->
          Map([gone |-> Str(<<"nema">>),
               other |-> [kind |-> "number", text |-> <<>>, map |-> <<>>]])],
       [stem |-> "notes", ext |-> "txt", value |-> Str(<<"x">>)]}],
   [name |-> "pl", is_dir |-> FALSE, files |-> {}]}
MCPluralRules ==
  [en |-> (0 :> "other") @@ (1 :> "one") @@ (2 :> "other"),
   uk |-> (0 :> "many") @@ (1 :> "one") @@ (2 :> "few")]
MCLocaleKeys ==
  {<<"errors", "gone">>, <<"errors", "items">>, <<"errors", "other", "deep">>, <<"notes">>}
MCAccepted ==
  {<<>>, <<[lang |-> "pl", q |-> 9], [lang |-> "en", q |-> 5], [lang |-> "uk", q |-> 8]>>}

MCCounts == {-1, 0, 2}

AllLayers ==
  {"session", "jwt", "api_key", "role", "tenant", "host_router", "tier", "client_ip",
   "geo", "i18n", "template", "require_role", "require_authenticated",
   "require_unauthenticated", "require_scope", "require_feature", "require_limit",
   "catch_panic", "security_headers", "cors", "request_id", "error_handler"}

(* Every layer, every two in both orders, three of those about sessions    *)
(* and of a layer twice around a guard or the template layer, and four of  *)
(* those that make or change an error's response, two error handlers among *)
(* them.                                                                   *)
MCStacks ==
  [1 .. 1 -> AllLayers] \cup [1 .. 2 -> AllLayers]
    \cup [1 .. 3 -> {"session", "jwt", "require_authenticated", "require_unauthenticated",
                     "catch_panic", "error_handler"}]
    \cup {<<"role", "require_role", "role">>, <<"api_key", "require_scope", "api_key">>,
          <<"tier", "require_limit", "tier">>, <<"i18n", "template", "i18n">>,
          <<"template", "i18n", "template">>}
    \cup [1 .. 4 -> {"catch_panic", "error_handler", "i18n", "security_headers", "require_role"}]

-----------------------------------------------------------------------------
browserVars == <<jar, tab, req, minted, queued, shown, overlap>>
stackVars == <<stack, at, dir, parts, ext, saved, resp>>
claimVars == <<hours, claims, used, dns, served, claimCall>>
keyVars == <<seconds, records, keyCall, touches>>

MCInit ==
  /\ part \in {"limiter", "browser", "stack", "claims", "keys"}
  /\ Init /\ Browser!Init /\ Stack!Init /\ Claims!Init /\ Store!Init
  /\ part # "stack" => stack = <<"session">>

MCNext ==
  /\ UNCHANGED part
  /\ \/ part = "limiter" /\ Next /\ UNCHANGED <<browserVars, stackVars, claimVars, keyVars>>
     \/ part = "browser" /\ Browser!Next /\ UNCHANGED <<vars, stackVars, claimVars, keyVars>>
     \/ part = "stack" /\ Stack!Next /\ UNCHANGED <<vars, browserVars, claimVars, keyVars>>
     \/ part = "claims" /\ Claims!Next /\ UNCHANGED <<vars, browserVars, stackVars, keyVars>>
     \/ part = "keys" /\ Store!Next /\ UNCHANGED <<vars, browserVars, stackVars, claimVars>>

MCSpec == MCInit /\ [][MCNext]_<<part, vars, browserVars, stackVars, claimVars, keyVars>>

(* The instances share three sets of names, and in each of them the names  *)
(* of a set are interchangeable: keys of a shard, tabs and claims; the     *)
(* slots of callers and requests; tokens and tenants.                      *)
Symmetry ==
  Permutations({k1, k2}) \cup Permutations(Callers) \cup Permutations(CsrfTokens)
=============================================================================
