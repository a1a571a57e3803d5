------------------------------- MODULE Hosts --------------------------------
(***************************************************************************)
(* How a request's host, path and headers name a router, a tenant, a       *)
(* client address and a locale: the host router (src/server), the tenant   *)
(* strategies (src/tenant), the client address (src/ip) and the locale     *)
(* resolvers (src/i18n).                                                   *)
(*                                                                         *)
(* A host name is the sequence of its labels; a header that carries one    *)
(* may write it in upper case and with a port.                             *)
(***************************************************************************)
EXTENDS Errors, Catalog

CONSTANTS
  Names,           \* host names, as sequences of labels
  Base,            \* the base domain of the subdomain strategies
  Exact,           \* the hosts with a router of their own
  Wildcards,       \* the suffixes with a router for their subdomains
  Fallback,        \* whether there is a fallback router
  Prefix           \* the path prefix, as a sequence of segments

(* A host has at least one label, which may be empty; host() panics on     *)
(* patterns of one label.                                                  *)
HostsAssumption ==
  /\ Names \subseteq Seq(STRING) \ {<<>>}
  /\ Base \in Names
  /\ Exact \subseteq Names
  /\ \A s \in Wildcards : Len(s) > 1
  /\ Fallback \in BOOLEAN
  /\ None \notin Names

(* A header that holds a host. *)
Header == [name : Names, upper : BOOLEAN, port : BOOLEAN]

(* strip_port and to_lowercase. *)
Plain(h) == h.name

-----------------------------------------------------------------------------
(* The host router: Forwarded, X-Forwarded-Host, Host, in this order. *)
resolve_host(p) ==
  CASE p.forwarded # None -> Plain(p.forwarded)
    [] p.forwarded = None /\ p.x_forwarded_host # None -> Plain(p.x_forwarded_host)
    [] p.forwarded = None /\ p.x_forwarded_host = None /\ p.host # None -> Plain(p.host)
    [] OTHER -> None

NoMatch == [router |-> None, subdomain |-> None]

(* Fault: a wildcard covers every level of subdomains. *)
match_host_deep(name) ==
  LET suffixes == {s \in Wildcards : IsSuffix(s, name) /\ s # name} IN
  CASE name \in Exact -> [router |-> name, subdomain |-> None]
    [] name \notin Exact /\ suffixes # {} ->
         [router |-> CHOOSE s \in suffixes : TRUE, subdomain |-> name[1]]
    [] OTHER -> IF Fallback THEN [router |-> <<>>, subdomain |-> None] ELSE NoMatch

(* An exact host, then a wildcard for the text after the first dot, then   *)
(* the fallback.                                                           *)
match_host(name) ==
  CASE name \in Exact -> [router |-> name, subdomain |-> None]
    [] name \notin Exact /\ Tail(name) \in Wildcards ->
         [router |-> Tail(name), subdomain |-> name[1]]
    [] OTHER -> IF Fallback THEN [router |-> <<>>, subdomain |-> None] ELSE NoMatch

-----------------------------------------------------------------------------
(* The tenant strategies.  They return a tenant id or the status of their  *)
(* error.                                                                  *)

Ok(kind, value) == [status |-> 200, kind |-> kind, value |-> value]
Err(status) == [status |-> status, kind |-> "error", value |-> None]

(* The Host header only: forwarding headers are not looked at. *)
host_from_parts(p) == IF p.host = None THEN None ELSE Plain(p.host)

(* What stands before ".base": one label, not empty. *)
UnderBase(name) ==
  IF Len(name) = Len(Base) + 1 /\ name[1] # "" THEN Ok("slug", name[1]) ELSE Err(400)

SubdomainStrategy(p) ==
  LET name == host_from_parts(p) IN
  IF name # None /\ IsSuffix(Base, name) /\ name # Base THEN UnderBase(name) ELSE Err(400)

DomainStrategy(p) ==
  IF p.host = None THEN Err(400) ELSE Ok("domain", host_from_parts(p))

SubdomainOrDomainStrategy(p) ==
  LET name == host_from_parts(p) IN
  CASE name = None \/ name = Base -> Err(400)
    [] name # None /\ name # Base /\ IsSuffix(Base, name) -> UnderBase(name)
    [] OTHER -> Ok("domain", name)

HeaderStrategy(p) == IF p.header = None THEN Err(400) ELSE Ok("id", p.header)

ApiKeyHeaderStrategy(p) == IF p.header = None THEN Err(400) ELSE Ok("api_key", p.header)

(* The segment after the prefix; the path the handler sees is the rest. *)
PathPrefixStrategy(p) ==
  IF IsPrefix(Prefix, p.path) /\ Len(p.path) > Len(Prefix) /\ p.path[Len(Prefix) + 1] # ""
  THEN Ok("slug", p.path[Len(Prefix) + 1])
  ELSE Err(400)

RewrittenPath(path) == SubSeq(path, Len(Prefix) + 2, Len(path))

(* The route's parameter; without it the layer is in the wrong place. *)
PathParamStrategy(p) == IF p.param = None THEN Err(500) ELSE Ok("slug", p.param)

Strategies ==
  {"subdomain", "domain", "subdomain_or_domain", "header", "api_key_header",
   "path_prefix", "path_param"}

TenantStrategy(strategy, p) ==
  CASE strategy = "subdomain" -> SubdomainStrategy(p)
    [] strategy = "domain" -> DomainStrategy(p)
    [] strategy = "subdomain_or_domain" -> SubdomainOrDomainStrategy(p)
    [] strategy = "header" -> HeaderStrategy(p)
    [] strategy = "api_key_header" -> ApiKeyHeaderStrategy(p)
    [] strategy = "path_prefix" -> PathPrefixStrategy(p)
    [] strategy = "path_param" -> PathParamStrategy(p)

-----------------------------------------------------------------------------
(* Of a peer that is not a trusted proxy, when there are any, nothing but  *)
(* its own address is believed; otherwise the first that parses of         *)
(* X-Forwarded-For, X-Real-IP and the peer.  "garbled" does not parse.     *)
extract_client_ip(forwarded_for, real_ip, proxies, peer) ==
  LET distrusted == peer # None /\ proxies # {} /\ peer \notin proxies
      believed == IF distrusted THEN <<peer>> ELSE <<forwarded_for, real_ip, peer>>
      parsed == SelectSeq(believed, LAMBDA a : a \notin {None, "garbled"}) IN
  IF parsed = <<>> THEN "localhost" ELSE parsed[1]

-----------------------------------------------------------------------------
(* The locale resolvers. *)

Known(l) == available_locales = {} \/ l \in available_locales

QueryParamResolver(q) == IF q # None /\ Known(q) THEN q ELSE None

CookieResolver(c) == IF c # None /\ Known(c) THEN c ELSE None

(* The session's locale is taken as it is. *)
SessionResolver(s) == s

(* The best of the available languages, in the order they are written      *)
(* where two have the same quality.                                        *)
AcceptLanguageResolver(langs) ==
  LET known == {i \in DOMAIN langs : langs[i].lang \in available_locales}
      best(i) == \A j \in known :
                   langs[i].q > langs[j].q \/ (langs[i].q = langs[j].q /\ i <= j) IN
  IF known = {} THEN None ELSE langs[CHOOSE i \in known : best(i)].lang

(* default_chain: the first resolver that answers. *)
resolve_locale(q, c, s, langs) ==
  LET answers == <<QueryParamResolver(q), CookieResolver(c), SessionResolver(s),
                   AcceptLanguageResolver(langs)>>
      first == SelectInSeq(answers, LAMBDA l : l # None) IN
  IF first = 0 THEN DefaultLocale ELSE answers[first]
=============================================================================
