------------------------------- MODULE Layers -------------------------------
(***************************************************************************)
(* A request on its way through a stack of modo's tower layers to a        *)
(* handler, and its response on the way back: the guards (src/auth/guard), *)
(* the layers that put what they found into the request's extensions       *)
(* (src/auth, src/tenant, src/tier, src/ip, src/geolocation, src/i18n,     *)
(* src/template) and those that change the response (src/middleware).      *)
(*                                                                         *)
(* The application chooses the order of the layers: stack is any sequence  *)
(* of the set Stacks, outermost layer first.  What a request carries is    *)
(* chosen when a layer looks at it.                                        *)
(***************************************************************************)
EXTENDS Hosts

CONSTANTS
  Stacks,          \* the sequences of layers
  Parts,           \* what a request says of its host and path
  Addresses,       \* client and proxy addresses
  Accepted,        \* Accept-Language headers
  LocaleKeys,      \* the keys that errors and templates use
  Counts,          \* what templates count
  MaxUsage         \* bound: what the usage closure of require_limit counts

VARIABLES
  stack, at, dir,  \* the layers, and where the request or response is
  parts,           \* Parts, or None while nobody looked
  ext,             \* the request's extensions
  saved,           \* per error handler's place: the extensions it cloned
  resp             \* the response

vars == <<stack, at, dir, parts, ext, saved, resp>>

Extensions ==
  {"Session", "Claims", "ApiKeyMeta", "Role", "TierInfo", "Tenant", "MatchedHost",
   "ClientIp", "Location", "Translator", "TemplateContext", "RequestId"}

NoExtensions == [x \in Extensions |-> None]

(* A response: its status and body, the Error in its extensions, the error *)
(* it was made from, the place of the layer that made it, the places of    *)
(* the layers whose headers it has, and of the error handler that rendered *)
(* it, the locale its message was translated for, and the page it is.      *)
NoResponse ==
  [status |-> 0, body |-> None, error |-> None, cause |-> None, origin |-> 0,
   headers |-> {}, rendered |-> 0, locale |-> None, page |-> None]

Response(status) == [NoResponse EXCEPT !.status = status, !.origin = at]

(* Error::into_response keeps a copy of the error for error_handler. *)
into_response(e) ==
  [Response(e.status) EXCEPT
     !.body = render_error_body(e.status, e.message, e.details),
     !.error = clone(e), !.cause = e]

Panicked == [NoResponse EXCEPT !.status = -1, !.origin = at]

Init ==
  /\ stack \in Stacks
  /\ at = 1 /\ dir = "in"
  /\ parts = None
  /\ ext = NoExtensions
  /\ saved = [i \in DOMAIN stack |-> NoExtensions]
  /\ resp = NoResponse

-----------------------------------------------------------------------------
(* A layer goes on with the request, or answers it. *)

Entering(layer) == dir = "in" /\ at <= Len(stack) /\ stack[at] = layer

Inward == at' = at + 1 /\ UNCHANGED <<stack, dir, saved, resp>>

Pass == Inward /\ UNCHANGED <<parts, ext>>

Insert(x, value) == ext' = [ext EXCEPT ![x] = value] /\ Inward

Answer(r) ==
  /\ resp' = r
  /\ dir' = "out" /\ at' = at - 1
  /\ UNCHANGED <<stack, parts, ext, saved>>

Refuse(status) == Answer(into_response(Error(status, "refused")))

(* The request's host and path, the same for every layer that looks. *)
Seen == IF parts = None THEN Parts ELSE {parts}

(* An answer of a layer that looked. *)
RefuseSeen(p, status) ==
  /\ parts' = p
  /\ resp' = into_response(Error(status, "refused"))
  /\ dir' = "out" /\ at' = at - 1
  /\ UNCHANGED <<stack, ext, saved>>

-----------------------------------------------------------------------------
(* Layers that put something into the extensions. *)

(* CookieSessionMiddleware: a session, if the cookie names a live one. *)
SessionLayer ==
  /\ Entering("session")
  /\ \/ Insert("Session", TRUE) /\ UNCHANGED parts
     \/ Pass

(* The sources of tokens: each finds none, or one that is not empty, and   *)
(* TokenSourceConfig::Body is read from the Authorization header here.     *)
TokenSource(found) == IF found \in {"missing", "empty"} THEN None ELSE found

FirstToken(founds) ==
  LET tokens == SelectSeq([i \in DOMAIN founds |-> TokenSource(founds[i])],
                          LAMBDA token : token # None) IN
  IF tokens = <<>> THEN None ELSE tokens[1]

(* JwtLayer: the token of the first source that has one, decoded; with a   *)
(* service its audience is checked and, when validation is stateful, its   *)
(* session is looked up.                                                   *)
JwtLayer ==
  /\ Entering("jwt")
  /\ \E founds \in [1 .. 2 -> {"missing", "empty", "invalid", "access", "refresh"}],
        service \in {"none", "stateless", "stateful"}, live \in BOOLEAN :
       LET token == FirstToken(founds) IN
       IF \/ token \in {None, "invalid"}
          \/ service # "none" /\ token # "access"
          \/ service = "stateful" /\ ~live
       THEN Refuse(401)
       ELSE /\ ext' = [ext EXCEPT !["Claims"] = TRUE,
                                  !["Session"] = IF service = "stateful" THEN TRUE ELSE @]
            /\ Inward /\ UNCHANGED parts

(* ApiKeyLayer: a key that verifies, with its scopes. *)
ApiKeyLayer ==
  /\ Entering("api_key")
  /\ \E key \in {"missing", "invalid", "good"}, scopes \in SUBSET {"scope"} :
       IF key = "good" THEN Insert("ApiKeyMeta", scopes) /\ UNCHANGED parts ELSE Refuse(401)

(* role::middleware: what the application's extractor says. *)
RoleLayer ==
  /\ Entering("role")
  /\ \/ \E role \in {"admin", "user"} : Insert("Role", role) /\ UNCHANGED parts
     \/ Refuse(401)

(* TenantLayer: the id the strategy found, resolved by the application.    *)
(* PathPrefixStrategy takes its segments off the path.                     *)
TenantLayer ==
  /\ Entering("tenant")
  /\ \E p \in Seen, strategy \in Strategies, found \in BOOLEAN :
       LET id == TenantStrategy(strategy, p) IN
       CASE id.status # 200 -> RefuseSeen(p, id.status)
         [] id.status = 200 /\ ~found -> RefuseSeen(p, 404)
         [] OTHER ->
              /\ Insert("Tenant", [kind |-> id.kind, value |-> id.value])
              /\ parts' = IF strategy = "path_prefix"
                          THEN [p EXCEPT !.path = RewrittenPath(p.path)] ELSE p

(* HostRouter: the router's own layers come next. *)
HostRouterService ==
  /\ Entering("host_router")
  /\ \E p \in Seen :
       LET name == resolve_host(p) IN
       CASE name = None -> RefuseSeen(p, 400)
         [] name # None /\ match_host(name) = NoMatch -> RefuseSeen(p, 404)
         [] OTHER ->
              Insert("MatchedHost", match_host(name).subdomain) /\ parts' = p

(* What a plan says of the guarded feature. *)
Features ==
  {[kind |-> "none", n |-> 0], [kind |-> "toggle", n |-> 0], [kind |-> "toggle", n |-> 1],
   [kind |-> "limit", n |-> 0], [kind |-> "limit", n |-> 1]}

(* TierLayer: the owner's plan, the default without an owner, the          *)
(* resolver's error.                                                       *)
TierLayer ==
  /\ Entering("tier")
  /\ \/ \E f \in Features : Insert("TierInfo", f) /\ UNCHANGED parts
     \/ Pass
     \/ Refuse(500)

(* ClientIpLayer, and GeoLayer, which needs it. *)
ClientIpLayer ==
  /\ Entering("client_ip")
  /\ \E xff, xri \in Addresses \cup {None, "garbled"}, proxies \in SUBSET Addresses,
        peer \in Addresses \cup {None} :
       Insert("ClientIp", extract_client_ip(xff, xri, proxies, peer))
  /\ UNCHANGED parts

GeoLayer ==
  /\ Entering("geo")
  /\ \/ ext["ClientIp"] # None /\ Insert("Location", TRUE) /\ UNCHANGED parts
     \/ Pass

(* I18nLayer: a translator for the resolved locale. *)
I18nLayer ==
  /\ Entering("i18n")
  /\ \E q, c, s \in {None, "xx"} \cup available_locales, langs \in Accepted :
       Insert("Translator", resolve_locale(q, c, s, langs))
  /\ UNCHANGED parts

(* TemplateContextLayer: the values the layers outside it provided. *)
TemplateContextLayer ==
  /\ Entering("template")
  /\ Insert("TemplateContext",
            [locale |-> IF ext["Translator"] = None THEN "" ELSE ext["Translator"],
             others |-> {x \in {"TierInfo", "RequestId"} : ext[x] # None}])
  /\ UNCHANGED parts

-----------------------------------------------------------------------------
(* The guards. *)

(* A redirect; htmx follows it from a 200. *)
redirect_response == \E htmx \in BOOLEAN : Answer(Response(IF htmx THEN 200 ELSE 303))

RequireRole ==
  /\ Entering("require_role")
  /\ CASE ext["Role"] = None -> Refuse(401)
       [] ext["Role"] = "user" -> Refuse(403)
       [] OTHER -> Pass

RequireAuthenticated ==
  /\ Entering("require_authenticated")
  /\ IF ext["Session"] = None THEN redirect_response ELSE Pass

RequireUnauthenticated ==
  /\ Entering("require_unauthenticated")
  /\ IF ext["Session"] = None THEN Pass ELSE redirect_response

(* Fault: without an API key there is no scope to miss. *)
RequireScopeOpen ==
  /\ Entering("require_scope")
  /\ IF ext["ApiKeyMeta"] = None \/ "scope" \in ext["ApiKeyMeta"] THEN Pass ELSE Refuse(403)

RequireScope ==
  /\ Entering("require_scope")
  /\ CASE ext["ApiKeyMeta"] = None -> Refuse(500)
       [] ext["ApiKeyMeta"] # None /\ "scope" \notin ext["ApiKeyMeta"] -> Refuse(403)
       [] OTHER -> Pass

has_feature(tier) == tier.n > 0

RequireFeature ==
  /\ Entering("require_feature")
  /\ CASE ext["TierInfo"] = None -> Refuse(500)
       [] ext["TierInfo"] # None /\ ~has_feature(ext["TierInfo"]) -> Refuse(403)
       [] OTHER -> Pass

(* The status of limit_ceiling: an absent feature, or one that is no limit. *)
limit_ceiling(tier) ==
  CASE tier.kind = "limit" -> 200
    [] tier.kind = "toggle" -> 500
    [] OTHER -> 403

check_limit(tier, usage) == limit_ceiling(tier) = 200 /\ usage < tier.n

RequireLimit ==
  LET tier == ext["TierInfo"] IN
  /\ Entering("require_limit")
  /\ IF tier = None THEN Refuse(500)
     ELSE IF limit_ceiling(tier) # 200 THEN Refuse(limit_ceiling(tier))
     ELSE \/ \E usage \in 0 .. MaxUsage :
               IF check_limit(tier, usage) THEN Pass ELSE Refuse(403)
          \/ tier.n > 0 /\ Refuse(500)     \* the usage closure fails

-----------------------------------------------------------------------------
(* Layers that act on the response. *)

Plainly == {"catch_panic", "security_headers", "cors"}

PassPlainly == \E l \in Plainly : Entering(l) /\ Pass

(* request_id: an id of its own unless the request came with one. *)
RequestIdIn ==
  /\ Entering("request_id")
  /\ Insert("RequestId", TRUE) /\ UNCHANGED parts

(* error_handler clones the parts of the request as it is out here. *)
ErrorHandlerIn ==
  /\ Entering("error_handler")
  /\ saved' = [saved EXCEPT ![at] = ext]
  /\ at' = at + 1
  /\ UNCHANGED <<stack, dir, parts, ext, resp>>

Extractors(body) == {JsonRequest(body), FormRequest(body), Query(body), MultipartRequest(body)}

(* The extractors of extensions: what each answers without its layer. *)
RejectBearer == with_code(chain(Error(401, "unauthorized")), "jwt:missing_token")
RejectClaims == Error(401, "unauthorized")
RejectApiKeyMeta == Error(401, "missing_api_key")
RejectRole == internal
RejectTierInfo == internal
RejectTenant == internal
RejectClientIp == internal
RejectMatchedHost == internal
RejectTranslator == with_code(internal, "i18n:layer_missing")
RejectRenderer == internal

Rejections ==
  [Claims |-> RejectClaims, ApiKeyMeta |-> RejectApiKeyMeta, Role |-> RejectRole,
   TierInfo |-> RejectTierInfo, Tenant |-> RejectTenant, ClientIp |-> RejectClientIp,
   MatchedHost |-> RejectMatchedHost, Translator |-> RejectTranslator,
   TemplateContext |-> RejectRenderer]

(* Service: what the registry does not have is an internal error. *)
ServiceError(registered) == IF registered THEN None ELSE internal

(* Engine::render: the template is missing, or fails. *)
RenderError(outcome) == IF outcome = "ok" THEN None ELSE internal

(* JwtSession: the tokens of logout and rotate.  An empty bearer token is  *)
(* taken here, and fails to decode.                                        *)
find_access_token(source, found) ==
  CASE source = "body" -> Error(500, "unsupported")
    [] source = "bearer" /\ found # "missing" -> None
    [] source \notin {"body", "bearer"} /\ TokenSource(found) # None -> None
    [] OTHER -> with_code(Error(401, "unauthorized"), "auth:access_missing")

find_refresh_token(source, body, found) ==
  CASE source = "body" -> IF body THEN None
                          ELSE with_code(Error(400, "refresh_token_missing"), "auth:refresh_missing")
    [] source = "bearer" -> find_access_token(source, found)
    [] source \notin {"body", "bearer"} /\ TokenSource(found) # None -> None
    [] OTHER -> with_code(Error(401, "unauthorized"), "auth:refresh_missing")

TokenSources == {"bearer", "cookie", "header", "query", "body"}

FoundErrors ==
  ({ServiceError(r) : r \in BOOLEAN}
     \cup {find_access_token(src, f) : src \in TokenSources, f \in {"missing", "empty", "access"}}
     \cup {find_refresh_token(src, body, f) :
             src \in TokenSources, body \in BOOLEAN, f \in {"missing", "empty", "access"}}) \ {None}

(* The errors a handler may return: plain, converted, with a locale key,   *)
(* with details, with a source.                                            *)
HandlerErrors ==
  {FromHttpError("Conflict"), FromError("json"), FromError("io"),
   chain(with_code(Error(502, "m"), "c"))}
    \cup {with_locale_key(check(UploadErrors([size |-> 2, content_type |-> <<"a", "b">>], 1,
                                             <<"a", "*">>)), k) : k \in LocaleKeys}

Localized == {localized(422, k) : k \in LocaleKeys}

(* TemplateContext::merge: what the handler gives wins. *)
merge(own) == IF own = <<>> THEN ext["TemplateContext"].locale ELSE own[1]

(* Renderer::html_partial, of a template that calls t(). *)
html_partial(outcome, own, key, count) ==
  IF RenderError(outcome) # None THEN into_response(RenderError(outcome))
  ELSE [Response(200) EXCEPT
          !.page = [own |-> own, key |-> key, count |-> count,
                    text |-> make_t_function(merge(own), key, count, <<>>)]]

Rendering ==
  /\ ext["TemplateContext"] # None
  /\ \E outcome \in {"ok", "not_found", "failed"},
        own \in {<<>>, <<"">>} \cup {<<l>> : l \in available_locales},
        key \in LocaleKeys, count \in {{}} \cup {{n} : n \in Counts} :
       Answer(html_partial(outcome, own, key, count))

(* The handler: an extractor that rejects the body or misses its layer, a  *)
(* reply, an error or a panic.                                             *)
Handler ==
  /\ dir = "in" /\ at = Len(stack) + 1
  /\ \/ \E body \in Bodies : \E status \in Extractors(body) :
          IF status = 200 THEN Answer(Response(200)) ELSE Refuse(status)
     \/ \E results \in SUBSET {"ok", "error", "panic"} : Answer(Response(ready(results)))
     \/ \E e \in HandlerErrors \cup FoundErrors \cup {RejectBearer} : Answer(into_response(e))
     \/ \E e \in Localized : Answer(into_response(e))
     \/ \E x \in DOMAIN Rejections : ext[x] = None /\ Answer(into_response(Rejections[x]))
     \/ Rendering
     \/ Answer(Panicked)

Leaving(layer) == dir = "out" /\ at > 0 /\ stack[at] = layer

Outward(r) ==
  /\ resp' = r
  /\ at' = at - 1
  /\ UNCHANGED <<stack, dir, parts, ext, saved>>

Aborted == resp.status = -1

(* A bare 500 with an Error in its extensions. *)
catch_panic ==
  /\ Leaving("catch_panic")
  /\ Outward(IF Aborted THEN into_response(internal) ELSE resp)

(* default_error_handler, with the extensions saved on the way in. *)
default_error_handler(err, extensions) ==
  LET locale == IF err.locale_key = None THEN None ELSE extensions["Translator"]
      message == IF locale = None THEN err.message
                 ELSE t(locale, err.locale_key, <<>>) IN
  [Response(err.status) EXCEPT
     !.body = render_error_body(err.status, message, err.details), !.locale = locale,
     !.cause = resp.cause, !.origin = resp.origin, !.rendered = at]

(* Fault: the handler sees the request the inner layers have changed. *)
ErrorHandlerOutLate ==
  /\ Leaving("error_handler")
  /\ Outward(IF resp.error # None THEN default_error_handler(resp.error, ext) ELSE resp)

(* The response is replaced, headers and all. *)
ErrorHandlerOut ==
  /\ Leaving("error_handler")
  /\ Outward(IF resp.error # None THEN default_error_handler(resp.error, saved[at]) ELSE resp)

(* Fault: headers are added to what the handler answered only. *)
AddsHeadersOnOk(l) ==
  /\ Leaving(l)
  /\ Outward(IF Aborted \/ resp.error # None THEN resp ELSE [resp EXCEPT !.headers = @ \cup {at}])

(* Headers are added to whatever response comes out. *)
AddsHeaders(l) ==
  /\ Leaving(l)
  /\ Outward(IF Aborted THEN resp ELSE [resp EXCEPT !.headers = @ \cup {at}])

SecurityHeadersService == AddsHeaders("security_headers")

CorsLayer == AddsHeaders("cors")

PropagateRequestIdLayer == AddsHeaders("request_id")

(* The layers that do nothing on the way out. *)
LeavesAlone ==
  /\ dir = "out" /\ at > 0
  /\ stack[at] \notin {"catch_panic", "error_handler", "security_headers", "cors", "request_id"}
  /\ Outward(resp)

Next ==
  \/ SessionLayer \/ JwtLayer \/ ApiKeyLayer \/ RoleLayer \/ TenantLayer
  \/ HostRouterService \/ TierLayer \/ ClientIpLayer \/ GeoLayer \/ I18nLayer
  \/ TemplateContextLayer
  \/ RequireRole \/ RequireAuthenticated \/ RequireUnauthenticated \/ RequireScope
  \/ RequireFeature \/ RequireLimit
  \/ PassPlainly \/ RequestIdIn \/ ErrorHandlerIn
  \/ Handler
  \/ catch_panic \/ ErrorHandlerOut \/ SecurityHeadersService \/ CorsLayer
  \/ PropagateRequestIdLayer \/ LeavesAlone

Spec == Init /\ [][Next]_vars

-----------------------------------------------------------------------------
AtHandler == dir = "in" /\ at = Len(stack) + 1

Place(layer) == {i \in DOMAIN stack : stack[i] = layer}

Outside(i) == {stack[j] : j \in 1 .. i - 1}
Inside(i) == {stack[j] : j \in i + 1 .. Len(stack)}

(* What a guard stands for, by the time the handler runs: a layer outside  *)
(* it found what it requires and, if that layer is not inside it as well,  *)
(* the handler finds it too.                                               *)
Satisfied(i) ==
  CASE stack[i] = "require_role" ->
         "role" \in Outside(i) /\ (ext["Role"] = "admin" \/ "role" \in Inside(i))
    [] stack[i] = "require_authenticated" ->
         {"session", "jwt"} \cap Outside(i) # {} /\ ext["Session"] # None
    [] stack[i] = "require_scope" ->
         /\ "api_key" \in Outside(i) /\ ext["ApiKeyMeta"] # None
         /\ "scope" \in ext["ApiKeyMeta"] \/ "api_key" \in Inside(i)
    [] stack[i] \in {"require_feature", "require_limit"} ->
         /\ "tier" \in Outside(i) /\ ext["TierInfo"] # None
         /\ ext["TierInfo"].n > 0 \/ "tier" \in Inside(i)
    [] stack[i] = "require_unauthenticated" ->
         ext["Session"] = None \/ {"session", "jwt"} \cap Inside(i) # {}
    [] OTHER -> TRUE

(* In whatever order an application stacks the layers, and how often, a    *)
(* handler behind a guard only runs when what the guard requires is true:  *)
(* a guard outside the layer it depends on refuses.  The one that does not *)
(* is require_unauthenticated, which lets a signed-in user through when    *)
(* the session layer is inside it.                                         *)
GuardsFailClosed == AtHandler => \A i \in DOMAIN stack : Satisfied(i)

Done == dir = "out" /\ at = 0 /\ ~Aborted

(* An error that comes out of a layer or the handler is rendered by the    *)
(* innermost error_handler around it, also when a panic became one on the  *)
(* way, and keeps its status and details; its locale key is translated     *)
(* to what the locale's files say exactly when I18nLayer is outside that   *)
(* handler (the documentation's layer ordering), otherwise its message     *)
(* stands.                                                                 *)
ErrorsAreRendered ==
  LET around == {i \in Place("error_handler") : i < resp.origin}
      e == resp.cause
      translated == e.locale_key # None /\ \E i \in Place("i18n") : i < resp.rendered IN
  Done /\ e # None =>
    /\ resp.rendered = (IF around = {} THEN 0 ELSE Max(around))
    /\ resp.status = e.status
    /\ resp.body.details = e.details
    /\ translated <=> resp.locale # None
    /\ IF translated
       THEN resp.body.message \in Says(resp.locale, e.locale_key, "other", <<>>)
       ELSE resp.body.message = e.message

(* The text of t() in a page is what the files say in the locale of the    *)
(* handler's own context or else of the I18nLayer outside the template     *)
(* layer, in the default locale when there is neither; where the default   *)
(* locale's text stands in, its form follows the rules of the locale that  *)
(* was asked for.  Of two I18nLayers with the template layer between them  *)
(* nothing is said.                                                        *)
PagesAreTranslated ==
  LET page == resp.page
      template == Max(Place("template"))
      outside == \E i \in Place("i18n") : i < template
      inside == \E i \in Place("i18n") : i > template
      asked == IF page.own # <<>> THEN page.own[1]
               ELSE IF outside THEN ext["Translator"] ELSE ""
      locale == IF asked = "" THEN DefaultLocale ELSE asked
      count == CHOOSE n \in Counts : page.count = {n}
      form == IF page.count = {} THEN "other" ELSE plural_category(locale, count)
      kwargs == IF page.count = {} THEN <<>> ELSE <<<<"count", ToString(count)>>>> IN
  Done /\ page # None /\ (page.own # <<>> \/ ~outside \/ ~inside) =>
    page.text \in Says(locale, page.key, form, kwargs)

(* Errors and pages, for whoever asked. *)
AnswersAreRendered == ErrorsAreRendered /\ PagesAreTranslated

(* Every response, refusals and caught panics too, leaves with the headers *)
(* of every layer it came through, but those of the layers inside an error *)
(* handler that replaced it.                                               *)
HeadersSurvive ==
  Done =>
    resp.headers =
      {i \in Place("security_headers") \cup Place("cors") \cup Place("request_id") :
         i < resp.origin /\ (resp.rendered > 0 => i < resp.rendered)}

(* Without forwarding headers, and for a base domain whose subdomains have *)
(* a router, that router serves exactly the requests that both strategies  *)
(* give a tenant's slug, and the slug is the subdomain it matched: deeper  *)
(* names reach neither.  The router alone accepts an empty label.          *)
RouterAndTenantAgree ==
  LET p == parts
      m == match_host(resolve_host(p))
      slug == Ok("slug", m.subdomain) IN
  parts # None /\ p.host # None /\ p.forwarded = None /\ p.x_forwarded_host = None
    /\ Base \in Wildcards /\ Plain(p.host) \notin Exact =>
       /\ m.router = Base /\ m.subdomain # "" =>
            SubdomainStrategy(p) = slug /\ SubdomainOrDomainStrategy(p) = slug
       /\ m.router # Base =>
            SubdomainStrategy(p) = Err(400) /\ SubdomainOrDomainStrategy(p).kind # "slug"
=============================================================================
