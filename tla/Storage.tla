------------------------------ MODULE Storage -------------------------------
(***************************************************************************)
(* File storage (src/storage): uploads, deletions of keys and of prefixes  *)
(* by concurrent callers, each a chain of signed HTTP requests to an       *)
(* S3-compatible server that may refuse a request, or whose connection may *)
(* break before or after the request got there; and the backend in memory. *)
(*                                                                         *)
(* A path is a sequence of characters; the generated part of a key, a      *)
(* ULID, is one of them.  The server (external) lists keys page by page in *)
(* the order of their ULIDs and writes them as XML text.                   *)
(***************************************************************************)
EXTENDS Naturals, Sequences, FiniteSets, SequencesExt

CONSTANTS
  Callers,
  Ids,             \* ULIDs, each generated once, in their order
  PathPrefixes,    \* the prefixes callers use
  Files,           \* what is uploaded: [from, size, filename]; filenames in parts
  Configs,         \* what Buckets::new may be given: sequences of
                   \* [name, bucket, endpoint, path_style, max_file_size]
  Kilo,            \* stands for 1024
  MaxUsize,        \* the largest usize
  PageSize,        \* keys in a page of the server's list
  Stored,          \* keys that were stored before
  MaxCalls,        \* bound on the calls
  MaxLate,         \* bound on the requests that are under way without a caller
  None

VARIABLES
  inner,           \* StorageInner: [backend, max_file_size, path_style]
  bucket,          \* the keys that are stored
  late,            \* requests that are still under way though the caller gave up
  call,            \* what each caller is doing
  calls,           \* how many calls began
  used,            \* how many ids are used
  acked,           \* keys that were returned to a caller
  doomed,          \* keys that some caller asked to delete
  gone             \* keys a caller was told are deleted

vars == <<inner, bucket, late, call, calls, used, acked, doomed, gone>>

-----------------------------------------------------------------------------
(* Paths. *)

(* ".." stands for a segment. *)
validate_path(path) ==
  /\ path # <<>>
  /\ path[1] # "/"
  /\ \A i \in DOMAIN path : path[i] \notin {"..", "\n"}

(* PutInput::extension: what follows the last dot, if there is one. *)
extension(filename) == IF Len(filename) < 2 THEN <<>> ELSE <<".", Last(filename)>>

(* An empty extension is left out with its dot. *)
generate_key(prefix, id, ext) ==
  prefix \o <<id>> \o (IF ext # <<>> /\ ext[2] # "" THEN ext ELSE <<>>)

IdOf(key) == CHOOSE i \in DOMAIN Ids : Ids[i] \in Range(key)

(* The server's XML writes "&" as an entity; extract_xml_values takes the  *)
(* text as it is.                                                          *)
Escaped(key) == [i \in DOMAIN key |-> IF key[i] = "&" THEN "&amp;" ELSE key[i]]

extract_xml_values(keys) == {Escaped(key) : key \in keys}

(* uri_encode keeps what needs no encoding. *)
uri_encode(path, encode_slash) ==
  [i \in DOMAIN path |-> CASE path[i] = "&" -> "%26"
                           [] path[i] = "/" -> IF encode_slash THEN "%2F" ELSE "/"
                           [] OTHER -> path[i]]

-----------------------------------------------------------------------------
(* Signed requests.  A signature is a function of the secret, the date and *)
(* what is signed, so it stands for the record of these.                   *)

build_url_and_host(key, path_style) ==
  IF path_style THEN [host |-> <<"endpoint">>, path |-> <<"/", "bucket", "/">> \o uri_encode(key, FALSE)]
  ELSE [host |-> <<"bucket", "endpoint">>, path |-> <<"/">> \o uri_encode(key, FALSE)]

build_canonical_uri(key, path_style) ==
  (IF path_style THEN <<"/", "bucket", "/">> ELSE <<"/">>) \o uri_encode(key, FALSE)

sign_request(method, canonical_uri, host, query) ==
  [method |-> method, uri |-> canonical_uri, host |-> host, query |-> query]

Request(method, key, path_style) ==
  LET url == build_url_and_host(key, path_style) IN
  [method |-> method, url |-> url, key |-> key,
   auth |-> sign_request(method, build_canonical_uri(key, path_style), url.host, {})]

(* The server signs what it received and compares. *)
Verifies(request) ==
  request.auth = sign_request(request.method, request.url.path, request.url.host, {})

-----------------------------------------------------------------------------
(* Configuration.  A size that does not parse, is zero or overflows is     *)
(* refused.                                                                *)
Exponent == [gb |-> 3, mb |-> 2, kb |-> 1, b |-> 0]

parse_size(size) ==
  LET bytes == size.number * Kilo ^ Exponent[size.unit] IN
  IF bytes \in 1 .. MaxUsize THEN bytes ELSE None

max_file_size_bytes(config) ==
  IF config.max_file_size = None THEN None ELSE parse_size(config.max_file_size)

validate(config) ==
  /\ config.bucket # ""
  /\ config.endpoint # ""
  /\ config.max_file_size # None => parse_size(config.max_file_size) # None

(* Storage::with_client. *)
with_client(config) ==
  [backend |-> "remote", max_file_size |-> max_file_size_bytes(config),
   path_style |-> config.path_style]

(* Storage::memory has no limit. *)
Memory == [backend |-> "memory", max_file_size |-> None, path_style |-> TRUE]

(* Buckets::new: every bucket has a name of its own, and is valid. *)
Buckets(configs) ==
  IF /\ \A i \in DOMAIN configs : configs[i].name # "" /\ validate(configs[i])
     /\ IsInjective([i \in DOMAIN configs |-> configs[i].name])
  THEN {with_client(configs[i]) : i \in DOMAIN configs}
  ELSE {}

TooLarge(file) == inner.max_file_size # None /\ file.size > inner.max_file_size

-----------------------------------------------------------------------------
Idle == [at |-> "idle", key |-> None, keys |-> {}, prefix |-> None, token |-> 0,
         reply |-> None, started |-> {}]

Init ==
  /\ inner \in {Memory} \cup UNION {Buckets(configs) : configs \in Configs}
  /\ bucket = Stored
  /\ late = {}
  /\ call = [c \in Callers |-> Idle]
  /\ calls = 0
  /\ used = Cardinality(Stored)
  /\ acked = {}
  /\ doomed = {}
  /\ gone = {}

Begins(c) == call[c].at = "idle" /\ calls < MaxCalls /\ calls' = calls + 1
Ends(c) == call' = [call EXCEPT ![c] = Idle]
Awaits(c, step) == call[c].at = step /\ call[c].reply = None
Replied(c, step, reply) == call[c].at = step /\ call[c].reply = reply
Sends(c, step, key) == call' = [call EXCEPT ![c].at = step, ![c].key = key, ![c].reply = None]

(* fetch_url, for put_from_url: a URL that is not http, a connection that  *)
(* fails, a status that is no success, or a body that grows too large end  *)
(* the call; the memory backend does not fetch.                            *)
fetch_url(file) ==
  CASE file.from = "bad_url" -> 400
    [] file.from = "bad_status" -> 400
    [] file.from = "unreachable" -> 500
    [] file.from = "url" -> IF TooLarge(file) THEN 413 ELSE 200

(* The status with which put and put_from_url end before they send         *)
(* anything: the prefix is checked, then the size.                         *)
put_status(prefix, file) ==
  CASE file.from # "upload" /\ inner.backend = "memory" -> 500
    [] file.from # "upload" /\ inner.backend # "memory" /\ fetch_url(file) # 200 -> fetch_url(file)
    [] OTHER -> IF ~validate_path(prefix) THEN 400
                ELSE IF TooLarge(file) THEN 413 ELSE 200

(* put_inner up to the request. *)
Put(c, prefix, file) ==
  LET key == generate_key(prefix, Ids[used + 1], extension(file.filename)) IN
  /\ Begins(c)
  /\ used < Len(Ids)
  /\ put_status(prefix, file) = 200
  /\ used' = used + 1
  /\ Sends(c, "put", key)
  /\ UNCHANGED <<inner, bucket, late, acked, doomed, gone>>

(* Storage::delete. *)
Delete(c, key) ==
  /\ Begins(c)
  /\ validate_path(key)
  /\ Sends(c, "delete", key)
  /\ doomed' = doomed \cup {key}
  /\ UNCHANGED <<inner, bucket, late, used, acked, gone>>

(* Storage::delete_prefix begins with the list. *)
DeletePrefix(c, prefix) ==
  /\ Begins(c)
  /\ validate_path(prefix)
  /\ call' = [call EXCEPT ![c] = [Idle EXCEPT !.at = "list", !.prefix = prefix,
                                              !.started = {k \in bucket : IsPrefix(prefix, k)}]]
  /\ UNCHANGED <<inner, bucket, late, used, acked, doomed, gone>>

-----------------------------------------------------------------------------
(* The server, and the memory backend, which always succeeds. *)

Found(prefix, token) == {k \in bucket : IsPrefix(prefix, k) /\ IdOf(k) > token}
UpTo(keys, key) == {k \in keys : IdOf(k) <= IdOf(key)}

(* Fault: the list ends with its first page. *)
list_one_page(prefix, token) ==
  LET found == Found(prefix, token) IN
  IF inner.backend = "remote" /\ Cardinality(found) > PageSize
  THEN {[keys |-> UpTo(found, k), next |-> 0] :
          k \in {l \in found : Cardinality(UpTo(found, l)) = PageSize}}
  ELSE {[keys |-> found, next |-> 0]}

(* A page of RemoteBackend::list: the keys after the token, and the token  *)
(* of the next page, or 0 when there are no more.  In memory there is one. *)
list(prefix, token) ==
  LET found == Found(prefix, token) IN
  IF inner.backend = "remote" /\ Cardinality(found) > PageSize
  THEN {[keys |-> UpTo(found, k), next |-> IdOf(k)] :
          k \in {l \in found : Cardinality(UpTo(found, l)) = PageSize}}
  ELSE {[keys |-> found, next |-> 0]}

Apply(step, key) ==
  CASE step = "put" -> bucket \cup {key}
    [] step \in {"cleanup", "delete", "delete_each"} -> bucket \ {key}

Method == [put |-> "PUT", cleanup |-> "DELETE", delete |-> "DELETE", delete_each |-> "DELETE"]

Serve(c) ==
  LET me == call[c] IN
  /\ me.at \in DOMAIN Method /\ me.reply = None
  /\ Verifies(Request(Method[me.at], me.key, inner.path_style))
  /\ bucket' = Apply(me.at, me.key)
  /\ call' = [call EXCEPT ![c].reply = "ok"]
  /\ UNCHANGED <<inner, late, calls, used, acked, doomed, gone>>

(* A status that is no success, or a connection that broke before the      *)
(* request was sent.                                                       *)
Refuse(c) ==
  /\ inner.backend = "remote"
  /\ call[c].at \in DOMAIN Method \cup {"list"} /\ call[c].reply = None
  /\ call' = [call EXCEPT ![c].reply = "error"]
  /\ UNCHANGED <<inner, bucket, late, calls, used, acked, doomed, gone>>

(* The connection breaks, but the request may still get there. *)
Breaks(c) ==
  /\ inner.backend = "remote"
  /\ call[c].at \in DOMAIN Method /\ call[c].reply = None
  /\ Cardinality(late) < MaxLate
  /\ call' = [call EXCEPT ![c].reply = "error"]
  /\ late' = late \cup {<<call[c].at, call[c].key>>}
  /\ UNCHANGED <<inner, bucket, calls, used, acked, doomed, gone>>

Arrives(request) ==
  /\ late' = late \ {request}
  /\ bucket' = Apply(request[1], request[2])
  /\ UNCHANGED <<inner, call, calls, used, acked, doomed, gone>>

-----------------------------------------------------------------------------
(* The callers. *)

(* Fault: a status that is no success is not looked at. *)
PutDone_unchecked(c) ==
  /\ call[c].at = "put" /\ call[c].reply # None
  /\ acked' = acked \cup {call[c].key}
  /\ Ends(c)
  /\ UNCHANGED <<inner, bucket, late, calls, used, doomed, gone>>

PutDone(c) ==
  /\ Replied(c, "put", "ok")
  /\ acked' = acked \cup {call[c].key}
  /\ Ends(c)
  /\ UNCHANGED <<inner, bucket, late, calls, used, doomed, gone>>

(* What may have been stored is deleted, as well as it can. *)
PutFailed(c) ==
  /\ Replied(c, "put", "error")
  /\ Sends(c, "cleanup", call[c].key)
  /\ UNCHANGED <<inner, bucket, late, calls, used, acked, doomed, gone>>

(* The error is returned whether or not the cleanup worked. *)
CleanedUp(c) ==
  /\ call[c].at = "cleanup" /\ call[c].reply # None
  /\ Ends(c)
  /\ UNCHANGED <<inner, bucket, late, calls, used, acked, doomed, gone>>

DeleteDone(c) ==
  /\ call[c].at = "delete" /\ call[c].reply # None
  /\ gone' = IF call[c].reply = "ok" THEN gone \cup ({call[c].key} \cap acked) ELSE gone
  /\ Ends(c)
  /\ UNCHANGED <<inner, bucket, late, calls, used, acked, doomed>>

(* A page of the list; its keys are what will be deleted. *)
ListPage(c) ==
  /\ Awaits(c, "list")
  /\ \E page \in list(call[c].prefix, call[c].token) :
       /\ call' = [call EXCEPT
            ![c].at = IF page.next = 0 THEN "deleting" ELSE "list",
            ![c].token = page.next,
            ![c].keys = @ \cup (IF inner.backend = "remote" THEN extract_xml_values(page.keys)
                                ELSE page.keys)]
       /\ doomed' = doomed \cup page.keys
  /\ UNCHANGED <<inner, bucket, late, calls, used, acked, gone>>

(* One DELETE after the other, in an order that the memory backend leaves  *)
(* open, until there are no more.                                          *)
DeleteNext(c) ==
  /\ call[c].at = "deleting" \/ Replied(c, "delete_each", "ok")
  /\ \/ /\ call[c].keys = {}
        /\ gone' = gone \cup call[c].started
        /\ Ends(c)
     \/ \E key \in call[c].keys :
          /\ call' = [call EXCEPT ![c].at = "delete_each", ![c].key = key,
                                  ![c].keys = @ \ {key}, ![c].reply = None]
          /\ UNCHANGED gone
  /\ UNCHANGED <<inner, bucket, late, calls, used, acked, doomed>>

(* The first failure ends delete_prefix; what is left stays. *)
DeletePrefixFailed(c) ==
  /\ call[c].at \in {"list", "delete_each"} /\ call[c].reply = "error"
  /\ Ends(c)
  /\ UNCHANGED <<inner, bucket, late, calls, used, acked, doomed, gone>>

Next ==
  \/ \E c \in Callers :
       \/ \E prefix \in PathPrefixes, file \in Files : Put(c, prefix, file)
       \/ \E key \in acked : Delete(c, key)
       \/ \E prefix \in PathPrefixes : DeletePrefix(c, prefix)
       \/ Serve(c)
       \/ Refuse(c)
       \/ Breaks(c)
       \/ PutDone(c)
       \/ PutFailed(c)
       \/ CleanedUp(c)
       \/ DeleteDone(c)
       \/ ListPage(c)
       \/ DeleteNext(c)
       \/ DeletePrefixFailed(c)
  \/ \E request \in late : Arrives(request)

Spec == Init /\ [][Next]_vars

-----------------------------------------------------------------------------
(* A key carries one id. *)
Carries(key, i) == \A n \in DOMAIN Ids : Ids[n] \in Range(key) <=> n = i

(* What makes ids unique: they differ from each other and from whatever    *)
(* else keys are made of, and each key stored before has one of the first. *)
IdsAreUnique ==
  /\ IsInjective(Ids)
  /\ \A i \in DOMAIN Ids :
       /\ Ids[i] \notin {".", "&", "&amp;"}
       /\ \A prefix \in PathPrefixes : Ids[i] \notin Range(prefix)
       /\ \A file \in Files : Ids[i] \notin Range(file.filename)
  /\ IsFiniteSet(Stored)
  /\ \A key \in Stored : \E i \in 1 .. Cardinality(Stored) : i \in DOMAIN Ids /\ Carries(key, i)
  /\ \A key, other \in Stored : IdOf(key) = IdOf(other) => key = other

(* facade.rs:214-250: a key that put returned is stored as long as nobody  *)
(* asked to delete it: not the cleanup of another upload, not a request    *)
(* that arrives late, not a prefix that was listed.                        *)
AcknowledgedIsStored == acked \ doomed \subseteq bucket

(* facade.rs:274-292, client.rs:185-271: when delete_prefix returns Ok,    *)
(* every key that was there when it began is gone and stays gone, however  *)
(* many pages the list had and whatever was uploaded and deleted           *)
(* meanwhile.  Keys with a character that XML escapes are not covered: the *)
(* list returns them escaped, and deleting that name does nothing.         *)
PrefixIsGone == \A key \in gone : Escaped(key) = key => key \notin bucket
=============================================================================
