----------------------------- MODULE MCServices -----------------------------
(* Small instances of the services an application uses: its databases and  *)
(* what is read from them, file storage, mail, sign-in through a provider, *)
(* and webhooks.  They have no state in common, so a behaviour takes steps *)
(* of one of them only, chosen at its start.                               *)
EXTENDS Services, TLC

VARIABLE part

MCMigrations == <<"m1", "m2">>
MCChecksum == [v \in {0, 1} |-> v]

-----------------------------------------------------------------------------
(* Rows that differ in what a filter, a sort and a conversion can tell. *)
Row(id, v, payload) == [id |-> id, v |-> v, payload |-> payload]
MCRows == {Row(1, 2, "small"), Row(2, 1, None), Row(3, 1, "small"), Row(4, None, "text")}

(* Query strings: equality, several values, two bounds, IS NULL, columns   *)
(* and operators nobody knows, and a value that is no number.              *)
QueryStrings ==
  {<<>>,
   (<<"v", "">> :> <<"one", "two">>),
   (<<"v", "gt">> :> <<"one">>) @@ (<<"id", "lte">> :> <<"three">>),
   (<<"v", "null">> :> <<"false">>) @@ (<<"id", "ne">> :> <<"one">>)
     @@ (<<"x", "">> :> <<"x">>) @@ (<<"v", "xx">> :> <<"x">>),
   (<<"v", "">> :> <<"x">>),
   (<<"v", "null">> :> <<"true">>) @@ (<<"page", "">> :> <<"x">>)}

By(field, desc) == <<[field |-> field, desc |-> desc]>>
AnyCall ==
  [mode |-> "all", query |-> <<>>, sort |-> By("zz", TRUE) \o By("v", TRUE) \o By("v", FALSE),
   req |-> [page |-> 0, per_page |-> 0], type |-> <<"option", "value">>,
   order_by |-> By("id", TRUE), col |-> "id", desc |-> TRUE]
MCCalls ==
  {[AnyCall EXCEPT !.mode = m, !.query = q] :
     m \in {"all", "one", "optional", "page"}, q \in QueryStrings}
  \cup {[AnyCall EXCEPT !.mode = "cursor", !.query = q, !.col = c, !.desc = d] :
          q \in QueryStrings, c \in {"id", "v"}, d \in BOOLEAN}
  \cup {[AnyCall EXCEPT !.mode = m, !.type = t] :
          m \in {"all", "one", "optional", "page"},
          t \in {<<"plain", "i32">>, <<"option", "string">>}}
  \cup {[AnyCall EXCEPT !.mode = m, !.sort = <<>>, !.req.per_page = 2] : m \in {"page", "cursor"}}
  \cup {[AnyCall EXCEPT !.req = None]}

-----------------------------------------------------------------------------
(* A key of each kind is there before: one that XML escapes, one that not. *)
MCStored == {<<"a", "/", "1">>, <<"a", "&", "2">>}
MCFiles ==
  {[from |-> "upload", size |-> 1, filename |-> <<"f", "png">>],
   [from |-> "upload", size |-> 2, filename |-> <<"f">>]}
  \cup {[from |-> f, size |-> 1, filename |-> <<"f">>] :
          f \in {"url", "bad_url", "bad_status", "unreachable"}}

(* Settings that are refused: a name twice, no bucket, a size of zero, one *)
(* that overflows.  The others limit files to 1 byte, and not at all.      *)
MCBuckets ==
  LET config(name, in, number, unit, path_style) ==
        [name |-> name, bucket |-> in, endpoint |-> "endpoint", path_style |-> path_style,
         max_file_size |-> IF number = None THEN None ELSE [number |-> number, unit |-> unit]] IN
  {<<config("a", "bucket", 1, "b", TRUE)>>, <<config("a", "bucket", None, "", FALSE)>>,
   <<config("a", "bucket", 1, "b", TRUE), config("a", "other", None, "", TRUE)>>,
   <<config("a", "", None, "", TRUE)>>, <<config("a", "bucket", 0, "kb", TRUE)>>,
   <<config("a", "bucket", 2, "gb", TRUE)>>, <<config("", "bucket", None, "", TRUE)>>}

-----------------------------------------------------------------------------
Template(matter, layout, blocks) ==
  [matter |-> matter, layout |-> layout, blocks |-> blocks,
   links |-> {[prefix |-> "button|", type |-> "", label |-> "x"],
              [prefix |-> "button:", type |-> "other", label |-> "x"]}]
MCWritten ==
  (<<"en", "a">> :> Template("ok", "base", <<<<"line", "var">>>>))
  @@ (<<"de", "a">> :> Template("ok", "base", <<<<"span2", "otp">>, <<"line", "otp">>, <<"span", "var">>>>))
  @@ (<<"", "a">> :> Template("ok", "custom", <<<<"fenced", "otp">>, <<"line", "esc">>, <<"line", "otp">>>>))
  @@ (<<"", "b">> :> Template("no_subject", "base", <<>>))
MCEdits ==
  {<<<<"fr", "a">>, Template("ok", "other", <<>>)>>,
   <<<<"de", "a">>, Template("ok", "custom", <<<<"fenced", "esc">>, <<"line", "otp">>>>)>>}
Email ==
  [template |-> "a", locale |-> None, to |-> {"x"}, copies |-> {}, from |-> "f", vars |-> {}]
MCEmails ==
  {[Email EXCEPT !.locale = l, !.vars = {"code"}] : l \in {"de", "fr"}}
  \cup {[Email EXCEPT !.template = "b"], [Email EXCEPT !.template = "c"],
        [Email EXCEPT !.vars = {"logo_url"}], [Email EXCEPT !.copies = {"bad"}]}
Config == [cache |-> TRUE, size |-> 2, username |-> TRUE, password |-> TRUE, host |-> TRUE]
MCConfigs ==
  {Config, [Config EXCEPT !.size = 0], [Config EXCEPT !.cache = FALSE],
   [Config EXCEPT !.password = FALSE], [Config EXCEPT !.host = FALSE]}

-----------------------------------------------------------------------------
(* A profile needs an id and an address; one of the providers checks PKCE. *)
MCAccounts ==
  LET account(provider, type, id, email, verified) ==
        [provider |-> provider, id_type |-> type, id |-> id, email |-> email,
         verified |-> verified] IN
  {account("github", "number", "1", None, "no"), account("github", "number", "2", "e", "yes"),
   account("google", "text", "3", "e", None)}

MCSecrets ==
  {[prefix |-> "whsec_", key |-> "k1"], [prefix |-> "whsec_", key |-> "k2"],
   [prefix |-> "", key |-> "k3"], [prefix |-> "whsec_", key |-> "garbled"]}

MCUlids == <<"1", "2", "3", "4">>
MCPathPrefixes == {<<"a">>, <<"/">>}
MCLayoutFiles ==
  {[name |-> "custom", extension |-> "html"], [name |-> "other", extension |-> "txt"]}

-----------------------------------------------------------------------------
readVars == <<table, writes, walk>>
objectVars == <<inner, bucket, late, storing, calls, usedIds, acked, doomed, gone>>
mailVars == <<templates, capacity, map, order, recent, mailing, mail>>
signInVars == <<flows, answered, cookie, codes, used, call, profiles>>
hookVars == <<now, skew, sending, receiving, sent, network>>

MCInit ==
  /\ part \in {"databases", "reads", "objects", "mail", "sign-in", "hooks"}
  /\ Init /\ Reads!Init /\ Objects!Init /\ Mail!Init /\ SignIn!Init /\ Hooks!Init
  /\ part # "databases" => memory /\ process = [c \in Callers |-> CHOOSE p \in Processes : TRUE]
  /\ part # "reads" => table = {}
  /\ part # "objects" => inner = Objects!Memory
  /\ part # "mail" => capacity = 1
  /\ part # "hooks" => skew = 0 /\ sending = <<"k1">> /\ receiving = {}

MCNext ==
  /\ UNCHANGED part
  /\ \/ /\ part = "databases" /\ Next
        /\ UNCHANGED <<readVars, objectVars, mailVars, signInVars, hookVars>>
     \/ /\ part = "reads" /\ Reads!Next
        /\ UNCHANGED <<vars, objectVars, mailVars, signInVars, hookVars>>
     \/ /\ part = "objects" /\ Objects!Next
        /\ UNCHANGED <<vars, readVars, mailVars, signInVars, hookVars>>
     \/ /\ part = "mail" /\ Mail!Next
        /\ UNCHANGED <<vars, readVars, objectVars, signInVars, hookVars>>
     \/ /\ part = "sign-in" /\ SignIn!Next
        /\ UNCHANGED <<vars, readVars, objectVars, mailVars, hookVars>>
     \/ /\ part = "hooks" /\ Hooks!Next
        /\ UNCHANGED <<vars, readVars, objectVars, mailVars, signInVars>>

MCSpec ==
  MCInit /\ [][MCNext]_<<part, vars, readVars, objectVars, mailVars, signInVars, hookVars>>

(* Callers, senders of mail and browsers are the same two names. *)
Symmetry == Permutations(Callers)
=============================================================================
