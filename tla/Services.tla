------------------------------ MODULE Services ------------------------------
(***************************************************************************)
(* The services an application uses, side by side: its databases (which    *)
(* this module extends), what is read from them, file storage, mail,       *)
(* sign-in through a provider, and webhooks.  They have no state in        *)
(* common; each has its own variables and, in its instance, its actions.   *)
(***************************************************************************)
EXTENDS Databases

CONSTANTS
  None,
  Rows, QueryCalls, DefaultPerPage, MaxPerPage, MaxWrites,
  Ulids, PathPrefixes, Files, BucketConfigs, Kilo, MaxUsize, PageSize, Stored, MaxCalls,
  MaxLate,
  Chars,           \* what paths are made of
  Senders, Emails, TemplateFiles, Edits, LayoutFiles, DefaultLocale, Configs,
  Browsers, Tabs, Accounts, Pkce, MaxFlows,
  Written, Ids, Bodies, Tolerance, Skew, MaxTime, MaxSends

VARIABLES
  table, writes, walk,
  inner, bucket, late, storing, calls, usedIds, acked, doomed, gone,
  templates, capacity, map, order, recent, mailing, mail,
  flows, answered, cookie, codes, used, call, profiles,
  now, skew, sending, receiving, sent, network

Reads == INSTANCE Queries WITH Calls <- QueryCalls, Null <- None

Objects == INSTANCE Storage WITH Ids <- Ulids, Configs <- BucketConfigs,
                                 call <- storing, used <- usedIds

Mail == INSTANCE Mailer WITH Written <- TemplateFiles, files <- templates,
                             call <- mailing, sent <- mail

SignIn == INSTANCE Login

Hooks == INSTANCE Webhooks

-----------------------------------------------------------------------------
(* What is taken for granted of the parameters: what Queries says; paths   *)
(* are made of characters and ids are unique; cache sizes are naturals and *)
(* templates are made of blocks.                                           *)

Paths == Seq(Chars)

ObjectsAssumption ==
  /\ Objects!IdsAreUnique
  /\ Ulids \in Paths /\ PathPrefixes \subseteq Paths /\ Stored \subseteq Paths
  /\ \A file \in Files : file.filename \in Paths
  /\ {".", "&amp;"} \subseteq Chars
  /\ None \notin {"ok", "error"}

ASSUME ServicesAssumption ==
  /\ ObjectsAssumption
  /\ \A config \in Configs : config.size \in Nat
  /\ \A path \in DOMAIN TemplateFiles : Mail!IsTemplate(TemplateFiles[path])
  /\ \A edit \in Edits : Mail!IsTemplate(edit[2])
  /\ Reads!QueriesAssumption

-----------------------------------------------------------------------------
(* The properties of the services; their own modules say what they mean    *)
(* and of which code.                                                      *)

(* A cursor walk sees each row once (src/db). *)
WalkSeesEachOnce == Reads!WalkSeesEachOnce

(* What put returned is stored until somebody deletes it (src/storage). *)
AcknowledgedIsStored == Objects!AcknowledgedIsStored

(* What delete_prefix said is gone is gone (src/storage). *)
PrefixIsGone == Objects!PrefixIsGone

(* The template cache has the keys used last (src/email, src/cache). *)
CacheIsLru == Mail!CacheIsLru

(* A mail says what its template says (src/email). *)
SentAsWritten == Mail!SentAsWritten

(* A profile goes to the browser that began its flow (src/auth/oauth). *)
LoginIsBound == SignIn!LoginIsBound

(* Exactly the genuine requests are accepted (src/webhook). *)
AcceptedIffGenuine == Hooks!AcceptedIffGenuine
=============================================================================
