------------------------------- MODULE Mailer -------------------------------
(***************************************************************************)
(* Sending email (src/email): templates with a locale fallback, read       *)
(* through an LRU cache (src/cache) that threads share, the steps that     *)
(* render one, and the message that goes to the SMTP server.  Templates    *)
(* may be edited while the program runs.                                   *)
(*                                                                         *)
(* A template is its frontmatter and a body of blocks, written out as a    *)
(* sequence of tokens: a run of backticks, "nl" for a line's end, "otp"    *)
(* for [otp|CODE], "var" for [otp|{{code}}], "esc" for an escaped one,     *)
(* "bad" for one whose code is not valid, other text.  How CommonMark text *)
(* becomes HTML, and CSS is inlined, is external.                          *)
(***************************************************************************)
EXTENDS Naturals, Sequences, FiniteSets, SequencesExt

CONSTANTS
  Senders,         \* threads that send
  Emails,          \* what is sent: [template, locale, to, copies, from, vars]
  Written,         \* the template files when the program starts
  Edits,           \* files that may be written later, once: <<path, template>>
  LayoutFiles,     \* the directory of custom layouts: [name, extension]
  DefaultLocale,
  Configs,         \* [cache, size, username, password, host]: the settings
  None

VARIABLES
  files,           \* the template files: path to template
  capacity,        \* of the cache; 0 for no cache
  map, order,      \* the cache
  recent,          \* the keys in the order of their last use
  call,            \* what each sender is doing
  sent             \* the message handed to the SMTP server last

vars == <<files, capacity, map, order, recent, call, sent>>

-----------------------------------------------------------------------------
(* FileSource::load: the locale's file, the default locale's, the one      *)
(* without a locale.                                                       *)
load(fs, name, locale) ==
  LET chain == <<<<locale, name>>, <<DefaultLocale, name>>, <<"", name>>>>
      found == SelectInSeq(chain, LAMBDA path : path \in DOMAIN fs) IN
  IF found = 0 THEN None ELSE fs[chain[found]]

-----------------------------------------------------------------------------
(* LruCache. *)

(* Fault: a hit does not count as a use. *)
get_in_place(key) == map' = map /\ order' = order

(* A hit moves the key to the back. *)
get(key) == map' = map /\ order' = Append(RemoveFirst(order, key), key)

(* A new key of a full cache takes the place of the one in front. *)
put(key, value) ==
  LET full == key \notin DOMAIN map /\ Cardinality(DOMAIN map) >= capacity
      kept == IF full THEN DOMAIN map \ {Head(order)} ELSE DOMAIN map
      rest == IF full THEN Tail(order) ELSE RemoveFirst(order, key) IN
  /\ map' = [k \in kept \cup {key} |-> IF k = key THEN value ELSE map[k]]
  /\ order' = Append(rest, key)

Used(key) == recent' = Append(RemoveFirst(recent, key), key)

-----------------------------------------------------------------------------
(* Rendering. *)

(* parse_frontmatter: the status for text without delimiters, YAML that    *)
(* does not parse and a subject that is empty.                             *)
parse_frontmatter(template) ==
  CASE template.matter = "missing" -> 400
    [] template.matter = "unclosed" -> 400
    [] template.matter = "garbled" -> 500
    [] template.matter = "no_subject" -> 400
    [] template.matter = "ok" -> 200

(* substitute runs over the whole file first: a variable that is not given *)
(* is empty, and an empty code is not valid.                               *)
substitute(tokens, vars_) ==
  LET code == IF "code" \in vars_ THEN "otp" ELSE "bad" IN
  [i \in DOMAIN tokens |-> IF tokens[i] = "var" THEN code ELSE tokens[i]]

load_layouts == {f.name : f \in {g \in LayoutFiles : g.extension = "html"}}

(* The built-in layout goes before a file of that name. *)
resolve_layout(name) == IF name = "base" \/ name \in load_layouts THEN 200 ELSE 404

(* apply_layout: the sections a message has. *)
apply_layout(vars_) ==
  [logo |-> CASE "logo_url" \notin vars_ -> "none"
              [] "logo_url" \in vars_ /\ "app_url" \in vars_ -> "linked"
              [] OTHER -> "bare",
   footer |-> "footer_text" \in vars_]

(* Runs of one, two and three backticks. *)
Ticks == {"tick", "ticks2", "ticks3"}

(* Fault: any run of backticks ends a code span. *)
Closes_any(ticks, token) == token \in Ticks

(* A run of as many backticks as opened it ends a code span. *)
Closes(ticks, token) == token = ticks

(* Where one token leads transform_otp.  A line that opens or ends a       *)
(* fenced block is copied to its end; a run of backticks within a code     *)
(* span leaves at_line_start as it was.                                    *)
ScanToken(s, token, next) ==
  LET moved == [s EXCEPT !.at_line_start = token = "nl"] IN
  CASE s.ctx = "line" -> [moved EXCEPT !.ctx = IF token = "nl" THEN s.mark ELSE "line"]
    [] s.ctx = "text" /\ s.at_line_start /\ token = "ticks3" ->
         [s EXCEPT !.ctx = "line", !.mark = "fence"]
    [] s.ctx = "text" /\ ~(s.at_line_start /\ token = "ticks3") ->
         IF token \in Ticks THEN [moved EXCEPT !.ctx = "span", !.mark = token] ELSE moved
    [] s.ctx = "span" -> CASE Closes(s.mark, token) -> [s EXCEPT !.ctx = "text"]
                           [] ~Closes(s.mark, token) /\ token \in Ticks -> s
                           [] OTHER -> moved
    [] s.ctx = "fence" -> IF s.at_line_start /\ token = "ticks3" /\ next = "nl"
                          THEN [s EXCEPT !.ctx = "line", !.mark = "text"]
                          ELSE moved

(* transform_otp: [otp|CODE] becomes otp outside code; everything else is  *)
(* copied.                                                                 *)
transform_otp(tokens, otp) ==
  LET next(i) == IF i < Len(tokens) THEN tokens[i + 1] ELSE "nl"
      scan[i \in 0 .. Len(tokens)] ==
        IF i = 0 THEN [ctx |-> "text", mark |-> "text", at_line_start |-> TRUE]
        ELSE ScanToken(scan[i - 1], tokens[i], next(i)) IN
  [i \in 1 .. Len(tokens) |->
     IF tokens[i] = "otp" /\ scan[i - 1].ctx = "text" THEN otp ELSE tokens[i]]

(* parse_button: a link whose text is "button|Label" or                    *)
(* "button:type|Label" is a button.                                        *)
parse_button(link) ==
  /\ link.label # ""
  /\ \/ link.prefix = "button|"
     \/ /\ link.prefix = "button:"
        /\ link.type \in {"primary", "danger", "warning", "info", "success"}

(* markdown_to_html and markdown_to_text, up to CommonMark: codes and      *)
(* buttons.                                                                *)
markdown_to_html(tokens, links) ==
  [body |-> transform_otp(tokens, "pill"), buttons |-> {l \in links : parse_button(l)}]

markdown_to_text(tokens, links) ==
  [body |-> transform_otp(tokens, "code"), buttons |-> {l \in links : parse_button(l)}]

(* A block of a template, as it is written. *)
Tokens(block) ==
  CASE block[1] = "line" -> <<block[2], "nl">>
    [] block[1] = "span" -> <<"text", "tick", block[2], "tick", "nl">>
    [] block[1] = "span2" -> <<"ticks2", "tick", block[2], "ticks2", "nl">>
    [] block[1] = "fenced" -> <<"ticks3", "text", "nl", block[2], "nl", "ticks3", "nl">>

(* The templates that are written like this. *)
IsTemplate(template) ==
  template.blocks \in
    Seq({"line", "span", "span2", "fenced"} \X {"text", "otp", "var", "esc", "bad"})

Body(template) == FlattenSeq([i \in DOMAIN template.blocks |-> Tokens(template.blocks[i])])

(* Mailer::render. *)
render(template, vars_) ==
  LET body == substitute(Body(template), vars_)
      status == IF parse_frontmatter(template) # 200 THEN parse_frontmatter(template)
                ELSE resolve_layout(template.layout) IN
  [status |-> status,
   html |-> markdown_to_html(body, template.links),
   text |-> markdown_to_text(body, template.links),
   layout |-> <<template.layout, apply_layout(vars_)>>]

(* Mailer::send after rendering: the sender's or the default address, then *)
(* every recipient; one that does not parse ends the call.                 *)
Addresses(email) ==
  IF "bad" \in {email.from} \cup email.to \cup email.copies THEN 400 ELSE 200

-----------------------------------------------------------------------------
Idle == [at |-> "idle", email |-> None, template |-> None]

(* build_smtp_transport: a name without a password, or the reverse, and a  *)
(* host that cannot be used are refused.                                   *)
build_smtp_transport(config) ==
  CASE config.username # config.password -> 400
    [] config.username = config.password /\ ~config.host -> 500
    [] OTHER -> 200

(* Mailer::new: at least one entry, when there is a cache. *)
new(config) ==
  CASE ~config.cache -> 0
    [] config.cache /\ config.size = 0 -> 1
    [] OTHER -> config.size

Init ==
  /\ files = Written
  /\ \E config \in Configs : build_smtp_transport(config) = 200 /\ capacity = new(config)
  /\ map = <<>>
  /\ order = <<>>
  /\ recent = <<>>
  /\ call = [s \in Senders |-> Idle]
  /\ sent = None

Locale(email) == IF email.locale = None THEN DefaultLocale ELSE email.locale
Goes(s, step, email, template) ==
  call' = [call EXCEPT ![s] = [at |-> step, email |-> email, template |-> template]]
Fails(s) == call' = [call EXCEPT ![s] = Idle]

(* Mailer::send begins; a template in the cache is found under the lock. *)
Send(s, email) ==
  LET key == <<email.template, Locale(email)>> IN
  /\ call[s].at = "idle"
  /\ email.to # {}
  /\ \/ /\ capacity > 0
        /\ key \in DOMAIN map
        /\ get(key)
        /\ Used(key)
        /\ Goes(s, "render", email, map[key])
     \/ /\ key \notin DOMAIN map
        /\ Goes(s, "load", email, None)
        /\ UNCHANGED <<map, order, recent>>
  /\ UNCHANGED <<files, capacity, sent>>

(* The file is read without the lock. *)
Load(s) ==
  LET me == call[s]
      template == load(files, me.email.template, Locale(me.email)) IN
  /\ me.at = "load"
  /\ IF template = None THEN Fails(s)
     ELSE Goes(s, IF capacity > 0 THEN "store" ELSE "render", me.email, template)
  /\ UNCHANGED <<files, capacity, map, order, recent, sent>>

(* The lock is taken again. *)
Store(s) ==
  LET me == call[s]
      key == <<me.email.template, Locale(me.email)>> IN
  /\ me.at = "store"
  /\ put(key, me.template)
  /\ Used(key)
  /\ Goes(s, "render", me.email, me.template)
  /\ UNCHANGED <<files, capacity, sent>>

(* The message is rendered and handed over; the server may refuse it. *)
Deliver(s) ==
  LET me == call[s]
      message == render(me.template, me.email.vars) IN
  /\ me.at = "render"
  /\ \/ /\ message.status = 200
        /\ Addresses(me.email) = 200
        /\ sent' = [email |-> me.email, template |-> me.template, message |-> message]
     \/ UNCHANGED sent
  /\ Fails(s)
  /\ UNCHANGED <<files, capacity, map, order, recent>>

(* A template file is edited or added, once. *)
Edit ==
  /\ files = Written
  /\ \E e \in Edits :
       files' = [p \in DOMAIN files \cup {e[1]} |-> IF p = e[1] THEN e[2] ELSE files[p]]
  /\ UNCHANGED <<capacity, map, order, recent, call, sent>>

Next ==
  \/ \E s \in Senders :
       \/ \E email \in Emails : Send(s, email)
       \/ Load(s)
       \/ Store(s)
       \/ Deliver(s)
  \/ Edit

Spec == Init /\ [][Next]_vars

-----------------------------------------------------------------------------
(* lru.rs:59-92 as threads use it (email/cache.rs:36-64): the cache holds  *)
(* the keys that were used last, as many as its size allows, each once and *)
(* in that order, although threads that miss the same key all store it.    *)
CacheIsLru ==
  LET n == IF Len(recent) < capacity THEN Len(recent) ELSE capacity IN
  /\ order = SubSeq(recent, Len(recent) - n + 1, Len(recent))
  /\ DOMAIN map = Range(order)

(* What a block is to become, whatever surrounds it. *)
Rendered(block, vars_, otp) ==
  CASE block = <<"line", "otp">> -> <<otp, "nl">>
    [] block = <<"line", "var">> /\ "code" \in vars_ -> <<otp, "nl">>
    [] OTHER -> substitute(Tokens(block), vars_)

(* mailer.rs:186-331: the message is made from a template its name and     *)
(* locale lead to, now or before the last edit, and both of its parts show *)
(* the codes that are written as text, and leave those that are quoted as  *)
(* code, escaped or not valid as they are.                                 *)
SentAsWritten ==
  sent # None =>
    LET blocks == sent.template.blocks
        expected(otp) ==
          FlattenSeq([i \in DOMAIN blocks |-> Rendered(blocks[i], sent.email.vars, otp)]) IN
    /\ sent.template \in {load(fs, sent.email.template, Locale(sent.email)) :
                            fs \in {Written, files}}
    /\ sent.message.html.body = expected("pill")
    /\ sent.message.text.body = expected("code")
=============================================================================
