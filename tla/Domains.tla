------------------------------- MODULE Domains ------------------------------
(***************************************************************************)
(* The domain claims of tenants (src/tenant/domain.rs) and the DNS lookup  *)
(* that verifies them (src/dns).  DomainService issues one statement at a  *)
(* time, without a transaction, and verify awaits DNS in between: calls    *)
(* for one claim interleave, and the claim may be removed meanwhile.       *)
(***************************************************************************)
EXTENDS Integers, FiniteSets

CONSTANTS
  Ids,             \* what id::ulid and generate_verification_token return
  Tenants, DomainNames,
  Calls,           \* calls of register, verify, enable_* under way at a time
  Expiry,          \* VERIFICATION_EXPIRY_HOURS
  MaxTime,         \* bound: the clock
  None

VARIABLES
  now,
  claims,          \* the table tenant_domains, by id; the token has the id's name
  used,            \* ids given out
  dns,             \* per domain: the tokens in its TXT records
  served,          \* <<domain, token>> that were ever published
  call             \* the calls under way

vars == <<now, claims, used, dns, served, call>>

DomainRow ==
  [in : BOOLEAN, tenant : Tenants \cup {None}, domain : DomainNames \cup {None},
   status : {"pending", "verified", "failed"}, use_for_email : BOOLEAN,
   use_for_routing : BOOLEAN, created_at : Nat]

NoClaim ==
  [in |-> FALSE, tenant |-> None, domain |-> None, status |-> "pending",
   use_for_email |-> FALSE, use_for_routing |-> FALSE, created_at |-> 0]

Call ==
  [pc : {"idle", "insert", "expire", "dns", "confirm", "enable"}, id : Ids \cup {None},
   tenant : Tenants \cup {None}, domain : DomainNames \cup {None},
   what : {"email", "routing"}]

NoCall == [pc |-> "idle", id |-> None, tenant |-> None, domain |-> None, what |-> "email"]

Init ==
  /\ now = 0
  /\ claims = [i \in Ids |-> NoClaim]
  /\ used = {}
  /\ dns = [d \in DomainNames |-> {}]
  /\ served = {}
  /\ call = [c \in Calls |-> NoCall]

is_expired(row) == now - row.created_at > Expiry

Idle(c) == call[c].pc = "idle"

Ends(c) == call' = [call EXCEPT ![c] = NoCall]

-----------------------------------------------------------------------------
(* register: a SELECT ... LIMIT 1 and, when it found no claim that is      *)
(* still pending, an INSERT.                                               *)

Pending(t, d) ==
  {i \in Ids : claims[i].in /\ claims[i].status = "pending"
                 /\ claims[i].tenant = t /\ claims[i].domain = d}

Register(c, t, d) ==
  /\ Idle(c)
  /\ \/ Pending(t, d) = {}
     \/ \E i \in Pending(t, d) : is_expired(claims[i])
  /\ call' = [call EXCEPT ![c] = [NoCall EXCEPT !.pc = "insert", !.tenant = t, !.domain = d]]
  /\ UNCHANGED <<now, claims, used, dns, served>>

RegisterInsert(c) ==
  \E i \in Ids \ used :
    /\ call[c].pc = "insert"
    /\ used' = used \cup {i}
    /\ claims' = [claims EXCEPT ![i] =
         [NoClaim EXCEPT !.in = TRUE, !.tenant = call[c].tenant,
                         !.domain = call[c].domain, !.created_at = now]]
    /\ Ends(c)
    /\ UNCHANGED <<now, dns, served>>

-----------------------------------------------------------------------------
(* verify: the row is read; expired claims are marked, others looked up. *)
Verify(c, i) ==
  /\ Idle(c) /\ claims[i].in /\ claims[i].status # "verified"
  /\ call' = [call EXCEPT ![c] =
       [NoCall EXCEPT !.pc = IF is_expired(claims[i]) THEN "expire" ELSE "dns",
                      !.id = i, !.domain = claims[i].domain]]
  /\ UNCHANGED <<now, claims, used, dns, served>>

(* An UPDATE by id: of no row when the claim is gone. *)
SetStatus(i, status) ==
  claims' = IF claims[i].in THEN [claims EXCEPT ![i].status = status] ELSE claims

VerifyExpire(c) ==
  /\ call[c].pc = "expire"
  /\ SetStatus(call[c].id, "failed")
  /\ Ends(c)
  /\ UNCHANGED <<now, used, dns, served>>

(* What comes back from the nameserver, and which errors it becomes:       *)
(* a lost datagram, a reply that does not parse or has another query's id, *)
(* an error code.  NXDOMAIN is an answer without records.                  *)
Replies == {"records", "nxdomain", "lost", "malformed", "foreign_id", "servfail", "refused"}

validate_response(reply) == reply \in {"records", "nxdomain"}

extract_txt_records(reply, d) == IF reply = "records" THEN dns[d] ELSE {}

(* Fault: any TXT record will do. *)
check_txt_any(reply, d, token) ==
  validate_response(reply) /\ extract_txt_records(reply, d) # {}

(* One of the TXT records is the expected token. *)
check_txt(reply, d, token) ==
  validate_response(reply) /\ token \in extract_txt_records(reply, d)

VerifyDns(c) ==
  /\ call[c].pc = "dns"
  /\ \E reply \in Replies :
       IF check_txt(reply, call[c].domain, call[c].id)
       THEN call' = [call EXCEPT ![c].pc = "confirm"]
       ELSE Ends(c)
  /\ UNCHANGED <<now, claims, used, dns, served>>

(* Fault: the claim that was read is written back whole. *)
VerifyConfirmUpsert(c) ==
  /\ call[c].pc = "confirm"
  /\ claims' = [claims EXCEPT ![call[c].id].status = "verified", ![call[c].id].in = TRUE]
  /\ Ends(c)
  /\ UNCHANGED <<now, used, dns, served>>

VerifyConfirm(c) ==
  /\ call[c].pc = "confirm"
  /\ SetStatus(call[c].id, "verified")
  /\ Ends(c)
  /\ UNCHANGED <<now, used, dns, served>>

-----------------------------------------------------------------------------
(* remove, enable_email, enable_routing, disable_email, disable_routing *)

Remove(i) ==
  /\ claims[i].in
  /\ claims' = [claims EXCEPT ![i] = NoClaim]
  /\ UNCHANGED <<now, used, dns, served, call>>

(* require_verified reads the status first. *)
Enable(c, i, what) ==
  /\ Idle(c) /\ claims[i].in /\ claims[i].status = "verified"
  /\ call' = [call EXCEPT ![c] = [NoCall EXCEPT !.pc = "enable", !.id = i, !.what = what]]
  /\ UNCHANGED <<now, claims, used, dns, served>>

SetFlag(i, what, value) ==
  claims' = IF ~claims[i].in THEN claims
            ELSE IF what = "email" THEN [claims EXCEPT ![i].use_for_email = value]
                                   ELSE [claims EXCEPT ![i].use_for_routing = value]

EnableSet(c) ==
  /\ call[c].pc = "enable"
  /\ SetFlag(call[c].id, call[c].what, TRUE)
  /\ Ends(c)
  /\ UNCHANGED <<now, used, dns, served>>

Disable(i, what) ==
  /\ claims[i].in
  /\ SetFlag(i, what, FALSE)
  /\ UNCHANGED <<now, used, dns, served, call>>

(* The owner of a domain publishes a token, or takes the records away. *)
Publish(d, i) ==
  /\ dns' = [dns EXCEPT ![d] = {i}]
  /\ served' = served \cup {<<d, i>>}
  /\ UNCHANGED <<now, claims, used, call>>

Unpublish(d) ==
  /\ dns[d] # {}
  /\ dns' = [dns EXCEPT ![d] = {}]
  /\ UNCHANGED <<now, claims, used, served, call>>

Tick ==
  /\ now < MaxTime
  /\ now' = now + 1
  /\ UNCHANGED <<claims, used, dns, served, call>>

Next ==
  \/ \E c \in Calls :
       \/ \E t \in Tenants, d \in DomainNames : Register(c, t, d)
       \/ \E i \in Ids : \/ Verify(c, i)
                         \/ \E what \in {"email", "routing"} : Enable(c, i, what)
       \/ RegisterInsert(c) \/ VerifyExpire(c) \/ VerifyDns(c) \/ VerifyConfirm(c)
       \/ EnableSet(c)
  \/ \E i \in Ids : \/ Remove(i)
                    \/ \E what \in {"email", "routing"} : Disable(i, what)
                    \/ \E d \in DomainNames : i \in used /\ Publish(d, i)
  \/ \E d \in DomainNames : Unpublish(d)
  \/ Tick

Spec == Init /\ [][Next]_vars

-----------------------------------------------------------------------------
(* lookup_routing_domain and lookup_email_domain: the tenants a query may  *)
(* return, one of them.                                                    *)
lookup_routing_domain(d) ==
  {claims[i].tenant : i \in {j \in Ids : claims[j].in /\ claims[j].domain = d
                               /\ claims[j].status = "verified" /\ claims[j].use_for_routing}}

lookup_email_domain(d) ==
  {claims[i].tenant : i \in {j \in Ids : claims[j].in /\ claims[j].domain = d
                               /\ claims[j].status = "verified" /\ claims[j].use_for_email}}

TypeOK ==
  /\ now \in Nat
  /\ claims \in [Ids -> DomainRow]
  /\ call \in [Calls -> Call]

(* A domain is routed to a tenant, or its mail attributed to one, only if  *)
(* its owner once published the token of a claim of that very tenant for   *)
(* that very domain, whatever calls were under way when the status, the    *)
(* records or the flags changed.                                           *)
RoutedWasProved ==
  \A d \in DomainNames :
    \A t \in lookup_routing_domain(d) \cup lookup_email_domain(d) :
      \E i \in Ids : claims[i].tenant = t /\ <<d, i>> \in served

(* A removed claim stays removed: a verify that was awaiting DNS, and an   *)
(* enable that had seen it verified, update no row.                        *)
RemovedStaysRemoved ==
  [][\A i \in used : ~claims[i].in => ~claims'[i].in]_vars
=============================================================================
