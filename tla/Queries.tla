------------------------------ MODULE Queries -------------------------------
(***************************************************************************)
(* Reading a table (src/db): the filter and the page a query string asks   *)
(* for (filter.rs, page.rs), the statements the select builder makes of    *)
(* them (select.rs, conn.rs), the rows that come back (from_row.rs) and    *)
(* the errors (error.rs).  A client reads page after page, with cursors or *)
(* with page numbers, while others insert and delete rows.                 *)
(*                                                                         *)
(* A statement's placeholders are bound by position, as in SQLite.  Rows   *)
(* have a unique id and a column "v" that may hold the same value twice or *)
(* no value; the cursor is text that the column's affinity turns back into *)
(* a number.                                                               *)
(***************************************************************************)
EXTENDS Integers, Sequences, FiniteSets, SequencesExt

CONSTANTS
  Rows,            \* rows that may be in the table: [id, v, payload]
  Calls,           \* what a client may ask for: the mode, the query as a
                   \* function from <<column, operator>> to texts, the sort
                   \* parameters and the [page, per_page] of its query string,
                   \* and the handler's row type, order and cursor column
  DefaultPerPage, MaxPerPage,
  MaxWrites,       \* bound on the rows others insert or delete
  Null             \* no value

VARIABLES
  table,           \* the rows that are there
  writes,          \* how many were inserted or deleted
  walk             \* what the client reads

vars == <<table, writes, walk>>

(* Tables are finite, ids unique, and no value is none of the numbers; a   *)
(* client starts with the first page.                                      *)
QueriesAssumption ==
  /\ IsFiniteSet(Rows)
  /\ Null \notin Nat
  /\ \A r \in Rows : r.id \in Nat \ {0} /\ r.v \in (Nat \ {0}) \cup {Null}
  /\ \A r, s \in Rows : r.id = s.id => r = s
  /\ DefaultPerPage \in Nat \ {0} /\ MaxPerPage \in Nat \ {0}
  /\ \A call \in Calls :
       /\ call.mode \in {"all", "one", "optional", "page", "cursor"}
       /\ IsFiniteSet(DOMAIN call.query)
       /\ \A key \in DOMAIN call.query : call.query[key] \in Seq(STRING) \ {<<>>}
       /\ call.sort \in Seq([field : STRING, desc : BOOLEAN])
       /\ call.order_by \in Seq([field : {"id", "v"}, desc : BOOLEAN])
       /\ call.req # Null => call.req.page <= 1 /\ {call.req.page, call.req.per_page} \subseteq Int
       /\ call.col \in {"id", "v"} /\ call.desc \in BOOLEAN

-----------------------------------------------------------------------------
(* FilterSchema: the columns one may filter by, and sort by. *)
FilterSchema == [fields |-> [v |-> "Int", id |-> "Int"], sort_fields |-> {"v"}]

(* The texts of query strings that parse as an integer. *)
Number == [one |-> 1, two |-> 2, three |-> 3]

(* convert_value, for an Int column. *)
convert_value(text) ==
  IF text \in DOMAIN Number THEN [ok |-> TRUE, value |-> Number[text]]
  ELSE [ok |-> FALSE, value |-> Null]

Operators == {"ne", "gt", "gte", "lt", "lte", "like", "null"}

(* from_query_params: a condition for each key but those of the pages;     *)
(* keys with an operator that is not known are skipped.                    *)
from_query_params(query) ==
  LET keys == {k \in DOMAIN query : /\ k[1] \notin {"sort", "page", "per_page", "after"}
                                    /\ k[2] \in Operators \cup {""}}
      operator(k) ==
        CASE k[2] = "" -> IF Len(query[k]) > 1 THEN "in" ELSE "eq"
          [] k[2] = "null" -> IF query[k][1] = "true" THEN "is_null" ELSE "is_not_null"
          [] OTHER -> k[2] IN
  {[column |-> k[1], operator |-> operator(k), values |-> query[k]] : k \in keys}

Placeholders(cond) ==
  CASE cond.operator \in {"is_null", "is_not_null"} -> <<>>
    [] cond.operator = "in" -> cond.values
    [] OTHER -> <<cond.values[1]>>

(* The elements of a set in an order: none before one that precedes it.    *)
SortedBy(S, precedes(_, _)) ==
  CHOOSE s \in SetToSeqs(S) : \A i, j \in DOMAIN s : i < j => ~precedes(s[j], s[i])

(* The sort parameters: fields of the schema, each where it is named first. *)
sort_clause(sort) ==
  LET places == {i \in DOMAIN sort : /\ sort[i].field \in FilterSchema.sort_fields
                                     /\ \A j \in 1 .. i - 1 : sort[j].field # sort[i].field}
      order == SortedBy(places, <) IN
  [i \in DOMAIN order |-> sort[order[i]]]

(* Filter::validate: a clause and its parameters for each condition on a   *)
(* column of the schema, by column, and an error if a value does not       *)
(* convert.                                                                *)
validate(conditions, sort) ==
  LET known == {c \in conditions : c.column \in DOMAIN FilterSchema.fields}
      order == SortedBy(known, LAMBDA c, d : c.column = "id" /\ d.column = "v")
      texts == FlattenSeq([i \in DOMAIN order |-> Placeholders(order[i])]) IN
  [ok |-> \A i \in DOMAIN texts : convert_value(texts[i]).ok,
   clauses |-> [i \in DOMAIN order |->
                  [column |-> order[i].column, operator |-> order[i].operator,
                   marks |-> Len(Placeholders(order[i]))]],
   params |-> [i \in DOMAIN texts |-> convert_value(texts[i]).value],
   sort_clause |-> sort_clause(sort)]

-----------------------------------------------------------------------------
(* Pages. *)

PaginationConfig == [default_per_page |-> DefaultPerPage, max_per_page |-> MaxPerPage]

(* CursorRequest::clamp. *)
ClampPerPage(n) ==
  LET config == PaginationConfig
      m == IF n < 1 THEN config.default_per_page ELSE n IN
  IF m > config.max_per_page THEN config.max_per_page ELSE m

(* PageRequest::clamp. *)
clamp(req) ==
  [page |-> IF req.page < 1 THEN 1 ELSE req.page, per_page |-> ClampPerPage(req.per_page)]

offset(req) == (req.page - 1) * req.per_page

(* Page::new: whether there is a next page. *)
has_next(total, req) ==
  LET total_pages == IF total = 0 \/ req.per_page = 0 THEN 0
                     ELSE (total + req.per_page - 1) \div req.per_page IN
  req.page < total_pages

-----------------------------------------------------------------------------
(* What SQLite makes of a statement (external). *)

Holds(operator, args, value) ==
  CASE operator = "is_null" -> value = Null
    [] operator = "is_not_null" -> value # Null
    [] OTHER ->
         /\ value # Null
         /\ CASE operator \in {"eq", "like", "in"} -> \E i \in DOMAIN args : value = args[i]
              [] operator = "ne" -> value # args[1]
              [] operator = "gt" -> value > args[1]
              [] operator = "gte" -> value >= args[1]
              [] operator = "lt" -> value < args[1]
              [] operator = "lte" -> value <= args[1]

(* The placeholders of the clauses before one. *)
MarksBefore(clauses, i) ==
  LET marks[k \in 0 .. Len(clauses)] ==
        IF k = 0 THEN 0 ELSE marks[k - 1] + clauses[k].marks IN
  marks[i - 1]

Where(sql, row) ==
  \A i \in DOMAIN sql.clauses :
    LET c == sql.clauses[i]
        first == MarksBefore(sql.clauses, i) IN
    Holds(c.operator, SubSeq(sql.params, first + 1, first + c.marks), row[c.column])

(* ORDER BY, no value before every value, and rows in order of their ids   *)
(* where it leaves the order open.                                         *)
Before(order, r, s) ==
  LET key(row, i) == IF row[order[i].field] = Null THEN 0 ELSE row[order[i].field]
      same(i) == key(r, i) = key(s, i)
      less(i) == IF order[i].desc THEN key(r, i) > key(s, i) ELSE key(r, i) < key(s, i) IN
  \/ \E i \in DOMAIN order : less(i) /\ \A j \in 1 .. i - 1 : same(j)
  \/ (\A i \in DOMAIN order : same(i)) /\ r.id < s.id

(* LIMIT and OFFSET take the parameters after those of the clauses. *)
Execute(sql) ==
  LET found == SortedBy({r \in table : Where(sql, r)}, LAMBDA r, s : Before(sql.order, r, s))
      used == MarksBefore(sql.clauses, Len(sql.clauses) + 1)
      skip == IF sql.limits = 2 THEN sql.params[used + 2] ELSE 0
      take == IF sql.limits = 0 THEN Len(found) ELSE sql.params[used + 1] IN
  SubSeq(found, skip + 1, IF skip + take < Len(found) THEN skip + take ELSE Len(found))

-----------------------------------------------------------------------------
(* Results. *)

(* FromValue: the integers, by the class their values belong to, that fit  *)
(* each type.                                                              *)
Fits ==
  [i32 |-> {"zero", "small", "negative"}, u32 |-> {"zero", "small", "large"},
   i64 |-> {"zero", "small", "large", "negative"}, u64 |-> {"zero", "small", "large"},
   f64 |-> {"zero", "small", "large", "negative"},
   bool |-> {"zero", "small", "large", "negative"}]

from_value(type, value) ==
  CASE type = "value" -> TRUE
    [] type = "string" -> value = "text"
    [] type = "bytes" -> value = "blob"
    [] type = "f64" -> value \in Fits.f64 \cup {"real"}
    [] type \in DOMAIN Fits \ {"f64"} -> value \in Fits[type]

(* Option<T>. *)
Converts(type, value) ==
  IF type[1] = "option" THEN value = Null \/ from_value(type[2], value)
  ELSE value # Null /\ from_value(type[2], value)

(* From<libsql::Error>: the status of each failure. *)
FromLibsqlError ==
  [unique |-> 409, primary_key |-> 409, foreign_key |-> 400, other_failure |-> 500,
   no_rows |-> 404, null_value |-> 400, connection_failed |-> 500, column |-> 500,
   other |-> 500]

FirstRow(rows) == IF rows = <<>> THEN <<>> ELSE <<Head(rows)>>

(* ConnQueryExt: the status of a query that returned these rows. *)
query_all(rows, type) ==
  IF \A i \in DOMAIN rows : Converts(type, rows[i].payload) THEN 200 ELSE 500

query_optional(rows, type) == query_all(FirstRow(rows), type)

query_one(rows, type) ==
  IF rows = <<>> THEN FromLibsqlError.no_rows ELSE query_all(FirstRow(rows), type)

-----------------------------------------------------------------------------
(* The select builder's statements. *)

build_where(filter) == [clauses |-> filter.clauses, params |-> filter.params]

(* The filter's sort before the builder's own order. *)
resolve_order(filter, order_by) ==
  IF filter.sort_clause # <<>> THEN filter.sort_clause ELSE order_by

Statement(where, order, limits) ==
  [clauses |-> where.clauses, params |-> where.params \o limits, order |-> order,
   limits |-> Len(limits)]

fetch_all(filter, order_by) ==
  Statement(build_where(filter), resolve_order(filter, order_by), <<>>)

(* fetch_one and fetch_optional: LIMIT 1, whatever the order. *)
fetch_one(filter) == Statement(build_where(filter), <<>>, <<>>)

page_sql(filter, order_by, req) ==
  Statement(build_where(filter), resolve_order(filter, order_by),
            <<req.per_page, offset(req)>>)

(* Fault: the cursor's value is bound before the filter's. *)
cursor_sql_first(filter, col, desc, after, per_page) ==
  LET where == build_where(filter)
      condition == [column |-> col, operator |-> IF desc THEN "lt" ELSE "gt", marks |-> 1] IN
  Statement(IF after = Null THEN where
            ELSE [clauses |-> Append(where.clauses, condition),
                  params |-> <<after>> \o where.params],
            <<[field |-> col, desc |-> desc]>>, <<per_page + 1>>)

(* cursor: the column beyond the cursor, and one row more than asked for. *)
cursor_sql(filter, col, desc, after, per_page) ==
  LET where == build_where(filter)
      condition == [column |-> col, operator |-> IF desc THEN "lt" ELSE "gt", marks |-> 1] IN
  Statement(IF after = Null THEN where
            ELSE [clauses |-> Append(where.clauses, condition),
                  params |-> Append(where.params, after)],
            <<[field |-> col, desc |-> desc]>>, <<per_page + 1>>)

(* The extra row is taken away again; the cursor is the column of the last *)
(* row that stays.                                                         *)
CursorPage(rows, col, per_page) ==
  LET has_more == Len(rows) > per_page IN
  [items |-> IF has_more THEN Front(rows) ELSE rows,
   next_cursor |-> IF has_more THEN rows[Len(rows) - 1][col] ELSE Null]

-----------------------------------------------------------------------------
(* The client. *)

Idle == [at |-> "idle", status |-> 0, seen |-> <<>>, first |-> {}, touched |-> {}]

Init ==
  /\ table \in SUBSET Rows
  /\ writes = 0
  /\ walk = Idle

(* The extractors: a page that does not parse is answered with 400, as is  *)
(* a value that does not fit its column.                                   *)
Begin(call) ==
  LET filter == validate(from_query_params(call.query), call.sort)
      rejected == call.req = Null \/ ~filter.ok
      first == IF call.mode = "page" THEN "count" ELSE "rows" IN
  /\ walk.at = "idle"
  /\ walk' = [at |-> IF rejected THEN "end" ELSE first, call |-> call, filter |-> filter,
              req |-> IF call.req = Null THEN Null ELSE clamp(call.req), after |-> Null,
              total |-> 0, seen |-> <<>>, status |-> IF rejected THEN 400 ELSE 200,
              first |-> table, touched |-> {}]
  /\ UNCHANGED <<table, writes>>

(* page's first statement. *)
Count ==
  /\ walk.at = "count"
  /\ walk' = [walk EXCEPT !.at = "rows",
                !.total = Len(Execute(Statement(build_where(walk.filter), <<>>, <<>>)))]
  /\ UNCHANGED <<table, writes>>

(* page's second statement; the client goes on to the next page. *)
Page ==
  LET rows == Execute(page_sql(walk.filter, walk.call.order_by, walk.req))
      status == query_all(rows, walk.call.type) IN
  /\ walk.at = "rows" /\ walk.call.mode = "page"
  /\ walk' = [walk EXCEPT !.status = status,
                !.seen = IF status = 200 THEN @ \o rows ELSE @,
                !.at = IF status = 200 /\ has_next(walk.total, walk.req) THEN "count" ELSE "end",
                !.req.page = @ + 1]
  /\ UNCHANGED <<table, writes>>

(* A page with a cursor; the client passes the next one back. *)
Cursor ==
  LET rows == Execute(cursor_sql(walk.filter, walk.call.col, walk.call.desc, walk.after,
                                 walk.req.per_page))
      status == query_all(rows, walk.call.type)
      got == CursorPage(rows, walk.call.col, walk.req.per_page) IN
  /\ walk.at = "rows" /\ walk.call.mode = "cursor"
  /\ walk' = [walk EXCEPT !.status = status,
                !.seen = IF status = 200 THEN @ \o got.items ELSE @,
                !.after = got.next_cursor,
                !.at = IF status = 200 /\ got.next_cursor # Null THEN "rows" ELSE "end"]
  /\ UNCHANGED <<table, writes>>

(* fetch_all, fetch_one and fetch_optional. *)
Fetch ==
  LET all == Execute(fetch_all(walk.filter, walk.call.order_by))
      some == Execute(fetch_one(walk.filter))
      status == CASE walk.call.mode = "all" -> query_all(all, walk.call.type)
                  [] walk.call.mode = "one" -> query_one(some, walk.call.type)
                  [] walk.call.mode = "optional" -> query_optional(some, walk.call.type) IN
  /\ walk.at = "rows" /\ walk.call.mode \in {"all", "one", "optional"}
  /\ walk' = [walk EXCEPT !.at = "end", !.status = status,
                !.seen = CASE status # 200 -> <<>>
                           [] status = 200 /\ walk.call.mode = "all" -> all
                           [] OTHER -> FirstRow(some)]
  /\ UNCHANGED <<table, writes>>

(* A statement of the walk fails. *)
QueryFails(kind) ==
  /\ walk.at \in {"count", "rows"}
  /\ walk' = [walk EXCEPT !.at = "end", !.status = FromLibsqlError[kind]]
  /\ UNCHANGED <<table, writes>>

(* Another request inserts or deletes a row. *)
Write(row) ==
  /\ walk.at \in {"count", "rows"}
  /\ writes < MaxWrites
  /\ writes' = writes + 1
  /\ table' = IF row \in table THEN table \ {row} ELSE table \cup {row}
  /\ walk' = [walk EXCEPT !.touched = @ \cup {row}]

Next ==
  \/ \E call \in Calls : Begin(call)
  \/ Count
  \/ Page
  \/ Cursor
  \/ Fetch
  \/ \E kind \in {"null_value", "connection_failed"} : QueryFails(kind)
  \/ \E row \in Rows : Write(row)

Spec == Init /\ [][Next]_vars

-----------------------------------------------------------------------------
(* What the query string asks of a row, read off it directly; an operator  *)
(* looks at the first value.                                               *)
Wanted(row) ==
  \A key \in DOMAIN walk.call.query :
    LET texts == walk.call.query[key]
        numbers == [i \in IF key[2] = "" THEN DOMAIN texts ELSE {1} |->
                      convert_value(texts[i]).value] IN
    key[1] \in {"id", "v"} /\ key[2] \in Operators \cup {""} =>
      Holds(CASE key[2] = "" -> "in"
              [] key[2] = "null" -> IF texts[1] = "true" THEN "is_null" ELSE "is_not_null"
              [] OTHER -> key[2], numbers, row[key[1]])

Times(row) == Cardinality({i \in DOMAIN walk.seen : walk.seen[i] = row})

Unique(row) == \A other \in Rows \ {row} : other[walk.call.col] # row[walk.call.col]

(* select.rs:88-234 over filter.rs:128-274: a client that reads to the end *)
(* sees no row that it did not ask for and, page by page with cursors on a *)
(* column whose values are unique and always there, sees each row that was *)
(* there throughout, whatever others insert and delete, exactly once.      *)
(* With page numbers this is promised for a table that does not change.    *)
WalkSeesEachOnce ==
  walk.at = "end" /\ walk.status = 200 =>
    LET kept == {r \in walk.first \ walk.touched : Wanted(r)} IN
    /\ \A i \in DOMAIN walk.seen : Wanted(walk.seen[i])
    /\ walk.call.mode = "cursor" =>
         /\ \A r \in kept : Times(r) <= 1
         /\ (\A r \in Rows : Unique(r) /\ r[walk.call.col] # Null) =>
              \A r \in kept : Times(r) = 1
    /\ walk.call.mode = "all" \/ (walk.call.mode = "page" /\ walk.touched = {}) =>
         \A r \in kept : Times(r) = 1
=============================================================================
