---------------------------- MODULE QueriesProofs ---------------------------
(***************************************************************************)
(* Proofs about reading a table: whatever the filter, the order, the page  *)
(* size and the rows, and whatever others insert and delete meanwhile, a   *)
(* client that reads to the end sees what it asked for, each row once.     *)
(*                                                                         *)
(* First sets in order (what SortedBy returns), then the statement: the    *)
(* placeholders of its clauses find their values, so that WHERE selects    *)
(* the rows that the query string asks for, and LIMIT and OFFSET take the  *)
(* part they should.  Then the invariant of a walk: a cursor has nothing   *)
(* seen ahead of it and missed nothing behind it, pages are the beginning  *)
(* of what the query finds.                                                *)
(***************************************************************************)
EXTENDS ServicesProofs

-----------------------------------------------------------------------------
(* Sets in order. *)

(* s has every element of S once. *)
Listed(s, S) ==
  /\ s \in Seq(S)
  /\ \A i, j \in 1 .. Len(s) : s[i] = s[j] => i = j
  /\ \A x \in S : \E i \in 1 .. Len(s) : s[i] = x

(* Nothing comes before what precedes it. *)
Ordered(s, R) == \A i, j \in 1 .. Len(s) : i < j => <<s[j], s[i]>> \notin R

(* Its length is the number of elements. *)
LEMMA ListedLen ==
  ASSUME NEW S, NEW s, Listed(s, S)
  PROVE  Len(s) = Cardinality(S)
  <1>1. s \in Seq(S) /\ DOMAIN s = 1 .. Len(s)
    BY LenProperties DEF Listed
  <1>2. Range(s) = S
    BY <1>1 DEF Listed, Range
  <1>3. QED
    BY <1>1, <1>2, CountOfOrder DEF Listed

(* SetToSeqs has every such sequence. *)
LEMMA SetToSeqsIs ==
  ASSUME NEW S, IsFiniteSet(S), NEW s
  PROVE  s \in Reads!SetToSeqs(S) <=> Listed(s, S)
  <1>0. Reads!Cardinality(S) = Cardinality(S)
    BY DEF Cardinality, Reads!Cardinality
  <1>1. PICK n : n = Cardinality(S)
    OBVIOUS
  <1>2. n \in Nat
    BY <1>1, FS_CardinalityType
  <1>3. s \in Reads!SetToSeqs(S) <=>
          s \in [1 .. n -> S] /\ \A i, j \in 1 .. n : i # j => s[i] # s[j]
    BY <1>0, <1>1 DEF Reads!SetToSeqs
  <1>4. ASSUME s \in [1 .. n -> S], \A i, j \in 1 .. n : i # j => s[i] # s[j]
        PROVE  Listed(s, S)
    <2>1. s \in Seq(S) /\ Len(s) = n /\ DOMAIN s = 1 .. n
      BY <1>2, <1>4
    <2>2. \A i, j \in 1 .. Len(s) : s[i] = s[j] => i = j
      BY <1>4, <2>1
    <2>3. Cardinality(Range(s)) = n /\ Range(s) \subseteq S
      BY <2>1, <2>2, CountOfOrder DEF Range
    <2>4. Range(s) = S
      BY <1>1, <2>3, FS_Subset
    <2>5. QED
      BY <2>1, <2>2, <2>4 DEF Listed, Range
  <1>5. ASSUME Listed(s, S)
        PROVE  s \in [1 .. n -> S] /\ \A i, j \in 1 .. n : i # j => s[i] # s[j]
    <2>1. Len(s) = n
      BY <1>1, <1>5, ListedLen
    <2>2. QED
      BY <1>5, <2>1 DEF Listed
  <1>6. QED
    BY <1>3, <1>4, <1>5

(* An order, as a set of pairs. *)
Precedence(R, S) ==
  /\ \A x \in S : <<x, x>> \notin R
  /\ \A x, y, z \in S : <<x, y>> \in R /\ <<y, z>> \in R => <<x, z>> \in R

(* Something precedes nothing: what precedes the fewest. *)
LEMMA LastExists ==
  ASSUME NEW S, IsFiniteSet(S), S # {}, NEW R, Precedence(R, S)
  PROVE  \E x \in S : \A y \in S : <<x, y>> \notin R
  <1> DEFINE after(x) == {y \in S : <<x, y>> \in R}
             T == {Cardinality(after(x)) : x \in S}
  <1>1. \A x \in S : IsFiniteSet(after(x)) /\ Cardinality(after(x)) \in Nat
    <2> TAKE x \in S
    <2>1. after(x) \subseteq S
      OBVIOUS
    <2>2. IsFiniteSet(after(x))
      BY <2>1, FS_Subset
    <2>3. QED
      BY <2>2, FS_CardinalityType
  <1>2. T \subseteq Nat /\ T # {}
    BY <1>1
  <1>3. PICK n \in T : \A m \in T : n <= m
    BY <1>2, LeastNat
  <1>4. PICK x \in S : Cardinality(after(x)) = n
    BY <1>3
  <1>5. ASSUME NEW y \in S, <<x, y>> \in R
        PROVE  FALSE
    <2>1. after(y) \subseteq after(x) /\ y \in after(x) /\ y \notin after(y)
      BY <1>5 DEF Precedence
    <2>2. after(y) # after(x)
      BY <2>1
    <2>3. Cardinality(after(y)) < Cardinality(after(x))
      <3>1. PICK a, b : a = after(x) /\ b = after(y)
        OBVIOUS
      <3>2. IsFiniteSet(a) /\ b \subseteq a /\ b # a
        BY <1>1, <2>1, <2>2, <3>1
      <3>3. Cardinality(b) <= Cardinality(a) /\ Cardinality(b) # Cardinality(a)
        BY <3>2, FS_Subset
      <3>4. Cardinality(a) \in Nat /\ Cardinality(b) \in Nat
        BY <1>1, <3>1
      <3>5. Cardinality(b) < Cardinality(a)
        BY <3>3, <3>4
      <3>6. QED
        BY <3>1, <3>5
    <2>4. Cardinality(after(y)) \in T
      OBVIOUS
    <2>5. PICK c : c = Cardinality(after(y))
      OBVIOUS
    <2>6. c \in Nat /\ n \in Nat /\ n <= c
      BY <1>1, <1>2, <1>3, <2>4, <2>5
    <2>7. c < n
      BY <1>4, <2>3, <2>5
    <2>8. QED
      BY <2>6, <2>7
  <1>6. QED
    BY <1>5

(* An element that precedes none goes last. *)
LEMMA ListedAppend ==
  ASSUME NEW S, NEW m \in S, NEW s, Listed(s, S \ {m}), NEW R, Ordered(s, R),
         \A y \in S : <<m, y>> \notin R
  PROVE  Listed(Append(s, m), S) /\ Ordered(Append(s, m), R)
  <1>0. s \in Seq(S) /\ s \in Seq(S \ {m})
    <2>1. s \in Seq(S \ {m})
      BY DEF Listed
    <2>2. QED
      BY <2>1
  <1>1. PICK t, n : t = Append(s, m) /\ n = Len(s)
    OBVIOUS
  <1>2. /\ n \in Nat /\ t \in Seq(S) /\ Len(t) = n + 1 /\ t[n + 1] = m
        /\ \A i \in 1 .. n : t[i] = s[i]
    BY <1>0, <1>1, AppendProperties
  <1>3. \A i \in 1 .. n : s[i] \in S /\ s[i] # m
    BY <1>0, <1>1
  <1>4. \A i \in 1 .. n + 1 : i \in 1 .. n \/ i = n + 1
    BY <1>2
  <1>5. \A i, j \in 1 .. n + 1 : t[i] = t[j] => i = j
    <2> SUFFICES ASSUME NEW i \in 1 .. n + 1, NEW j \in 1 .. n + 1, t[i] = t[j]
                 PROVE  i = j
      OBVIOUS
    <2>1. CASE i \in 1 .. n /\ j \in 1 .. n
      BY <1>1, <1>2, <2>1 DEF Listed
    <2>2. CASE i = n + 1 \/ j = n + 1
      BY <1>2, <1>3, <1>4, <2>2
    <2>3. QED
      BY <1>4, <2>1, <2>2
  <1>6. ASSUME NEW x \in S
        PROVE  \E i \in 1 .. n + 1 : t[i] = x
    <2>1. CASE x = m
      BY <1>2, <2>1
    <2>2. CASE x # m
      <3>1. PICK i \in 1 .. n : s[i] = x
        BY <1>1, <2>2 DEF Listed
      <3>2. i \in 1 .. n + 1 /\ t[i] = x
        BY <1>2, <3>1
      <3>3. QED
        BY <3>2
    <2>3. QED
      BY <2>1, <2>2
  <1>7. ASSUME NEW i \in 1 .. n + 1, NEW j \in 1 .. n + 1, i < j
        PROVE  <<t[j], t[i]>> \notin R
    <2>1. i \in 1 .. n
      BY <1>2, <1>7
    <2>2. CASE j \in 1 .. n
      BY <1>1, <1>2, <1>7, <2>1, <2>2 DEF Ordered
    <2>3. CASE j = n + 1
      <3>1. t[j] = m /\ t[i] \in S
        BY <1>2, <1>3, <2>1, <2>3
      <3>2. QED
        BY <3>1
    <2>4. QED
      BY <1>4, <2>2, <2>3
  <1>8. QED
    BY <1>1, <1>2, <1>5, <1>6, <1>7 DEF Listed, Ordered

(* Every finite set can be put in order. *)
LEMMA SortedExists ==
  ASSUME NEW S, IsFiniteSet(S), NEW R, Precedence(R, S)
  PROVE  \E s : Listed(s, S) /\ Ordered(s, R)
  <1> DEFINE Sorted(T) == \E s : Listed(s, T) /\ Ordered(s, R)
             B == {n \in Nat : \E T \in SUBSET S : Cardinality(T) = n /\ ~Sorted(T)}
  <1>1. \A T \in SUBSET S : IsFiniteSet(T) /\ Cardinality(T) \in Nat
    BY FS_Subset, FS_CardinalityType
  <1>2. 0 \notin B
    <2> SUFFICES ASSUME NEW T \in SUBSET S, Cardinality(T) = 0
                 PROVE  Sorted(T)
      OBVIOUS
    <2>1. T = {}
      BY <1>1, FS_EmptySet
    <2>2. PICK e : e = <<>>
      OBVIOUS
    <2>3. e \in Seq(T) /\ Len(e) = 0
      BY <2>2
    <2>4. Listed(e, T) /\ Ordered(e, R)
      BY <2>1, <2>3 DEF Listed, Ordered
    <2>5. QED
      BY <2>4
  <1>3. B = {}
    <2> SUFFICES ASSUME B # {} PROVE FALSE
      OBVIOUS
    <2>1. B \subseteq Nat
      OBVIOUS
    <2>2. PICK n \in B : n \in Nat /\ n # 0 /\ n - 1 \in Nat /\ n - 1 \notin B
      BY <1>2, <2>1, LeastOf
    <2>3. PICK T \in SUBSET S : Cardinality(T) = n /\ ~Sorted(T)
      BY <2>2
    <2>4. IsFiniteSet(T) /\ T # {}
      BY <1>1, <2>2, <2>3, FS_EmptySet
    <2>5. Precedence(R, T)
      BY DEF Precedence
    <2>6. PICK m \in T : \A y \in T : <<m, y>> \notin R
      BY <2>4, <2>5, LastExists
    <2>7. Cardinality(T \ {m}) = n - 1
      BY <2>3, <2>4, <2>6, FS_RemoveElement
    <2>8. Sorted(T \ {m})
      BY <2>2, <2>7
    <2>9. PICK s : Listed(s, T \ {m}) /\ Ordered(s, R)
      BY <2>8
    <2>10. Listed(Append(s, m), T) /\ Ordered(Append(s, m), R)
      BY <2>6, <2>9, ListedAppend
    <2>11. QED
      BY <2>3, <2>10
  <1>4. Cardinality(S) \in Nat
    BY <1>1
  <1>5. QED
    BY <1>3, <1>4

-----------------------------------------------------------------------------
(* The placeholders of the clauses. *)

IsMarks(f, clauses) ==
  f = [k \in 0 .. Len(clauses) |-> IF k = 0 THEN 0 ELSE f[k - 1] + clauses[k].marks]

(* What counts the placeholders is the count. *)
LEMMA MarksAre ==
  ASSUME NEW clauses, Len(clauses) \in Nat, NEW g \in [0 .. Len(clauses) -> Nat], g[0] = 0,
         \A k \in 1 .. Len(clauses) : g[k] = g[k - 1] + clauses[k].marks,
         NEW i \in 1 .. Len(clauses) + 1
  PROVE  Reads!MarksBefore(clauses, i) = g[i - 1]
  <1> DEFINE w == CHOOSE f : IsMarks(f, clauses)
  <1>1. Reads!MarksBefore(clauses, i) = w[i - 1]
    BY Zenon DEF Reads!MarksBefore, IsMarks
  <1>2. IsMarks(g, clauses)
    BY DEF IsMarks
  <1>3. IsMarks(w, clauses)
    BY <1>2
  <1> HIDE DEF w
  <1>4. \A k \in 0 .. Len(clauses) : w[k] = IF k = 0 THEN 0 ELSE w[k - 1] + clauses[k].marks
    BY <1>3 DEF IsMarks
  <1> DEFINE B == {k \in 0 .. Len(clauses) : w[k] # g[k]}
  <1>5. B = {}
    <2> SUFFICES ASSUME B # {} PROVE FALSE
      OBVIOUS
    <2>1. B \subseteq Nat
      OBVIOUS
    <2>2. 0 \notin B
      BY <1>4
    <2>3. PICK x \in B : x \in Nat /\ x # 0 /\ x - 1 \in Nat /\ x - 1 \notin B
      BY <2>1, <2>2, LeastOf
    <2>4. x \in 1 .. Len(clauses) /\ x - 1 \in 0 .. Len(clauses)
      BY <2>3
    <2>5. w[x - 1] = g[x - 1]
      BY <2>3, <2>4
    <2>6. w[x] = w[x - 1] + clauses[x].marks
      BY <1>4, <2>3, <2>4
    <2>7. w[x] = g[x]
      BY <2>4, <2>5, <2>6
    <2>8. QED
      BY <2>3, <2>7
  <1>6. i - 1 \in 0 .. Len(clauses)
    OBVIOUS
  <1>7. QED
    BY <1>1, <1>5, <1>6

(* FlattenSeq puts the sequences one behind the other. *)
LEMMA FlattenReads ==
  ASSUME NEW S, NEW seqs \in Seq(Seq(S))
  PROVE  \E F : Joined(F, S, seqs) /\ Reads!FlattenSeq(seqs) = F[Len(seqs)]
  <1>1. Reads!FlattenSeq(seqs) = Mail!FlattenSeq(seqs)
    BY Zenon DEF Reads!FlattenSeq, Mail!FlattenSeq
  <1>2. QED
    BY <1>1, FlattenIs, Zenon

-----------------------------------------------------------------------------
(* The order of rows. *)

Fields == {"id", "v"}

OrderType == Seq([field : Fields, desc : BOOLEAN])

(* No value is less than every value. *)
Key(row, f) == IF row[f] = None THEN 0 ELSE row[f]

(* Keys are numbers. *)
LEMMA KeyType ==
  ASSUME NEW row \in Rows, NEW f \in Fields
  PROVE  /\ Key(row, f) \in Nat /\ row[f] \in (Nat \ {0}) \cup {None}
         /\ None \notin Nat
  BY ServicesAssumption DEF Reads!QueriesAssumption, Fields, Key

Less(ord, r, s, i) ==
  IF ord[i].desc THEN Key(r, ord[i].field) > Key(s, ord[i].field)
  ELSE Key(r, ord[i].field) < Key(s, ord[i].field)

Same(ord, r, s, i) == Key(r, ord[i].field) = Key(s, ord[i].field)

(* Before, by keys. *)
LEMMA BeforeIs ==
  ASSUME NEW ord, NEW r, NEW s
  PROVE  Reads!Before(ord, r, s) <=>
           \/ \E i \in DOMAIN ord :
                Less(ord, r, s, i) /\ \A j \in 1 .. i - 1 : Same(ord, r, s, j)
           \/ (\A i \in DOMAIN ord : Same(ord, r, s, i)) /\ r.id < s.id
  BY DEF Reads!Before, Less, Same, Key

RowsBefore(ord) == {p \in Rows \X Rows : Reads!Before(ord, p[1], p[2])}

(* The order of rows is irreflexive and transitive, whatever the columns. *)
LEMMA RowsBeforeIs ==
  ASSUME NEW ord \in OrderType
  PROVE  Precedence(RowsBefore(ord), Rows)
  <1>0. DOMAIN ord = 1 .. Len(ord) /\ Len(ord) \in Nat
    BY DEF OrderType
  <1>1. \A i \in DOMAIN ord : ord[i].field \in Fields
    <2>1. PICK T : T = [field : Fields, desc : BOOLEAN]
      OBVIOUS
    <2>2. ord \in Seq(T)
      BY <2>1, Zenon DEF OrderType
    <2>3. \A i \in DOMAIN ord : ord[i] \in T
      BY <1>0, <2>2, ElementOfSeq
    <2>4. QED
      BY <2>1, <2>3
  <1>2. \A r \in Rows : r.id \in Nat
    BY ServicesAssumption DEF Reads!QueriesAssumption
  <1>3. \A r, s \in Rows : <<r, s>> \in RowsBefore(ord) <=> Reads!Before(ord, r, s)
    BY DEF RowsBefore
  <1>4. ASSUME NEW i \in DOMAIN ord, NEW r \in Rows
        PROVE  Key(r, ord[i].field) \in Nat
    BY <1>1, KeyType
  <1>5. \A i \in DOMAIN ord : \A r \in Rows : ~Less(ord, r, r, i)
    <2> SUFFICES ASSUME NEW i \in DOMAIN ord, NEW r \in Rows PROVE ~Less(ord, r, r, i)
      OBVIOUS
    <2>1. PICK x : x = Key(r, ord[i].field)
      OBVIOUS
    <2>2. x \in Nat
      BY <1>4, <2>1
    <2>3. QED
      BY <2>1, <2>2 DEF Less
  <1>6. ASSUME NEW r \in Rows
        PROVE  ~Reads!Before(ord, r, r)
    <2>1. ~(r.id < r.id)
      BY <1>2
    <2>2. QED
      BY <1>5, <2>1, BeforeIs
  <1>7. \A i \in DOMAIN ord : \A r, s, t \in Rows :
          /\ Less(ord, r, s, i) /\ Less(ord, s, t, i) => Less(ord, r, t, i)
          /\ Less(ord, r, s, i) /\ Same(ord, s, t, i) => Less(ord, r, t, i)
          /\ Same(ord, r, s, i) /\ Less(ord, s, t, i) => Less(ord, r, t, i)
          /\ Same(ord, r, s, i) /\ Same(ord, s, t, i) => Same(ord, r, t, i)
    <2> TAKE i \in DOMAIN ord
    <2> TAKE r, s, t \in Rows
    <2>1. PICK x, y, z, d : /\ x = Key(r, ord[i].field) /\ y = Key(s, ord[i].field)
                            /\ z = Key(t, ord[i].field) /\ d = ord[i].desc
      OBVIOUS
    <2>2. x \in Nat /\ y \in Nat /\ z \in Nat
      BY <1>4, <2>1
    <2>3. QED
      BY <2>1, <2>2 DEF Less, Same
  <1>8. ASSUME NEW r \in Rows, NEW s \in Rows, NEW t \in Rows,
               Reads!Before(ord, r, s), Reads!Before(ord, s, t)
        PROVE  Reads!Before(ord, r, t)
    <2> DEFINE L(x, y, i) == Less(ord, x, y, i) /\ \A j \in 1 .. i - 1 : Same(ord, x, y, j)
               Eq(x, y) == \A i \in DOMAIN ord : Same(ord, x, y, i)
    <2>1. \A i \in DOMAIN ord : \A j \in 1 .. i - 1 : j \in DOMAIN ord
      BY <1>0
    <2>2. ASSUME NEW a \in DOMAIN ord, L(r, s, a), NEW b \in DOMAIN ord, L(s, t, b)
          PROVE  \E i \in DOMAIN ord : L(r, t, i)
      <3>0. a \in Int /\ b \in Int /\ 1 <= a /\ 1 <= b
        BY <1>0
      <3>1. CASE a = b
        BY <1>7, <2>1, <2>2, <3>1
      <3>2. CASE a < b
        <4>1. a \in 1 .. b - 1 /\ \A j \in 1 .. a - 1 : j \in 1 .. b - 1
          BY <3>0, <3>2
        <4>2. Less(ord, r, t, a)
          BY <1>7, <2>2, <4>1
        <4>3. \A j \in 1 .. a - 1 : Same(ord, r, t, j)
          BY <1>7, <2>1, <2>2, <4>1
        <4>4. QED
          BY <4>2, <4>3
      <3>3. CASE b < a
        <4>1. b \in 1 .. a - 1 /\ \A j \in 1 .. b - 1 : j \in 1 .. a - 1
          BY <3>0, <3>3
        <4>2. Less(ord, r, t, b)
          BY <1>7, <2>2, <4>1
        <4>3. \A j \in 1 .. b - 1 : Same(ord, r, t, j)
          BY <1>7, <2>1, <2>2, <4>1
        <4>4. QED
          BY <4>2, <4>3
      <3>4. QED
        BY <3>0, <3>1, <3>2, <3>3
    <2>3. ASSUME NEW a \in DOMAIN ord, L(r, s, a), Eq(s, t)
          PROVE  L(r, t, a)
      BY <1>7, <2>1, <2>3
    <2>4. ASSUME NEW a \in DOMAIN ord, L(s, t, a), Eq(r, s)
          PROVE  L(r, t, a)
      BY <1>7, <2>1, <2>4
    <2>5. ASSUME Eq(r, s), Eq(s, t), r.id < s.id, s.id < t.id
          PROVE  Eq(r, t) /\ r.id < t.id
      <3>1. r.id < t.id
        BY <1>2, <2>5
      <3>2. QED
        BY <1>7, <2>5, <3>1
    <2>6. (\E a \in DOMAIN ord : L(r, s, a)) \/ (Eq(r, s) /\ r.id < s.id)
      BY <1>8, BeforeIs
    <2>7. (\E a \in DOMAIN ord : L(s, t, a)) \/ (Eq(s, t) /\ s.id < t.id)
      BY <1>8, BeforeIs
    <2>8. (\E a \in DOMAIN ord : L(r, t, a)) \/ (Eq(r, t) /\ r.id < t.id)
      BY <2>2, <2>3, <2>4, <2>5, <2>6, <2>7
    <2>9. QED
      BY <2>8, BeforeIs
  <1>9. QED
    BY <1>3, <1>6, <1>8 DEF Precedence

-----------------------------------------------------------------------------
(* The filter of a query string. *)

(* The operator of a key, and its condition. *)
KeyOperator(query, k) ==
  CASE k[2] = "" -> IF Len(query[k]) > 1 THEN "in" ELSE "eq"
    [] k[2] = "null" -> IF query[k][1] = "true" THEN "is_null" ELSE "is_not_null"
    [] OTHER -> k[2]

KeyCond(query, k) ==
  [column |-> k[1], operator |-> KeyOperator(query, k), values |-> query[k]]

(* The keys that filter. *)
FilterKeys(query) ==
  {k \in DOMAIN query : k[1] \in Fields /\ k[2] \in Reads!Operators \cup {""}}

KnownConditions(query) ==
  {c \in Reads!from_query_params(query) : c.column \in DOMAIN Reads!FilterSchema.fields}

(* The columns one may filter by. *)
LEMMA SchemaIs == DOMAIN Reads!FilterSchema.fields = Fields
  BY DEF Reads!FilterSchema, Fields

(* A condition for each key that filters. *)
LEMMA KnownIs ==
  ASSUME NEW query
  PROVE  KnownConditions(query) = {KeyCond(query, k) : k \in FilterKeys(query)}
  <1> DEFINE keys == {k \in DOMAIN query : /\ k[1] \notin {"sort", "page", "per_page", "after"}
                                           /\ k[2] \in Reads!Operators \cup {""}}
  <1>1. Reads!from_query_params(query) = {KeyCond(query, k) : k \in keys}
    BY Zenon DEF Reads!from_query_params, KeyCond, KeyOperator
  <1>2. \A k : KeyCond(query, k).column = k[1]
    BY DEF KeyCond
  <1>3. \A k : k \in FilterKeys(query) <=> k \in keys /\ k[1] \in Fields
    BY DEF FilterKeys, Fields
  <1> HIDE DEF keys
  <1>4. ASSUME NEW c
        PROVE  c \in KnownConditions(query) <=> \E k \in FilterKeys(query) : c = KeyCond(query, k)
    <2>1. c \in KnownConditions(query) <=> c \in Reads!from_query_params(query) /\ c.column \in Fields
      BY SchemaIs DEF KnownConditions
    <2>2. QED
      BY <1>1, <1>2, <1>3, <2>1
  <1>5. QED
    BY <1>4

(* A query string's keys are finitely many and each has a value. *)
QueryOK(query) ==
  /\ IsFiniteSet(DOMAIN query)
  /\ \A k \in DOMAIN query : query[k] \in Seq(STRING) /\ Len(query[k]) \in Nat /\ Len(query[k]) >= 1

(* Every query string is of this form. *)
LEMMA CallsOK ==
  ASSUME NEW ask \in QueryCalls
  PROVE  QueryOK(ask.query)
  <1>1. IsFiniteSet(DOMAIN ask.query)
    BY ServicesAssumption DEF Reads!QueriesAssumption, Reads!IsFiniteSet, IsFiniteSet
  <1>2. \A k \in DOMAIN ask.query : ask.query[k] \in Seq(STRING) \ {<<>>}
    BY ServicesAssumption DEF Reads!QueriesAssumption
  <1>3. \A s \in Seq(STRING) : s # <<>> => Len(s) \in Nat /\ Len(s) >= 1
    <2> SUFFICES ASSUME NEW s \in Seq(STRING), s # <<>> PROVE Len(s) \in Nat /\ Len(s) >= 1
      OBVIOUS
    <2>1. Len(s) \in Nat /\ Len(s) # 0
      BY EmptySeq, LenProperties
    <2>2. QED
      BY <2>1
  <1>4. QED
    BY <1>1, <1>2, <1>3 DEF QueryOK

(* There are finitely many conditions. *)
LEMMA KnownOK ==
  ASSUME NEW query, QueryOK(query)
  PROVE  IsFiniteSet(KnownConditions(query))
  <1>1. FilterKeys(query) \subseteq DOMAIN query
    BY DEF FilterKeys
  <1>2. IsFiniteSet(FilterKeys(query))
    BY <1>1, FS_Subset DEF QueryOK
  <1>3. IsFiniteSet({KeyCond(query, k) : k \in FilterKeys(query)})
    <2> DEFINE T == {KeyCond(query, k) : k \in FilterKeys(query)}
               f == [k \in FilterKeys(query) |-> KeyCond(query, k)]
    <2>1. f \in Surjection(FilterKeys(query), T)
      BY DEF Surjection
    <2> HIDE DEF T, f
    <2>2. IsFiniteSet(T)
      BY <1>2, <2>1, FS_Surjection
    <2>3. QED
      BY <2>2 DEF T
  <1>4. QED
    BY <1>3, KnownIs

(* The conditions in the order of their clauses. *)
CondOrder(query) ==
  CHOOSE s \in Reads!SetToSeqs(KnownConditions(query)) :
    \A i, j \in DOMAIN s : i < j => ~(s[j].column = "id" /\ s[i].column = "v")

(* Every condition has its clause. *)
LEMMA CondOrderIs ==
  ASSUME NEW query, QueryOK(query)
  PROVE  Listed(CondOrder(query), KnownConditions(query))
  <1>1. PICK K : K = KnownConditions(query)
    OBVIOUS
  <1>2. IsFiniteSet(K)
    BY <1>1, KnownOK
  <1> DEFINE R == {p \in K \X K : p[1].column = "id" /\ p[2].column = "v"}
             Good(s) == \A i, j \in DOMAIN s : i < j => ~(s[j].column = "id" /\ s[i].column = "v")
  <1>3. \A x, y \in K : <<x, y>> \in R <=> x.column = "id" /\ y.column = "v"
    OBVIOUS
  <1>4. Precedence(R, K)
    BY <1>3 DEF Precedence
  <1> HIDE DEF R
  <1>5. PICK s : Listed(s, K) /\ Ordered(s, R)
    BY <1>2, <1>4, SortedExists
  <1>6. s \in Reads!SetToSeqs(K)
    BY <1>2, <1>5, SetToSeqsIs
  <1>7. Good(s)
    <2>1. DOMAIN s = 1 .. Len(s) /\ \A i \in 1 .. Len(s) : s[i] \in K
      BY <1>5 DEF Listed
    <2>2. QED
      BY <1>3, <1>5, <2>1 DEF Ordered
  <1> HIDE DEF Good
  <1>8. \E t : t \in Reads!SetToSeqs(K) /\ Good(t)
    BY <1>6, <1>7
  <1>9. PICK c : c = CHOOSE t \in Reads!SetToSeqs(K) : Good(t)
    OBVIOUS
  <1>10. c \in Reads!SetToSeqs(K)
    BY <1>8, <1>9
  <1>11. c = CondOrder(query)
    BY <1>1, <1>9 DEF CondOrder, Good
  <1>12. QED
    BY <1>1, <1>2, <1>10, <1>11, SetToSeqsIs

Filter(ask) == Reads!validate(Reads!from_query_params(ask.query), ask.sort)

Texts(query) ==
  Reads!FlattenSeq([i \in DOMAIN CondOrder(query) |-> Reads!Placeholders(CondOrder(query)[i])])

ClausesOf(o) ==
  [i \in DOMAIN o |-> [column |-> o[i].column, operator |-> o[i].operator,
                       marks |-> Len(Reads!Placeholders(o[i]))]]

ParamsOf(texts) == [i \in DOMAIN texts |-> Reads!convert_value(texts[i]).value]

(* The parts of a filter. *)
LEMMA FilterIs ==
  ASSUME NEW ask
  PROVE  /\ Filter(ask).clauses = ClausesOf(CondOrder(ask.query))
         /\ Filter(ask).params = ParamsOf(Texts(ask.query))
         /\ Filter(ask).sort_clause = Reads!sort_clause(ask.sort)
  <1> DEFINE o == CondOrder(ask.query)
             texts == Texts(ask.query)
             ok == \A i \in DOMAIN texts : Reads!convert_value(texts[i]).ok
  <1>0. o = Reads!SortedBy(KnownConditions(ask.query), LAMBDA x, y : x.column = "id" /\ y.column = "v")
    BY Zenon DEF CondOrder, Reads!SortedBy
  <1>1. Filter(ask) = [ok |-> ok, clauses |-> ClausesOf(o), params |-> ParamsOf(texts),
                       sort_clause |-> Reads!sort_clause(ask.sort)]
    BY <1>0, Zenon DEF Filter, Reads!validate, KnownConditions, Texts, ClausesOf, ParamsOf
  <1> HIDE DEF ok
  <1>2. PICK x, y, z, k : /\ x = ClausesOf(o) /\ y = ParamsOf(texts)
                          /\ z = Reads!sort_clause(ask.sort) /\ k = ok
    OBVIOUS
  <1>3. Filter(ask) = [ok |-> k, clauses |-> x, params |-> y, sort_clause |-> z]
    BY <1>1, <1>2, Zenon
  <1>4. Filter(ask).clauses = x /\ Filter(ask).params = y /\ Filter(ask).sort_clause = z
    BY <1>3
  <1>5. QED
    BY <1>2, <1>4

(* The values a condition compares with. *)
Args(c) ==
  [j \in DOMAIN Reads!Placeholders(c) |-> Reads!convert_value(Reads!Placeholders(c)[j]).value]

CondHolds(c, row) == Reads!Holds(c.operator, Args(c), row[c.column])

(* Placeholders are texts. *)
LEMMA PlaceholdersType ==
  ASSUME NEW query, QueryOK(query), NEW c \in KnownConditions(query)
  PROVE  Reads!Placeholders(c) \in Seq(STRING)
  <1>1. PICK k \in FilterKeys(query) : c = KeyCond(query, k)
    BY KnownIs
  <1>2. k \in DOMAIN query
    BY DEF FilterKeys
  <1>3. PICK s : s = query[k]
    OBVIOUS
  <1>4. c.values = s
    BY <1>1, <1>3 DEF KeyCond
  <1>5. s \in Seq(STRING) /\ s[1] \in STRING
    BY <1>2, <1>3 DEF QueryOK
  <1>6. <<s[1]>> \in Seq(STRING)
    BY <1>5
  <1>7. \A t \in {<<>>, s, <<s[1]>>} : t \in Seq(STRING)
    BY <1>5, <1>6, EmptySeq
  <1>8. Reads!Placeholders(c) \in {<<>>, s, <<s[1]>>}
    BY <1>4, Zenon DEF Reads!Placeholders
  <1>9. QED
    BY <1>7, <1>8

(* F says where the placeholders of each condition are. *)
Laid(F, query) ==
  LET o == CondOrder(query) IN
  /\ Len(o) \in Nat
  /\ \A k \in 0 .. Len(o) : Len(F[k]) \in Nat /\ F[k] \in Seq(STRING)
  /\ Len(F[0]) = 0
  /\ \A k \in 1 .. Len(o) : Reads!Placeholders(o[k]) \in Seq(STRING)
  /\ \A k \in 1 .. Len(o) : Len(F[k]) = Len(F[k - 1]) + Len(Reads!Placeholders(o[k]))
  /\ \A k \in 1 .. Len(o) : Len(F[k]) <= Len(F[Len(o)])
  /\ \A k \in 1 .. Len(o) : \A j \in 1 .. Len(Reads!Placeholders(o[k])) :
       F[Len(o)][Len(F[k - 1]) + j] = Reads!Placeholders(o[k])[j]
  /\ Texts(query) = F[Len(o)]

(* Every filter is laid out. *)
LEMMA LaidOut ==
  ASSUME NEW query, QueryOK(query)
  PROVE  \E F : Laid(F, query)
  <1>1. PICK o : o = CondOrder(query)
    OBVIOUS
  <1>2. Listed(o, KnownConditions(query))
    BY <1>1, CondOrderIs
  <1>3. o \in Seq(KnownConditions(query)) /\ DOMAIN o = 1 .. Len(o) /\ Len(o) \in Nat
    BY <1>2, LenProperties DEF Listed
  <1> DEFINE P == [i \in DOMAIN o |-> Reads!Placeholders(o[i])]
  <1>4. \A i \in 1 .. Len(o) : Reads!Placeholders(o[i]) \in Seq(STRING)
    BY <1>3, PlaceholdersType, ElementOfSeq
  <1>5. P \in Seq(Seq(STRING)) /\ Len(P) = Len(o)
    BY <1>3, <1>4
  <1>6. \A k \in 1 .. Len(o) : P[k] = Reads!Placeholders(o[k])
    BY <1>3
  <1>7. Texts(query) = Reads!FlattenSeq(P)
    BY <1>1, Zenon DEF Texts
  <1> HIDE DEF P
  <1>8. PICK F : Joined(F, STRING, P) /\ Reads!FlattenSeq(P) = F[Len(P)]
    BY <1>5, FlattenReads
  <1>9. Placed(F, P)
    BY <1>5, <1>8, JoinedAt
  <1>10. \A k \in 1 .. Len(P) : Follows(F[k - 1], P[k], F[k])
    BY <1>5, <1>8, JoinedStep
  <1>11. \A k \in 0 .. Len(o) : Len(F[k]) \in Nat /\ F[k] \in Seq(STRING)
    <2>1. F \in [0 .. Len(o) -> Seq(STRING)]
      BY <1>5, <1>8 DEF Joined
    <2> TAKE k \in 0 .. Len(o)
    <2>2. F[k] \in Seq(STRING)
      BY <2>1
    <2>3. QED
      BY <2>2, LenProperties
  <1>12. Len(F[0]) = 0
    BY <1>8 DEF Joined
  <1>13. \A k \in 1 .. Len(o) : Len(F[k]) = Len(F[k - 1]) + Len(Reads!Placeholders(o[k]))
    BY <1>5, <1>6, <1>10 DEF Follows
  <1>14. ASSUME NEW k \in 1 .. Len(o) PROVE Len(F[k]) <= Len(F[Len(o)])
    <2>1. k \in 0 .. Len(P) /\ Len(P) \in k .. Len(P)
      BY <1>3, <1>5
    <2>2. QED
      BY <1>5, <1>8, <2>1, JoinedBefore
  <1>15. ASSUME NEW k \in 1 .. Len(o), NEW j \in 1 .. Len(Reads!Placeholders(o[k]))
         PROVE  F[Len(o)][Len(F[k - 1]) + j] = Reads!Placeholders(o[k])[j]
    <2>1. k \in 1 .. Len(P) /\ j \in 1 .. Len(P[k])
      BY <1>5, <1>6
    <2>2. F[Len(P)][Len(F[k - 1]) + j] = P[k][j]
      BY <1>9, <2>1 DEF Placed
    <2>3. QED
      BY <1>5, <1>6, <2>2
  <1>16. Texts(query) = F[Len(o)]
    BY <1>5, <1>7, <1>8
  <1>17. Laid(F, query)
    BY <1>1, <1>3, <1>4, <1>11, <1>12, <1>13, <1>14, <1>15, <1>16 DEF Laid
  <1>18. QED
    BY <1>17

(* The clauses of a statement begin with the filter's, one may follow. *)
Begins(clauses, ask) ==
  LET o == CondOrder(ask.query) IN
  /\ Len(clauses) \in {Len(o), Len(o) + 1}
  /\ \A k \in 1 .. Len(o) : clauses[k] = Filter(ask).clauses[k]
  /\ Len(clauses) = Len(o) + 1 => clauses[Len(o) + 1].marks = 1

(* The placeholders before each clause, and before the limits. *)
LEMMA StatementMarks ==
  ASSUME NEW ask, NEW F, Laid(F, ask.query), NEW clauses, Begins(clauses, ask),
         NEW i \in 1 .. Len(clauses) + 1, NEW N, N = Len(CondOrder(ask.query)), QueryOK(ask.query)
  PROVE  /\ i <= N + 1 => Reads!MarksBefore(clauses, i) = Len(F[i - 1])
         /\ i = N + 2 => Reads!MarksBefore(clauses, i) = Len(F[N]) + 1
  <1>1. PICK o : o = CondOrder(ask.query)
    OBVIOUS
  <1>2. N \in Nat /\ Len(clauses) \in {N, N + 1} /\ N = Len(o)
    BY <1>1 DEF Laid, Begins
  <1>3. DOMAIN o = 1 .. N
    BY <1>1, <1>2, CondOrderIs DEF Listed
  <1>4. \A k \in 1 .. N : clauses[k].marks = Len(Reads!Placeholders(o[k]))
    <2> TAKE k \in 1 .. N
    <2>1. Filter(ask).clauses = ClausesOf(o)
      BY <1>1, FilterIs
    <2>2. clauses[k] = Filter(ask).clauses[k]
      BY <1>1, <1>2 DEF Begins
    <2>3. QED
      BY <1>3, <2>1, <2>2 DEF ClausesOf
  <1> DEFINE g == [k \in 0 .. Len(clauses) |-> IF k <= N THEN Len(F[k]) ELSE Len(F[N]) + 1]
  <1>5. \A k \in 0 .. N : Len(F[k]) \in Nat
    BY <1>1, <1>2 DEF Laid
  <1>6. g \in [0 .. Len(clauses) -> Nat]
    BY <1>2, <1>5
  <1>7. g[0] = 0
    BY <1>1, <1>2 DEF Laid
  <1>8. ASSUME NEW k \in 1 .. Len(clauses)
        PROVE  g[k] = g[k - 1] + clauses[k].marks
    <2>1. CASE k \in 1 .. N
      <3>1. g[k] = Len(F[k]) /\ g[k - 1] = Len(F[k - 1])
        BY <1>2, <2>1
      <3>2. Len(F[k]) = Len(F[k - 1]) + Len(Reads!Placeholders(o[k]))
        BY <1>1, <1>2, <2>1 DEF Laid
      <3>3. QED
        BY <1>4, <2>1, <3>1, <3>2
    <2>2. CASE k = N + 1
      <3>1. g[k] = Len(F[N]) + 1 /\ g[k - 1] = Len(F[N])
        BY <1>2, <2>2
      <3>2. clauses[k].marks = 1
        BY <1>1, <1>2, <2>2 DEF Begins
      <3>3. QED
        BY <3>1, <3>2
    <2>3. QED
      BY <1>2, <2>1, <2>2
  <1>9. \A k \in 0 .. Len(clauses) : g[k] = IF k <= N THEN Len(F[k]) ELSE Len(F[N]) + 1
    OBVIOUS
  <1> HIDE DEF g
  <1>10. Reads!MarksBefore(clauses, i) = g[i - 1]
    BY <1>2, <1>6, <1>7, <1>8, MarksAre
  <1>11. i - 1 \in 0 .. Len(clauses) /\ (i <= N + 1 => i - 1 <= N) /\ (i = N + 2 => ~(i - 1 <= N))
    BY <1>2
  <1>12. QED
    BY <1>9, <1>10, <1>11

Value == Nat \cup {None}

(* Texts convert to numbers or to nothing. *)
LEMMA ConvertType ==
  ASSUME NEW text
  PROVE  Reads!convert_value(text).value \in Value
  BY DEF Reads!convert_value, Reads!Number, Value

(* The parameters of a filter. *)
LEMMA ParamsType ==
  ASSUME NEW ask, NEW F, Laid(F, ask.query), NEW N, N = Len(CondOrder(ask.query))
  PROVE  /\ Filter(ask).params \in Seq(Value) /\ Len(Filter(ask).params) = Len(F[N])
         /\ \A i \in 1 .. Len(F[N]) :
              Filter(ask).params[i] = Reads!convert_value(F[N][i]).value
  <1>1. PICK t : t = F[N]
    OBVIOUS
  <1>2. t \in Seq(STRING) /\ Len(t) \in Nat
    <2>1. N \in 0 .. N
      BY DEF Laid
    <2>2. QED
      BY <1>1, <2>1 DEF Laid
  <1>3. Filter(ask).params = ParamsOf(t)
    <2>1. Filter(ask).params = ParamsOf(Texts(ask.query))
      BY FilterIs
    <2>2. Texts(ask.query) = t
      BY <1>1 DEF Laid
    <2>3. QED
      BY <2>1, <2>2
  <1>4. DOMAIN t = 1 .. Len(t)
    BY <1>2
  <1>5. ParamsOf(t) = [i \in 1 .. Len(t) |-> Reads!convert_value(t[i]).value]
    BY <1>4 DEF ParamsOf
  <1>6. ParamsOf(t) \in [1 .. Len(t) -> Value]
    BY <1>5, ConvertType
  <1>7. ParamsOf(t) \in Seq(Value) /\ Len(ParamsOf(t)) = Len(t)
    BY <1>2, <1>6
  <1>8. QED
    BY <1>1, <1>3, <1>5, <1>7

(* A statement that begins with the filter's clauses and parameters. *)
Begun(sql, ask) ==
  /\ Begins(sql.clauses, ask)
  /\ sql.params \in Seq(Value)
  /\ Len(Filter(ask).params) <= Len(sql.params)
  /\ \A i \in 1 .. Len(Filter(ask).params) : sql.params[i] = Filter(ask).params[i]

(* The parameters of a clause are the values of its condition. *)
LEMMA ArgsAt ==
  ASSUME NEW ask, NEW F, Laid(F, ask.query), NEW o, o = CondOrder(ask.query),
         NEW sql, Begun(sql, ask), NEW k \in 1 .. Len(o), QueryOK(ask.query)
  PROVE  SubSeq(sql.params, Len(F[k - 1]) + 1, Len(F[k - 1]) + Len(Reads!Placeholders(o[k])))
           = Args(o[k])
  <1>1. PICK a, n, q, p, w : /\ a = Len(F[k - 1]) /\ n = Len(Reads!Placeholders(o[k]))
                             /\ q = sql.params /\ p = Reads!Placeholders(o[k]) /\ w = Len(F[Len(o)])
    OBVIOUS
  <1>2. Len(o) \in Nat /\ k - 1 \in 0 .. Len(o) /\ k \in 0 .. Len(o) /\ Len(o) \in 0 .. Len(o)
    BY DEF Laid
  <1>3. a \in Nat /\ w \in Nat
    BY <1>1, <1>2 DEF Laid
  <1>4. p \in Seq(STRING) /\ n \in Nat /\ n = Len(p) /\ DOMAIN p = 1 .. n
    <2>1. p \in Seq(STRING)
      BY <1>1 DEF Laid
    <2>2. QED
      BY <1>1, <2>1
  <1>5. a + n <= w
    <2>1. Len(F[k]) = a + n /\ Len(F[k]) <= w
      BY <1>1 DEF Laid
    <2>2. QED
      BY <2>1
  <1>6. q \in Seq(Value) /\ Len(q) \in Nat /\ w <= Len(q)
    <2>1. q \in Seq(Value)
      BY <1>1 DEF Begun
    <2>2. Len(Filter(ask).params) = w
      BY <1>1, ParamsType
    <2>3. QED
      BY <1>1, <2>1, <2>2 DEF Begun
  <1>7. \A j \in 1 .. n : a + j \in 1 .. w /\ q[a + j] = Reads!convert_value(p[j]).value
    <2> TAKE j \in 1 .. n
    <2>1. a + j \in 1 .. w
      BY <1>3, <1>4, <1>5
    <2>2. Len(Filter(ask).params) = w
      BY <1>1, ParamsType
    <2>3. q[a + j] = Filter(ask).params[a + j]
      BY <1>1, <2>1, <2>2 DEF Begun
    <2>4. Filter(ask).params[a + j] = Reads!convert_value(F[Len(o)][a + j]).value
      <3>1. PICK N, i : N = Len(o) /\ i = a + j
        OBVIOUS
      <3>2. N = Len(CondOrder(ask.query)) /\ i \in 1 .. Len(F[N])
        BY <1>1, <2>1, <3>1
      <3>3. \A x \in 1 .. Len(F[N]) : Filter(ask).params[x] = Reads!convert_value(F[N][x]).value
        BY <3>2, ParamsType
      <3>4. Filter(ask).params[i] = Reads!convert_value(F[N][i]).value
        BY <3>2, <3>3, Zenon
      <3>5. QED
        BY <3>1, <3>4, Zenon
    <2>5. F[Len(o)][a + j] = p[j]
      BY <1>1 DEF Laid
    <2>6. QED
      BY <2>1, <2>3, <2>4, <2>5
  <1>8. PICK s : s = SubSeq(q, a + 1, a + n)
    OBVIOUS
  <1>9. s \in Seq(Value) /\ Len(s) = n /\ \A j \in 1 .. n : s[j] = q[a + j]
    <2>1. \A i \in a + 1 .. a + n : q[i] \in Value
      BY <1>3, <1>4, <1>5, <1>6
    <2>2. a + 1 \in Int /\ a + n \in Int /\ (IF a + 1 <= a + n THEN a + n - (a + 1) + 1 ELSE 0) = n
          /\ a + n - (a + 1) + 1 = n /\ \A j \in 1 .. n : a + 1 + j - 1 = a + j
      BY <1>3, <1>4
    <2>3. PICK x, y : x = a + 1 /\ y = a + n
      OBVIOUS
    <2>4. /\ SubSeq(q, x, y) \in Seq(Value)
          /\ Len(SubSeq(q, x, y)) = IF x <= y THEN y - x + 1 ELSE 0
          /\ \A i \in 1 .. y - x + 1 : SubSeq(q, x, y)[i] = q[x + i - 1]
      BY <2>1, <2>2, <2>3, SubSeqProperties
    <2>5. s = SubSeq(q, x, y)
      BY <1>8, <2>3
    <2>6. /\ (IF x <= y THEN y - x + 1 ELSE 0) = n /\ y - x + 1 = n
          /\ \A j \in 1 .. n : x + j - 1 = a + j
      BY <1>3, <1>4, <2>3
    <2>7. s \in Seq(Value) /\ Len(s) = n
      BY <2>4, <2>5, <2>6
    <2>8. \A j \in 1 .. n : s[j] = q[x + j - 1]
      BY <2>4, <2>5, <2>6
    <2>9. QED
      BY <2>6, <2>7, <2>8
  <1>10. s = [j \in 1 .. n |-> s[j]]
    BY <1>4, <1>9
  <1>11. Args(o[k]) = [j \in 1 .. n |-> Reads!convert_value(p[j]).value]
    BY <1>1, <1>4 DEF Args
  <1>12. s = Args(o[k])
    BY <1>7, <1>9, <1>10, <1>11
  <1>13. QED
    BY <1>1, <1>8, <1>12

(* The clause that follows those of the filter. *)
Extra(sql, n, row) ==
  LET c == sql.clauses[Len(sql.clauses)] IN
  Reads!Holds(c.operator, SubSeq(sql.params, n + 1, n + 1), row[c.column])

(* WHERE holds when every condition does, and the clause that follows. *)
LEMMA WhereIs ==
  ASSUME NEW ask, QueryOK(ask.query), NEW F, Laid(F, ask.query),
         NEW o, o = CondOrder(ask.query), NEW sql, Begun(sql, ask),
         DOMAIN sql.clauses = 1 .. Len(sql.clauses), NEW row
  PROVE  Reads!Where(sql, row) <=>
           /\ \A c \in KnownConditions(ask.query) : CondHolds(c, row)
           /\ Len(sql.clauses) = Len(o) + 1 => Extra(sql, Len(F[Len(o)]), row)
  <1>1. PICK C, M, N : C = sql.clauses /\ M = Len(C) /\ N = Len(o)
    OBVIOUS
  <1>2. N \in Nat /\ M \in {N, N + 1} /\ DOMAIN C = 1 .. M
    BY <1>1 DEF Laid, Begun, Begins
  <1>3. Listed(o, KnownConditions(ask.query)) /\ DOMAIN o = 1 .. N
    BY <1>1, CondOrderIs DEF Listed
  <1> DEFINE H(i) == Reads!Holds(C[i].operator,
                       SubSeq(sql.params, Reads!MarksBefore(C, i) + 1,
                              Reads!MarksBefore(C, i) + C[i].marks), row[C[i].column])
  <1>4. Reads!Where(sql, row) <=> \A i \in 1 .. M : H(i)
    BY <1>1, <1>2 DEF Reads!Where
  <1>5. ASSUME NEW k \in 1 .. N
        PROVE  H(k) <=> CondHolds(o[k], row)
    <2>1. C[k] = ClausesOf(o)[k]
      <3>1. C[k] = Filter(ask).clauses[k]
        BY <1>1 DEF Begun, Begins
      <3>2. QED
        BY <3>1, FilterIs
    <2>2. /\ C[k].column = o[k].column /\ C[k].operator = o[k].operator
          /\ C[k].marks = Len(Reads!Placeholders(o[k]))
      BY <1>3, <2>1 DEF ClausesOf
    <2>3. Reads!MarksBefore(C, k) = Len(F[k - 1])
      <3>1. k \in 1 .. Len(C) + 1 /\ k <= N + 1 /\ Begins(C, ask)
        BY <1>1, <1>2 DEF Begun
      <3>2. QED
        BY <1>1, <3>1, StatementMarks
    <2>4. SubSeq(sql.params, Len(F[k - 1]) + 1, Len(F[k - 1]) + Len(Reads!Placeholders(o[k])))
            = Args(o[k])
      BY <1>1, ArgsAt, ZenonT(30)
    <2>5. QED
      BY <2>2, <2>3, <2>4 DEF CondHolds
  <1>6. ASSUME M = N + 1
        PROVE  H(M) <=> Extra(sql, Len(F[N]), row)
    <2>1. Reads!MarksBefore(C, M) = Len(F[N])
      <3>1. M \in 1 .. Len(C) + 1 /\ M <= N + 1 /\ Begins(C, ask) /\ M - 1 = N
        BY <1>1, <1>2, <1>6 DEF Begun
      <3>2. QED
        BY <1>1, <3>1, StatementMarks
    <2>2. C[M].marks = 1
      BY <1>1, <1>6 DEF Begun, Begins
    <2>3. QED
      BY <1>1, <2>1, <2>2 DEF Extra
  <1>7. (\A i \in 1 .. M : H(i)) <=> (\A k \in 1 .. N : H(k)) /\ (M = N + 1 => H(M))
    BY <1>2
  <1>8. (\A k \in 1 .. N : CondHolds(o[k], row)) <=> \A c \in KnownConditions(ask.query) : CondHolds(c, row)
    <2>1. \A k \in 1 .. N : o[k] \in KnownConditions(ask.query)
      BY <1>1, <1>3 DEF Listed
    <2>2. \A c \in KnownConditions(ask.query) : \E k \in 1 .. N : o[k] = c
      BY <1>1, <1>3 DEF Listed
    <2>3. QED
      BY <2>1, <2>2
  <1> HIDE DEF H
  <1>9. QED
    BY <1>1, <1>4, <1>5, <1>6, <1>7, <1>8

(* What a query string asks of a row. *)
Asked(ask, row) == \A c \in KnownConditions(ask.query) : CondHolds(c, row)

(* The operator and the values of a key, as the query string has them. *)
PlainOperator(query, k) ==
  CASE k[2] = "" -> "in"
    [] k[2] = "null" -> IF query[k][1] = "true" THEN "is_null" ELSE "is_not_null"
    [] OTHER -> k[2]

PlainArgs(query, k) ==
  [i \in IF k[2] = "" THEN DOMAIN query[k] ELSE {1} |-> Reads!convert_value(query[k][i]).value]

(* A single value. *)
LEMMA OneArg ==
  ASSUME NEW c, NEW x, Reads!Placeholders(c) = <<x>>
  PROVE  Args(c) = [i \in {1} |-> Reads!convert_value(x).value]
  <1>1. PICK p : p = <<x>>
    OBVIOUS
  <1>2. DOMAIN p = {1} /\ p[1] = x
    BY <1>1
  <1>3. Args(c) = [i \in DOMAIN p |-> Reads!convert_value(p[i]).value]
    BY <1>1 DEF Args
  <1>4. QED
    BY <1>2, <1>3

(* A condition says what its key says. *)
LEMMA KeyHolds ==
  ASSUME NEW query, QueryOK(query), NEW k \in FilterKeys(query), NEW row
  PROVE  CondHolds(KeyCond(query, k), row) <=>
           Reads!Holds(PlainOperator(query, k), PlainArgs(query, k), row[k[1]])
  <1>1. PICK c, t, v : c = KeyCond(query, k) /\ t = query[k] /\ v = row[k[1]]
    OBVIOUS
  <1>2. c.column = k[1] /\ c.operator = KeyOperator(query, k) /\ c.values = t
    BY <1>1 DEF KeyCond
  <1>3. CondHolds(c, row) <=> Reads!Holds(KeyOperator(query, k), Args(c), v)
    BY <1>1, <1>2 DEF CondHolds
  <1>4. k \in DOMAIN query /\ t \in Seq(STRING) /\ Len(t) \in Nat /\ Len(t) >= 1 /\ DOMAIN t = 1 .. Len(t)
    <2>1. k \in DOMAIN query
      BY DEF FilterKeys
    <2>2. t \in Seq(STRING) /\ Len(t) \in Nat /\ Len(t) >= 1
      BY <1>1, <2>1 DEF QueryOK
    <2>3. QED
      BY <2>1, <2>2, LenProperties
  <1>5. k[2] \in {"", "ne", "gt", "gte", "lt", "lte", "like", "null"}
    BY DEF FilterKeys, Reads!Operators
  <1>6. CASE k[2] = ""
    <2>1. PlainOperator(query, k) = "in"
      BY <1>6 DEF PlainOperator
    <2>2. PlainArgs(query, k) = [i \in DOMAIN t |-> Reads!convert_value(t[i]).value]
      BY <1>1, <1>6 DEF PlainArgs
    <2>3. CASE Len(t) > 1
      <3>1. KeyOperator(query, k) = "in"
        BY <1>1, <1>6, <2>3 DEF KeyOperator
      <3>2. Reads!Placeholders(c) = t
        BY <1>2, <3>1 DEF Reads!Placeholders
      <3>3. Args(c) = PlainArgs(query, k)
        BY <2>2, <3>2 DEF Args
      <3>4. QED
        BY <1>1, <1>3, <2>1, <3>1, <3>3
    <2>4. CASE ~(Len(t) > 1)
      <3>1. KeyOperator(query, k) = "eq"
        BY <1>1, <1>6, <2>4 DEF KeyOperator
      <3>2. Reads!Placeholders(c) = <<t[1]>>
        BY <1>2, <3>1 DEF Reads!Placeholders
      <3>3. DOMAIN t = {1}
        <4>1. Len(t) = 1
          BY <1>4, <2>4
        <4>2. 1 .. 1 = {1}
          OBVIOUS
        <4>3. QED
          BY <1>4, <4>1, <4>2
      <3>4. Args(c) = [i \in {1} |-> Reads!convert_value(t[1]).value]
        BY <3>2, OneArg
      <3>5. Args(c) = PlainArgs(query, k)
        BY <2>2, <3>3, <3>4
      <3>6. \A A : Reads!Holds("eq", A, v) <=> Reads!Holds("in", A, v)
        BY DEF Reads!Holds
      <3>7. QED
        BY <1>1, <1>3, <2>1, <3>1, <3>5, <3>6
    <2>5. QED
      BY <2>3, <2>4
  <1>7. CASE k[2] = "null"
    <2>1. /\ PlainOperator(query, k) = KeyOperator(query, k)
          /\ PlainOperator(query, k) \in {"is_null", "is_not_null"}
      BY <1>7 DEF PlainOperator, KeyOperator
    <2>2. \A op \in {"is_null", "is_not_null"} : \A A, B :
            Reads!Holds(op, A, v) <=> Reads!Holds(op, B, v)
      <3>1. \A A : Reads!Holds("is_null", A, v) <=> v = None
        BY DEF Reads!Holds
      <3>2. \A A : Reads!Holds("is_not_null", A, v) <=> v # None
        BY DEF Reads!Holds
      <3>3. QED
        BY <3>1, <3>2
    <2>3. QED
      BY <1>1, <1>3, <2>1, <2>2
  <1>8. CASE k[2] \in {"ne", "gt", "gte", "lt", "lte", "like"}
    <2>1. PlainOperator(query, k) = k[2] /\ KeyOperator(query, k) = k[2]
      BY <1>8 DEF PlainOperator, KeyOperator
    <2>2. Reads!Placeholders(c) = <<t[1]>>
      BY <1>2, <1>8, <2>1 DEF Reads!Placeholders
    <2>3. Args(c) = [i \in {1} |-> Reads!convert_value(t[1]).value]
      BY <2>2, OneArg
    <2>4. PlainArgs(query, k) = [i \in {1} |-> Reads!convert_value(t[i]).value]
      <3>1. k[2] # ""
        BY <1>8
      <3>2. QED
        BY <1>1, <3>1 DEF PlainArgs
    <2>5. Args(c) = PlainArgs(query, k)
      BY <2>3, <2>4
    <2>6. QED
      BY <1>1, <1>3, <2>1, <2>5
  <1>9. QED
    BY <1>5, <1>6, <1>7, <1>8

(* Both readings of a query string agree. *)
LEMMA WantedIs ==
  ASSUME QueryOK(walk.call.query), NEW row
  PROVE  Reads!Wanted(row) <=> Asked(walk.call, row)
  <1>1. PICK q : q = walk.call.query
    OBVIOUS
  <1>2. Reads!Wanted(row) <=>
          \A k \in DOMAIN q : k[1] \in {"id", "v"} /\ k[2] \in Reads!Operators \cup {""} =>
             Reads!Holds(PlainOperator(q, k), PlainArgs(q, k), row[k[1]])
    BY <1>1, Zenon DEF Reads!Wanted, PlainOperator, PlainArgs
  <1>3. Reads!Wanted(row) <=>
          \A k \in FilterKeys(q) : Reads!Holds(PlainOperator(q, k), PlainArgs(q, k), row[k[1]])
    BY <1>2 DEF FilterKeys, Fields
  <1>4. Reads!Wanted(row) <=> \A k \in FilterKeys(q) : CondHolds(KeyCond(q, k), row)
    BY <1>1, <1>3, KeyHolds
  <1>5. QED
    BY <1>1, <1>4, KnownIs DEF Asked

-----------------------------------------------------------------------------
(* What a statement returns. *)

(* The rows of T in order. *)
Found(T, ord) ==
  CHOOSE s \in Reads!SetToSeqs(T) :
    \A i, j \in DOMAIN s : i < j => ~Reads!Before(ord, s[j], s[i])

InOrder(s, ord) == \A i, j \in 1 .. Len(s) : i < j => ~Reads!Before(ord, s[j], s[i])

(* Tables are finite. *)
LEMMA RowsFinite == IsFiniteSet(Rows)
  BY ServicesAssumption DEF Reads!QueriesAssumption, Reads!IsFiniteSet, IsFiniteSet

(* Found has every row once, in order. *)
LEMMA FoundIs ==
  ASSUME NEW T \in SUBSET Rows, NEW ord \in OrderType
  PROVE  Listed(Found(T, ord), T) /\ InOrder(Found(T, ord), ord)
  <1>1. IsFiniteSet(T)
    BY RowsFinite, FS_Subset
  <1> DEFINE R == RowsBefore(ord)
             Good(s) == \A i, j \in DOMAIN s : i < j => ~Reads!Before(ord, s[j], s[i])
  <1>2. Precedence(R, T)
    BY RowsBeforeIs DEF Precedence
  <1>3. \A x, y \in T : <<x, y>> \in R <=> Reads!Before(ord, x, y)
    BY DEF RowsBefore
  <1> HIDE DEF R
  <1>4. PICK s : Listed(s, T) /\ Ordered(s, R)
    BY <1>1, <1>2, SortedExists
  <1>5. s \in Reads!SetToSeqs(T)
    BY <1>1, <1>4, SetToSeqsIs
  <1>6. Good(s)
    <2>1. DOMAIN s = 1 .. Len(s) /\ \A i \in 1 .. Len(s) : s[i] \in T
      BY <1>4 DEF Listed
    <2>2. QED
      BY <1>3, <1>4, <2>1 DEF Ordered
  <1> HIDE DEF Good
  <1>7. PICK c : c = CHOOSE t \in Reads!SetToSeqs(T) : Good(t)
    OBVIOUS
  <1>8. c \in Reads!SetToSeqs(T) /\ Good(c)
    BY <1>5, <1>6, <1>7
  <1>9. c = Found(T, ord)
    BY <1>7 DEF Found, Good
  <1>10. Listed(c, T)
    BY <1>1, <1>8, SetToSeqsIs
  <1>11. DOMAIN c = 1 .. Len(c)
    BY <1>10 DEF Listed
  <1>12. InOrder(c, ord)
    BY <1>8, <1>11 DEF Good, InOrder
  <1>13. QED
    BY <1>9, <1>10, <1>12

(* The sort of a query string names columns. *)
LEMMA SortClauseType ==
  ASSUME NEW ask \in QueryCalls
  PROVE  Reads!sort_clause(ask.sort) \in OrderType
  <1>1. PICK s : s = ask.sort
    OBVIOUS
  <1>2. s \in Seq([field : STRING, desc : BOOLEAN])
    BY <1>1, ServicesAssumption DEF Reads!QueriesAssumption
  <1>3. DOMAIN s = 1 .. Len(s) /\ Len(s) \in Nat
    BY <1>2
  <1>4. PICK T : T = [field : STRING, desc : BOOLEAN]
    OBVIOUS
  <1>5. \A i \in DOMAIN s : s[i] \in T
    <2>1. s \in Seq(T)
      BY <1>2, <1>4, Zenon
    <2>2. QED
      BY <1>3, <2>1, ElementOfSeq
  <1> DEFINE places == {i \in DOMAIN s : /\ s[i].field \in Reads!FilterSchema.sort_fields
                                         /\ \A j \in 1 .. i - 1 : s[j].field # s[i].field}
             Good(t) == \A i, j \in DOMAIN t : i < j => ~(t[j] < t[i])
             o == CHOOSE t \in Reads!SetToSeqs(places) : Good(t)
  <1>6. Reads!sort_clause(s) = [i \in DOMAIN o |-> s[o[i]]]
    BY Zenon DEF Reads!sort_clause, Reads!SortedBy
  <1>7. places \subseteq DOMAIN s /\ \A i \in places : s[i].field = "v"
    BY DEF Reads!FilterSchema
  <1>8. IsFiniteSet(places)
    <2>1. IsFiniteSet(1 .. Len(s))
      BY <1>3, FS_Interval
    <2>2. QED
      BY <1>3, <1>7, <2>1, FS_Subset
  <1>9. places \subseteq Nat
    BY <1>3, <1>7
  <1> HIDE DEF places
  <1> DEFINE R == {p \in places \X places : p[1] < p[2]}
  <1>10. \A x, y \in places : <<x, y>> \in R <=> x < y
    OBVIOUS
  <1>11. Precedence(R, places)
    <2>1. \A x, y, z \in Nat : ~(x < x) /\ (x < y /\ y < z => x < z)
      OBVIOUS
    <2>2. QED
      BY <1>9, <1>10, <2>1 DEF Precedence
  <1> HIDE DEF R
  <1>12. PICK t : Listed(t, places) /\ Ordered(t, R)
    BY <1>8, <1>11, SortedExists
  <1>13. t \in Reads!SetToSeqs(places)
    BY <1>8, <1>12, SetToSeqsIs
  <1>14. Good(t)
    <2>1. DOMAIN t = 1 .. Len(t) /\ \A i \in 1 .. Len(t) : t[i] \in places
      BY <1>12 DEF Listed
    <2>2. QED
      BY <1>10, <1>12, <2>1 DEF Ordered
  <1> HIDE DEF Good
  <1>15. o \in Reads!SetToSeqs(places)
    BY <1>13, <1>14
  <1> HIDE DEF o
  <1>16. Listed(o, places)
    BY <1>8, <1>15, SetToSeqsIs
  <1>17. o \in Seq(places) /\ DOMAIN o = 1 .. Len(o) /\ Len(o) \in Nat
    BY <1>16, LenProperties DEF Listed
  <1>18. \A i \in 1 .. Len(o) : o[i] \in places
    BY <1>17, ElementOfSeq
  <1>19. PICK U : U = [field : Fields, desc : BOOLEAN]
    OBVIOUS
  <1>20. \A i \in places : s[i] \in U
    <2> TAKE i \in places
    <2>1. s[i] \in T /\ s[i].field = "v"
      BY <1>5, <1>7
    <2>2. s[i] = [field |-> s[i].field, desc |-> s[i].desc] /\ s[i].desc \in BOOLEAN
      BY <1>4, <2>1
    <2>3. QED
      BY <1>19, <2>1, <2>2 DEF Fields
  <1>21. Reads!sort_clause(s) \in [1 .. Len(o) -> U]
    BY <1>6, <1>17, <1>18, <1>20
  <1>22. Reads!sort_clause(s) \in Seq(U)
    BY <1>17, <1>21
  <1>23. QED
    BY <1>1, <1>19, <1>22, Zenon DEF OrderType

RowOrder(ask) == Reads!resolve_order(Filter(ask), ask.order_by)

(* Rows are ordered by columns. *)
LEMMA RowOrderType ==
  ASSUME NEW ask \in QueryCalls
  PROVE  RowOrder(ask) \in OrderType
  <1>1. ask.order_by \in OrderType
    BY ServicesAssumption DEF Reads!QueriesAssumption, OrderType, Fields
  <1>2. Filter(ask).sort_clause \in OrderType
    BY FilterIs, SortClauseType
  <1>3. RowOrder(ask) \in {Filter(ask).sort_clause, ask.order_by}
    BY DEF RowOrder, Reads!resolve_order
  <1>4. QED
    BY <1>1, <1>2, <1>3

(* The part of a sequence that LIMIT and OFFSET leave. *)
Cut(s, skip, take) ==
  SubSeq(s, skip + 1, IF skip + take < Len(s) THEN skip + take ELSE Len(s))

FoundBy(sql) == Found({r \in table : Reads!Where(sql, r)}, sql.order)

(* A statement returns a part of what it finds. *)
LEMMA ExecuteIs ==
  ASSUME NEW sql, NEW u, u = Reads!MarksBefore(sql.clauses, Len(sql.clauses) + 1)
  PROVE  Reads!Execute(sql) = Cut(FoundBy(sql), IF sql.limits = 2 THEN sql.params[u + 2] ELSE 0,
                                  IF sql.limits = 0 THEN Len(FoundBy(sql)) ELSE sql.params[u + 1])
  <1>1. FoundBy(sql) = Reads!SortedBy({r \in table : Reads!Where(sql, r)},
                                      LAMBDA r, s : Reads!Before(sql.order, r, s))
    BY Zenon DEF FoundBy, Found, Reads!SortedBy
  <1>2. QED
    BY <1>1, Zenon DEF Reads!Execute, Cut

(* Parameters that begin with the filter's. *)
Prefixed(P, ask) ==
  /\ Len(Filter(ask).params) <= Len(P)
  /\ \A i \in 1 .. Len(Filter(ask).params) : P[i] = Filter(ask).params[i]

(* The statement the builder makes of clauses and parameters. *)
Made(sql, C, P, ord, lim, ask) ==
  /\ sql.clauses = C /\ sql.order = ord /\ sql.limits = Len(lim)
  /\ Begun(sql, ask)
  /\ \A i \in 1 .. Len(lim) : sql.params[Len(P) + i] = lim[i]
  /\ \A i \in 1 .. Len(P) : sql.params[i] = P[i]

(* Made describes the statement. *)
LEMMA StatementIs ==
  ASSUME NEW ask, QueryOK(ask.query), NEW F, Laid(F, ask.query),
         NEW C, NEW P \in Seq(Value), NEW ord, NEW lim \in Seq(Value), Begins(C, ask),
         Prefixed(P, ask),
         NEW sql, sql = [clauses |-> C, params |-> P \o lim, order |-> ord, limits |-> Len(lim)]
  PROVE  Made(sql, C, P, ord, lim, ask)
  <1>1. PICK q, n : q = P \o lim /\ n = Len(lim)
    OBVIOUS
  <1>2. sql = [clauses |-> C, params |-> q, order |-> ord, limits |-> n]
    BY <1>1
  <1>3. sql.clauses = C /\ sql.order = ord /\ sql.limits = n /\ sql.params = q
    BY <1>2
  <1>4. /\ q \in Seq(Value) /\ Len(P) \in Nat /\ n \in Nat /\ Len(q) = Len(P) + n
        /\ \A i \in 1 .. Len(P) : q[i] = P[i]
        /\ \A i \in 1 .. n : q[Len(P) + i] = lim[i]
    <2>1. q \in Seq(Value) /\ Len(P) \in Nat /\ n \in Nat /\ Len(q) = Len(P) + n
      BY <1>1, ConcatProperties, LenProperties
    <2>2. QED
      BY <1>1, <2>1, ConcatIs
  <1>5. PICK m : m = Len(Filter(ask).params)
    OBVIOUS
  <1>6. m \in Nat /\ m <= Len(P)
    <2>1. Filter(ask).params \in Seq(Value)
      BY ParamsType
    <2>2. QED
      BY <1>5, <2>1, LenProperties DEF Prefixed
  <1>7. m <= Len(q) /\ \A i \in 1 .. m : i \in 1 .. Len(P)
    BY <1>4, <1>6
  <1>8. \A i \in 1 .. m : q[i] = Filter(ask).params[i]
    BY <1>4, <1>5, <1>7 DEF Prefixed
  <1>9. Begun(sql, ask)
    BY <1>3, <1>4, <1>5, <1>7, <1>8 DEF Begun
  <1>10. QED
    BY <1>1, <1>3, <1>4, <1>9 DEF Made

(* The rows of a table that a query string asks for. *)
Matching(T, ask) == {r \in T : Asked(ask, r)}

(* The clauses of a filter. *)
LEMMA FilterSeqs ==
  ASSUME NEW ask, QueryOK(ask.query)
  PROVE  LET o == CondOrder(ask.query)
             C == Filter(ask).clauses IN
         /\ DOMAIN C = 1 .. Len(o) /\ Len(C) = Len(o) /\ Len(o) \in Nat
         /\ Begins(C, ask)
  <1>1. PICK o : o = CondOrder(ask.query)
    OBVIOUS
  <1>2. DOMAIN o = 1 .. Len(o) /\ Len(o) \in Nat
    BY <1>1, CondOrderIs, LenProperties DEF Listed
  <1>3. PICK C : C = Filter(ask).clauses
    OBVIOUS
  <1>4. C = ClausesOf(o)
    BY <1>1, <1>3, FilterIs
  <1>5. C = [i \in 1 .. Len(o) |-> C[i]]
    BY <1>2, <1>4 DEF ClausesOf
  <1>6. DOMAIN C = 1 .. Len(o) /\ Len(C) = Len(o)
    BY <1>2, <1>5
  <1>7. Begins(C, ask)
    BY <1>1, <1>2, <1>3, <1>6 DEF Begins
  <1>8. QED
    BY <1>1, <1>2, <1>3, <1>6, <1>7

(* With the filter's clauses alone a statement finds what is asked for, and *)
(* its limits are the parameters that follow.                              *)
LEMMA PlainExecute ==
  ASSUME NEW ask, QueryOK(ask.query), NEW ord, NEW lim \in Seq(Value), Len(lim) \in 0 .. 2,
         NEW sql, sql = Reads!Statement(Reads!build_where(Filter(ask)), ord, lim)
  PROVE  Reads!Execute(sql) = Cut(Found(Matching(table, ask), ord), IF Len(lim) = 2 THEN lim[2] ELSE 0,
                                  IF Len(lim) = 0 THEN Len(Found(Matching(table, ask), ord)) ELSE lim[1])
  <1>1. PICK o, C, P : o = CondOrder(ask.query) /\ C = Filter(ask).clauses /\ P = Filter(ask).params
    OBVIOUS
  <1>2. PICK F : Laid(F, ask.query)
    BY LaidOut
  <1>3. PICK N : N = Len(o)
    OBVIOUS
  <1>4. DOMAIN C = 1 .. N /\ Len(C) = N /\ N \in Nat /\ Begins(C, ask)
    BY <1>1, <1>3, FilterSeqs
  <1>5. P \in Seq(Value) /\ Len(P) = Len(F[N]) /\ Len(P) \in Nat
    BY <1>1, <1>2, <1>3, ParamsType, LenProperties
  <1>6. sql = [clauses |-> C, params |-> P \o lim, order |-> ord, limits |-> Len(lim)]
    <2>1. PICK w : w = Reads!build_where(Filter(ask))
      OBVIOUS
    <2>2. w.clauses = C /\ w.params = P
      BY <1>1, <2>1 DEF Reads!build_where
    <2>3. QED
      BY <2>1, <2>2, Zenon DEF Reads!Statement
  <1>7. Prefixed(P, ask)
    BY <1>1, <1>5 DEF Prefixed
  <1>8. /\ sql.clauses = C /\ sql.order = ord /\ sql.limits = Len(lim)
        /\ Begun(sql, ask)
        /\ \A i \in 1 .. Len(lim) : sql.params[Len(P) + i] = lim[i]
    <2>1. Made(sql, C, P, ord, lim, ask)
      BY <1>2, <1>4, <1>5, <1>6, <1>7, StatementIs
    <2>2. QED
      BY <2>1 DEF Made
  <1>9. Reads!MarksBefore(C, N + 1) = Len(P)
    <2>1. N + 1 \in 1 .. Len(C) + 1 /\ N + 1 <= N + 1 /\ N + 1 - 1 = N
      BY <1>4
    <2>2. QED
      BY <1>1, <1>2, <1>3, <1>4, <1>5, <2>1, StatementMarks
  <1>10. \A r : Reads!Where(sql, r) <=> Asked(ask, r)
    <2> TAKE r
    <2>1. DOMAIN sql.clauses = 1 .. Len(sql.clauses) /\ ~(Len(sql.clauses) = N + 1)
      BY <1>4, <1>8
    <2>2. QED
      BY <1>1, <1>2, <1>3, <1>8, <2>1, WhereIs DEF Asked
  <1>11. FoundBy(sql) = Found(Matching(table, ask), ord)
    <2>1. {r \in table : Reads!Where(sql, r)} = Matching(table, ask)
      BY <1>10 DEF Matching
    <2>2. QED
      BY <1>8, <2>1 DEF FoundBy
  <1>12. PICK u : u = Len(P)
    OBVIOUS
  <1>13. u = Reads!MarksBefore(sql.clauses, Len(sql.clauses) + 1)
    BY <1>4, <1>8, <1>9, <1>12
  <1>14. Reads!Execute(sql) = Cut(FoundBy(sql), IF sql.limits = 2 THEN sql.params[u + 2] ELSE 0,
                                  IF sql.limits = 0 THEN Len(FoundBy(sql)) ELSE sql.params[u + 1])
    BY <1>13, ExecuteIs
  <1>15. (Len(lim) = 2 => sql.params[u + 2] = lim[2]) /\ (Len(lim) # 0 => sql.params[u + 1] = lim[1])
    BY <1>8, <1>12
  <1>16. QED
    BY <1>8, <1>11, <1>14, <1>15

Beyond(ask, a, r) ==
  r[ask.col] # None /\ IF ask.desc THEN r[ask.col] < a ELSE r[ask.col] > a

CursorOrder(ask) == <<[field |-> ask.col, desc |-> ask.desc]>>

(* What a cursor looks at. *)
Ahead(T, ask, a) == {r \in T : Asked(ask, r) /\ (a # None => Beyond(ask, a, r))}

CursorSql(ask, a, per) == Reads!cursor_sql(Filter(ask), ask.col, ask.desc, a, per)

(* A single limit. *)
LEMMA OneLimit ==
  ASSUME NEW n \in Nat
  PROVE  \E lim \in Seq(Value) : lim = <<n>> /\ Len(lim) = 1 /\ lim[1] = n
  <1>1. n \in Value
    BY DEF Value
  <1>2. <<n>> \in Seq(Value) /\ Len(<<n>>) = 1 /\ <<n>>[1] = n
    BY <1>1
  <1>3. QED
    BY <1>2

(* The first page with a cursor. *)
LEMMA CursorStarts ==
  ASSUME NEW ask, QueryOK(ask.query), NEW per \in Nat
  PROVE  Reads!Execute(CursorSql(ask, None, per)) =
           Cut(Found(Ahead(table, ask, None), CursorOrder(ask)), 0, per + 1)
  <1>1. PICK lim \in Seq(Value) : lim = <<per + 1>> /\ Len(lim) = 1 /\ lim[1] = per + 1
    <2>1. per + 1 \in Nat
      OBVIOUS
    <2>2. QED
      BY <2>1, OneLimit
  <1>2. PICK sql : sql = CursorSql(ask, None, per)
    OBVIOUS
  <1>3. sql = Reads!Statement(Reads!build_where(Filter(ask)), CursorOrder(ask), lim)
    BY <1>1, <1>2, Zenon DEF CursorSql, Reads!cursor_sql, CursorOrder
  <1>4. PICK ord, s : ord = CursorOrder(ask) /\ s = Found(Matching(table, ask), ord)
    OBVIOUS
  <1>5. Reads!Execute(sql) = Cut(s, IF Len(lim) = 2 THEN lim[2] ELSE 0,
                                 IF Len(lim) = 0 THEN Len(s) ELSE lim[1])
    <2>1. Len(lim) \in 0 .. 2
      BY <1>1
    <2>2. QED
      BY <1>3, <1>4, <2>1, PlainExecute
  <1>6. Reads!Execute(sql) = Cut(s, 0, per + 1)
    BY <1>1, <1>5
  <1>7. Ahead(table, ask, None) = Matching(table, ask)
    BY DEF Ahead, Matching
  <1>8. QED
    BY <1>2, <1>4, <1>6, <1>7

(* The pages after: the value of the cursor is the parameter of the last clause. *)
LEMMA CursorGoesOn ==
  ASSUME NEW ask, QueryOK(ask.query), NEW a \in Nat, a # None, NEW per \in Nat
  PROVE  Reads!Execute(CursorSql(ask, a, per)) =
           Cut(Found(Ahead(table, ask, a), CursorOrder(ask)), 0, per + 1)
  <1>0. PICK lim \in Seq(Value) : lim = <<per + 1>> /\ Len(lim) = 1 /\ lim[1] = per + 1
    <2>1. per + 1 \in Nat
      OBVIOUS
    <2>2. QED
      BY <2>1, OneLimit
  <1>1. PICK o, C0, P0, ord : /\ o = CondOrder(ask.query) /\ C0 = Filter(ask).clauses
                              /\ P0 = Filter(ask).params /\ ord = CursorOrder(ask)
    OBVIOUS
  <1>2. PICK F : Laid(F, ask.query)
    BY LaidOut
  <1>3. PICK N : N = Len(o)
    OBVIOUS
  <1>4. DOMAIN C0 = 1 .. N /\ Len(C0) = N /\ N \in Nat /\ Begins(C0, ask)
    BY <1>1, <1>3, FilterSeqs
  <1>5. P0 \in Seq(Value) /\ Len(P0) = Len(F[N]) /\ Len(P0) \in Nat
    BY <1>1, <1>2, <1>3, ParamsType, LenProperties
  <1>6. PICK cond : cond = [column |-> ask.col, operator |-> IF ask.desc THEN "lt" ELSE "gt", marks |-> 1]
    OBVIOUS
  <1>7. PICK C, P : C = Append(C0, cond) /\ P = Append(P0, a)
    OBVIOUS
  <1>8. PICK sql : sql = CursorSql(ask, a, per)
    OBVIOUS
  <1>9. sql = [clauses |-> C, params |-> P \o lim, order |-> ord, limits |-> Len(lim)]
    <2>1. PICK w0 : w0 = Reads!build_where(Filter(ask))
      OBVIOUS
    <2>2. w0.clauses = C0 /\ w0.params = P0
      BY <1>1, <2>1 DEF Reads!build_where
    <2>3. PICK w : w = [clauses |-> C, params |-> P]
      OBVIOUS
    <2>4. w.clauses = C /\ w.params = P
      BY <2>3
    <2>5. w = IF a = None THEN w0 ELSE [clauses |-> Append(w0.clauses, cond),
                                        params |-> Append(w0.params, a)]
      BY <1>7, <2>2, <2>3
    <2>6. sql = Reads!Statement(w, ord, lim)
      BY <1>0, <1>1, <1>6, <1>8, <2>1, <2>5, Zenon DEF CursorSql, Reads!cursor_sql, CursorOrder
    <2>7. QED
      BY <2>4, <2>6, Zenon DEF Reads!Statement
  <1>10. /\ DOMAIN C = 1 .. N + 1 /\ Len(C) = N + 1 /\ C[N + 1] = cond
         /\ \A k \in 1 .. N : C[k] = C0[k]
    <2>1. PICK S : S = {C0[i] : i \in 1 .. N} \cup {cond}
      OBVIOUS
    <2>2. C0 \in [1 .. N -> S] /\ cond \in S
      <3>1. C0 = ClausesOf(o)
        BY <1>1, FilterIs
      <3>2. C0 = [i \in 1 .. N |-> C0[i]]
        BY <1>4, <3>1 DEF ClausesOf
      <3>3. QED
        BY <2>1, <3>2
    <2>3. C0 \in Seq(S)
      BY <1>4, <2>2
    <2>4. QED
      BY <1>4, <1>7, <2>2, <2>3, AppendProperties, LenProperties
  <1>11. Begins(C, ask)
    <2>1. cond.marks = 1
      BY <1>6
    <2>2. QED
      BY <1>1, <1>3, <1>10, <2>1 DEF Begins
  <1>12. /\ P \in Seq(Value) /\ Len(P) = Len(P0) + 1 /\ P[Len(P0) + 1] = a
         /\ \A k \in 1 .. Len(P0) : P[k] = P0[k]
    <2>1. a \in Value
      BY DEF Value
    <2>2. QED
      <3>1. P \in Seq(Value) /\ Len(P) = Len(P0) + 1 /\ P[Len(P0) + 1] = a
        BY <1>5, <1>7, <2>1, AppendProperties
      <3>2. \A k \in 1 .. Len(P0) : P[k] = P0[k]
        BY <1>5, <1>7, <2>1, AppendProperties
      <3>3. QED
        BY <3>1, <3>2
  <1>13. Prefixed(P, ask)
    BY <1>1, <1>5, <1>12 DEF Prefixed
  <1>14. Made(sql, C, P, ord, lim, ask)
    BY <1>2, <1>9, <1>11, <1>12, <1>13, StatementIs
  <1>15. /\ sql.clauses = C /\ sql.order = ord /\ sql.limits = 1
         /\ Begun(sql, ask) /\ sql.params[Len(P) + 1] = per + 1 /\ sql.params[Len(P0) + 1] = a
    <2>1. sql.clauses = C /\ sql.order = ord /\ sql.limits = 1 /\ Begun(sql, ask)
      BY <1>0, <1>14 DEF Made
    <2>2. 1 \in 1 .. Len(lim) /\ Len(P0) + 1 \in 1 .. Len(P)
      BY <1>0, <1>5, <1>12
    <2>3. sql.params[Len(P) + 1] = lim[1] /\ sql.params[Len(P0) + 1] = P[Len(P0) + 1]
      BY <1>14, <2>2 DEF Made
    <2>4. QED
      BY <1>0, <1>12, <2>1, <2>3
  <1>16. Reads!MarksBefore(C, N + 2) = Len(P)
    <2>1. N + 2 \in 1 .. Len(C) + 1 /\ N + 2 = N + 2 /\ Len(P) = Len(F[N]) + 1
      BY <1>4, <1>5, <1>10, <1>12
    <2>2. QED
      BY <1>1, <1>2, <1>3, <1>11, <2>1, StatementMarks
  <1>17. \A r : Extra(sql, Len(P0), r) <=> Beyond(ask, a, r)
    <2> TAKE r
    <2>1. PICK n, q, x : n = Len(P0) + 1 /\ q = sql.params /\ x = SubSeq(q, n, n)
      OBVIOUS
    <2>2. n \in Int /\ q[n] = a /\ a \in Value
      BY <1>5, <1>15, <2>1 DEF Value
    <2>3. x[1] = a
      <3>1. \A i \in n .. n : q[i] \in Value
        BY <2>2
      <3>2. 1 \in 1 .. n - n + 1 /\ n + 1 - 1 = n
        BY <2>2
      <3>3. SubSeq(q, n, n)[1] = q[n + 1 - 1]
        BY <2>2, <3>1, <3>2, SubSeqProperties
      <3>4. QED
        BY <2>1, <2>2, <3>2, <3>3
    <2>4. PICK v, op : v = r[ask.col] /\ op = IF ask.desc THEN "lt" ELSE "gt"
      OBVIOUS
    <2>5. cond.operator = op /\ cond.column = ask.col
      BY <1>6, <2>4
    <2>6. Extra(sql, Len(P0), r) <=> Reads!Holds(op, x, v)
      BY <1>10, <1>15, <2>1, <2>4, <2>5 DEF Extra
    <2>7. Reads!Holds("lt", x, v) <=> v # None /\ v < a
      BY <2>3 DEF Reads!Holds
    <2>8. Reads!Holds("gt", x, v) <=> v # None /\ v > a
      BY <2>3 DEF Reads!Holds
    <2>9. QED
      BY <2>4, <2>6, <2>7, <2>8 DEF Beyond
  <1>18. \A r : Reads!Where(sql, r) <=> Asked(ask, r) /\ Beyond(ask, a, r)
    <2> TAKE r
    <2>1. DOMAIN sql.clauses = 1 .. Len(sql.clauses) /\ Len(sql.clauses) = N + 1
      BY <1>10, <1>15
    <2>2. QED
      BY <1>1, <1>2, <1>3, <1>5, <1>15, <1>17, <2>1, WhereIs DEF Asked
  <1>19. FoundBy(sql) = Found(Ahead(table, ask, a), ord)
    <2>1. {r \in table : Reads!Where(sql, r)} = Ahead(table, ask, a)
      BY <1>18 DEF Ahead
    <2>2. QED
      BY <1>15, <2>1 DEF FoundBy
  <1>20. PICK u : u = Len(P)
    OBVIOUS
  <1>21. u = Reads!MarksBefore(sql.clauses, Len(sql.clauses) + 1)
    <2>1. Len(C) + 1 = N + 2
      BY <1>4, <1>10
    <2>2. QED
      BY <1>15, <1>16, <1>20, <2>1
  <1>22. Reads!Execute(sql) = Cut(FoundBy(sql), IF sql.limits = 2 THEN sql.params[u + 2] ELSE 0,
                                  IF sql.limits = 0 THEN Len(FoundBy(sql)) ELSE sql.params[u + 1])
    BY <1>21, ExecuteIs
  <1>23. Reads!Execute(sql) = Cut(FoundBy(sql), 0, per + 1)
    BY <1>15, <1>20, <1>22
  <1>24. QED
    BY <1>1, <1>8, <1>19, <1>23

(* c is the part of s after skip elements, take at most. *)
IsCut(c, S, s, skip, take) ==
  /\ c \in Seq(S) /\ Len(c) \in Nat
  /\ skip <= Len(s) => Len(c) = IF skip + take < Len(s) THEN take ELSE Len(s) - skip
  /\ \A i \in 1 .. Len(c) : skip + i \in 1 .. Len(s) /\ c[i] = s[skip + i]

(* The part that LIMIT and OFFSET leave. *)
LEMMA CutIs ==
  ASSUME NEW S, NEW s \in Seq(S), NEW skip \in Nat, NEW take \in Nat
  PROVE  IsCut(Cut(s, skip, take), S, s, skip, take)
  <1>1. PICK m, n, len, c : /\ m = skip + 1 /\ len = Len(s)
                            /\ n = (IF skip + take < len THEN skip + take ELSE len)
                            /\ c = SubSeq(s, m, n)
    OBVIOUS
  <1>2. c = Cut(s, skip, take)
    BY <1>1 DEF Cut
  <1>3. len \in Nat /\ m \in Int /\ n \in Int /\ m >= 1 /\ n <= len
    BY <1>1
  <1>4. \A i \in m .. n : s[i] \in S
    BY <1>1, <1>3
  <1>5. /\ c \in Seq(S)
        /\ Len(c) = IF m <= n THEN n - m + 1 ELSE 0
        /\ \A i \in 1 .. n - m + 1 : c[i] = s[m + i - 1]
    BY <1>1, <1>3, <1>4, SubSeqProperties
  <1>6. Len(c) \in Nat /\ (skip <= len => Len(c) = IF skip + take < len THEN take ELSE len - skip)
    BY <1>1, <1>3, <1>5
  <1>7. \A i \in 1 .. Len(c) : /\ i \in 1 .. n - m + 1 /\ skip + i \in 1 .. len
                               /\ m + i - 1 = skip + i
    <2> TAKE i \in 1 .. Len(c)
    <2>1. m <= n /\ Len(c) = n - m + 1
      BY <1>3, <1>5
    <2>2. QED
      BY <1>1, <1>3, <2>1
  <1>8. \A i \in 1 .. Len(c) : c[i] = s[skip + i]
    BY <1>5, <1>7
  <1>9. QED
    BY <1>1, <1>2, <1>5, <1>6, <1>7, <1>8 DEF IsCut

(* Without them it is everything. *)
LEMMA WholeCut ==
  ASSUME NEW S, NEW s \in Seq(S)
  PROVE  Cut(s, 0, Len(s)) = s
  <1>1. Len(s) \in Nat
    OBVIOUS
  <1>2. PICK c : c = Cut(s, 0, Len(s))
    OBVIOUS
  <1>3. IsCut(c, S, s, 0, Len(s))
    BY <1>1, <1>2, CutIs
  <1>4. c \in Seq(S) /\ Len(c) = Len(s) /\ \A i \in 1 .. Len(c) : c[i] = s[0 + i]
    BY <1>1, <1>3 DEF IsCut
  <1>5. \A i \in 1 .. Len(c) : c[i] = s[i]
    BY <1>1, <1>4
  <1>6. QED
    BY <1>2, <1>4, <1>5, SeqEqual

(* What is found. *)
LEMMA FoundType ==
  ASSUME NEW T \in SUBSET Rows, NEW ord \in OrderType
  PROVE  Found(T, ord) \in Seq(T)
  BY FoundIs DEF Listed

(* What matches. *)
LEMMA MatchingType ==
  ASSUME NEW T \in SUBSET Rows, NEW ask
  PROVE  Matching(T, ask) \in SUBSET Rows
  BY DEF Matching

(* Without limits a statement finds everything. *)
LEMMA AllExecute ==
  ASSUME NEW ask, QueryOK(ask.query), NEW ord \in OrderType, table \subseteq Rows
  PROVE  Reads!Execute(Reads!Statement(Reads!build_where(Filter(ask)), ord, <<>>))
           = Found(Matching(table, ask), ord)
  <1>1. PICK lim : lim = <<>>
    OBVIOUS
  <1>2. lim \in Seq(Value) /\ Len(lim) = 0
    BY <1>1
  <1>3. PICK s : s = Found(Matching(table, ask), ord)
    OBVIOUS
  <1>4. PICK sql : sql = Reads!Statement(Reads!build_where(Filter(ask)), ord, lim)
    OBVIOUS
  <1>5. Reads!Execute(sql) = Cut(s, IF Len(lim) = 2 THEN lim[2] ELSE 0,
                                 IF Len(lim) = 0 THEN Len(s) ELSE lim[1])
    <2>1. Len(lim) \in 0 .. 2
      BY <1>2
    <2>2. QED
      BY <1>2, <1>3, <1>4, <2>1, PlainExecute, ZenonT(30)
  <1>6. Reads!Execute(sql) = Cut(s, 0, Len(s))
    BY <1>2, <1>5
  <1>7. s \in Seq(Matching(table, ask))
    BY <1>3, FoundType, MatchingType
  <1>8. QED
    BY <1>1, <1>3, <1>4, <1>6, <1>7, WholeCut

(* No order is one. *)
LEMMA EmptyOrder == <<>> \in OrderType
  BY DEF OrderType

(* A page is the part at its offset. *)
LEMMA PageExecute ==
  ASSUME NEW ask, QueryOK(ask.query), NEW req, req.per_page \in Nat,
         Reads!offset(req) \in Nat
  PROVE  Reads!Execute(Reads!page_sql(Filter(ask), ask.order_by, req))
           = Cut(Found(Matching(table, ask), RowOrder(ask)), Reads!offset(req), req.per_page)
  <1>1. PICK x, y, lim : x = req.per_page /\ y = Reads!offset(req) /\ lim = <<x, y>>
    OBVIOUS
  <1>2. lim \in Seq(Value) /\ Len(lim) = 2 /\ lim[1] = x /\ lim[2] = y
    <2>1. x \in Value /\ y \in Value
      BY <1>1 DEF Value
    <2>2. QED
      BY <1>1, <2>1
  <1>3. PICK s, ord : ord = RowOrder(ask) /\ s = Found(Matching(table, ask), ord)
    OBVIOUS
  <1>4. PICK sql : sql = Reads!Statement(Reads!build_where(Filter(ask)), ord, lim)
    OBVIOUS
  <1>5. sql = Reads!page_sql(Filter(ask), ask.order_by, req)
    BY <1>1, <1>3, <1>4, Zenon DEF Reads!page_sql, RowOrder
  <1>6. Reads!Execute(sql) = Cut(s, IF Len(lim) = 2 THEN lim[2] ELSE 0,
                                 IF Len(lim) = 0 THEN Len(s) ELSE lim[1])
    <2>1. Len(lim) \in 0 .. 2
      BY <1>2
    <2>2. QED
      BY <1>2, <1>3, <1>4, <2>1, PlainExecute
  <1>7. Reads!Execute(sql) = Cut(s, y, x)
    BY <1>2, <1>6
  <1>8. QED
    BY <1>1, <1>3, <1>5, <1>7

-----------------------------------------------------------------------------
(* The invariant of a walk w over a table T. *)

PageReq == [page : Nat \ {0}, per_page : Nat \ {0}]

WalkType ==
  [at : {"count", "rows", "end"}, call : QueryCalls,
   filter : {Filter(ask) : ask \in QueryCalls}, req : PageReq \cup {None}, after : Value,
   total : Nat, seen : Seq(Rows), status : Nat, first : SUBSET Rows, touched : SUBSET Rows]

(* Rows that were there throughout. *)
KeptRows(w) == w.first \ w.touched

(* The values of the cursor's column are unique and always there. *)
GoodColumn(ask) ==
  \A r \in Rows : r[ask.col] # None /\ \A s \in Rows \ {r} : s[ask.col] # r[ask.col]

Seen(w, r) == \E i \in 1 .. Len(w.seen) : w.seen[i] = r

Once(s) == \A i, j \in 1 .. Len(s) : s[i] = s[j] => i = j

(* Nothing seen lies ahead of the cursor, and nothing kept behind it was   *)
(* missed.                                                                 *)
CursorOK(w) ==
  /\ Once(w.seen)
  /\ w.at # "count"
  /\ w.at = "rows" /\ w.after = None => Len(w.seen) = 0
  /\ w.at = "rows" /\ w.after # None =>
       /\ \A i \in 1 .. Len(w.seen) : ~Beyond(w.call, w.after, w.seen[i])
       /\ GoodColumn(w.call) =>
            \A r \in KeptRows(w) : Asked(w.call, r) /\ ~Beyond(w.call, w.after, r) => Seen(w, r)
  /\ w.at = "end" /\ w.status = 200 /\ GoodColumn(w.call) =>
       \A r \in KeptRows(w) : Asked(w.call, r) => Seen(w, r)

(* The pages so far are the beginning of what the query finds. *)
PagesOK(w, T) ==
  LET f == Found(Matching(T, w.call), RowOrder(w.call)) IN
  w.at \in {"count", "rows"} =>
    /\ Len(w.seen) = (w.req.page - 1) * w.req.per_page
    /\ Len(w.seen) <= Len(f)
    /\ \A i \in 1 .. Len(w.seen) : w.seen[i] = f[i]
    /\ w.at = "rows" => w.total = Len(f)

Whole(w) ==
  /\ w.at = "end" /\ w.status = 200
  /\ w.call.mode = "all" \/ (w.call.mode = "page" /\ w.touched = {})

WalkOK(w, T) ==
  /\ w \in WalkType /\ T \in SUBSET Rows
  /\ w.filter = Filter(w.call)
  /\ w.at \in {"count", "rows"} => w.req \in PageReq
  /\ KeptRows(w) \subseteq T
  /\ w.touched = {} => T = w.first
  /\ \A i \in 1 .. Len(w.seen) : Asked(w.call, w.seen[i])
  /\ w.call.mode = "cursor" => CursorOK(w)
  /\ w.call.mode = "page" /\ w.touched = {} => PagesOK(w, T)
  /\ Whole(w) => Listed(w.seen, Matching(T, w.call))

ReadsInv == table \in SUBSET Rows /\ (walk = Reads!Idle \/ WalkOK(walk, table))

-----------------------------------------------------------------------------
(* The property follows. *)

(* What is seen at most once is seen once or not at all. *)
LEMMA TimesIs ==
  ASSUME NEW r, walk.seen \in Seq(Rows), Once(walk.seen)
  PROVE  Reads!Times(r) = IF Seen(walk, r) THEN 1 ELSE 0
  <1>1. PICK s : s = walk.seen
    OBVIOUS
  <1>2. DOMAIN s = 1 .. Len(s)
    BY <1>1
  <1>3. PICK A : A = {i \in DOMAIN s : s[i] = r}
    OBVIOUS
  <1>4. Reads!Times(r) = Cardinality(A)
    <2>1. Reads!Cardinality(A) = Cardinality(A)
      BY DEF Cardinality, Reads!Cardinality
    <2>2. Reads!Times(r) = Reads!Cardinality(A)
      BY <1>1, <1>3 DEF Reads!Times
    <2>3. QED
      BY <2>1, <2>2
  <1>5. CASE Seen(walk, r)
    <2>1. PICK i \in 1 .. Len(s) : s[i] = r
      BY <1>1, <1>5 DEF Seen
    <2>2. A = {i}
      BY <1>1, <1>2, <1>3, <2>1 DEF Once
    <2>3. Cardinality({i}) = 1
      BY FS_Singleton
    <2>4. QED
      BY <1>4, <1>5, <2>2, <2>3
  <1>6. CASE ~Seen(walk, r)
    <2>1. A = {}
      BY <1>1, <1>2, <1>3, <1>6 DEF Seen
    <2>2. Cardinality({}) = 0
      BY FS_EmptySet
    <2>3. QED
      BY <1>4, <1>6, <2>1, <2>2
  <1>7. QED
    BY <1>5, <1>6

(* The fields of a walk. *)
LEMMA WalkFieldTypes ==
  ASSUME NEW w \in WalkType
  PROVE  /\ w.at \in {"count", "rows", "end"} /\ w.call \in QueryCalls
         /\ w.req \in PageReq \cup {None} /\ w.after \in Value /\ w.total \in Nat
         /\ w.seen \in Seq(Rows) /\ w.status \in Nat
         /\ w.first \in SUBSET Rows /\ w.touched \in SUBSET Rows
  BY DEF WalkType

(* The invariant implies the property. *)
LEMMA OnceSeen ==
  ASSUME ReadsInv
  PROVE  WalkSeesEachOnce
  <1> DEFINE K == {r \in walk.first \ walk.touched : Reads!Wanted(r)}
             P1 == \A i \in DOMAIN walk.seen : Reads!Wanted(walk.seen[i])
             P2 == walk.call.mode = "cursor" =>
                     /\ \A r \in K : Reads!Times(r) <= 1
                     /\ (\A r \in Rows : Reads!Unique(r) /\ r[walk.call.col] # None) =>
                          \A r \in K : Reads!Times(r) = 1
             P3 == walk.call.mode = "all" \/ (walk.call.mode = "page" /\ walk.touched = {}) =>
                     \A r \in K : Reads!Times(r) = 1
  <1>0. WalkSeesEachOnce <=> (walk.at = "end" /\ walk.status = 200 => P1 /\ P2 /\ P3)
    BY DEF WalkSeesEachOnce, Reads!WalkSeesEachOnce
  <1> SUFFICES ASSUME walk.at = "end", walk.status = 200
               PROVE  P1 /\ P2 /\ P3
    BY <1>0
  <1>1. WalkOK(walk, table)
    <2>1. walk # Reads!Idle
      BY DEF Reads!Idle
    <2>2. QED
      BY <2>1 DEF ReadsInv
  <1>2. walk \in WalkType
    BY <1>1 DEF WalkOK
  <1>3. walk.call \in QueryCalls /\ walk.seen \in Seq(Rows)
    BY <1>2, WalkFieldTypes
  <1>4. QueryOK(walk.call.query)
    BY <1>3, CallsOK
  <1>5. \A r : Reads!Wanted(r) <=> Asked(walk.call, r)
    BY <1>4, WantedIs
  <1>6. \A i \in DOMAIN walk.seen : Reads!Wanted(walk.seen[i])
    <2>1. DOMAIN walk.seen = 1 .. Len(walk.seen)
      BY <1>3
    <2>2. QED
      BY <1>1, <1>5, <2>1 DEF WalkOK
  <1>7. \A r \in K : r \in KeptRows(walk) /\ Asked(walk.call, r)
    BY <1>5 DEF KeptRows
  <1>8. ASSUME walk.call.mode = "cursor"
        PROVE  /\ \A r \in K : Reads!Times(r) <= 1
               /\ (\A r \in Rows : Reads!Unique(r) /\ r[walk.call.col] # None) =>
                    \A r \in K : Reads!Times(r) = 1
    <2>1. CursorOK(walk)
      BY <1>1, <1>8 DEF WalkOK
    <2>2. \A r \in K : Reads!Times(r) = IF Seen(walk, r) THEN 1 ELSE 0
      BY <1>3, <2>1, TimesIs DEF CursorOK
    <2>3. (\A r \in Rows : Reads!Unique(r) /\ r[walk.call.col] # None) => GoodColumn(walk.call)
      BY DEF GoodColumn, Reads!Unique
    <2>4. GoodColumn(walk.call) => \A r \in K : Seen(walk, r)
      BY <1>7, <2>1 DEF CursorOK
    <2>5. QED
      BY <2>2, <2>3, <2>4
  <1>9. ASSUME walk.call.mode = "all" \/ (walk.call.mode = "page" /\ walk.touched = {})
        PROVE  \A r \in K : Reads!Times(r) = 1
    <2>1. Listed(walk.seen, Matching(table, walk.call))
      BY <1>1, <1>9 DEF WalkOK, Whole
    <2>2. Once(walk.seen)
      BY <2>1 DEF Listed, Once
    <2>3. \A r \in K : Reads!Times(r) = IF Seen(walk, r) THEN 1 ELSE 0
      BY <1>3, <2>2, TimesIs
    <2>4. \A r \in K : r \in Matching(table, walk.call)
      BY <1>1, <1>7 DEF WalkOK, Matching
    <2>5. \A r \in K : Seen(walk, r)
      BY <2>1, <2>4 DEF Listed, Seen
    <2>6. QED
      BY <2>3, <2>5
  <1>10. QED
    BY <1>6, <1>8, <1>9

(* A walk starts at page one, with a page of at least one row. *)
LEMMA ClampType ==
  ASSUME NEW ask \in QueryCalls, ask.req # None
  PROVE  Reads!clamp(ask.req) \in PageReq /\ Reads!clamp(ask.req).page = 1
  <1>1. PICK x, y : x = ask.req.page /\ y = ask.req.per_page
    OBVIOUS
  <1>2. x \in Int /\ y \in Int /\ x <= 1
    BY <1>1, ServicesAssumption DEF Reads!QueriesAssumption
  <1>3. DefaultPerPage \in Nat \ {0} /\ MaxPerPage \in Nat \ {0}
    BY ServicesAssumption DEF Reads!QueriesAssumption
  <1>4. Reads!ClampPerPage(y) \in Nat \ {0}
    <2>1. /\ Reads!PaginationConfig.default_per_page = DefaultPerPage
          /\ Reads!PaginationConfig.max_per_page = MaxPerPage
      BY DEF Reads!PaginationConfig
    <2>2. PICK m : m = IF y < 1 THEN DefaultPerPage ELSE y
      OBVIOUS
    <2>3. m \in Nat \ {0}
      BY <1>2, <1>3, <2>2
    <2>4. Reads!ClampPerPage(y) = IF m > MaxPerPage THEN MaxPerPage ELSE m
      BY <2>1, <2>2 DEF Reads!ClampPerPage
    <2>5. QED
      BY <1>3, <2>3, <2>4
  <1>5. PICK p, n : p = (IF x < 1 THEN 1 ELSE x) /\ n = Reads!ClampPerPage(y)
    OBVIOUS
  <1>6. p = 1
    BY <1>2, <1>5
  <1>7. Reads!clamp(ask.req) = [page |-> p, per_page |-> n]
    BY <1>1, <1>5 DEF Reads!clamp
  <1>8. QED
    BY <1>4, <1>5, <1>6, <1>7 DEF PageReq

Rejected(ask) == ask.req = None \/ ~Filter(ask).ok

(* The invariant holds at the beginning of a walk. *)
LEMMA BeginOK ==
  ASSUME table \in SUBSET Rows, NEW ask \in QueryCalls, Reads!Begin(ask)
  PROVE  WalkOK(walk', table')
  <1>1. PICK e, st, q, a, f :
          /\ e = <<>> /\ st = (IF Rejected(ask) THEN 400 ELSE 200)
          /\ q = (IF ask.req = None THEN None ELSE Reads!clamp(ask.req))
          /\ a = (IF Rejected(ask) THEN "end" ELSE IF ask.mode = "page" THEN "count" ELSE "rows")
          /\ f = Filter(ask)
    OBVIOUS
  <1>w. PICK w : w = [at |-> a, call |-> ask, filter |-> f, req |-> q, after |-> None,
                  total |-> 0, seen |-> e, status |-> st, first |-> table, touched |-> {}]
    OBVIOUS
  <1>2. walk' = w /\ table' = table
    BY <1>1, <1>w, Zenon DEF Reads!Begin, Filter, Rejected
  <1>3. e \in Seq(Rows) /\ Len(e) = 0
    BY <1>1
  <1>4. q \in PageReq \cup {None} /\ (a # "end" => q \in PageReq /\ q.page = 1)
    BY <1>1, ClampType DEF Rejected
  <1>5. None \in Value /\ 0 \in Nat /\ st \in Nat /\ (a = "end" => st # 200)
        /\ a \in {"count", "rows", "end"} /\ (ask.mode = "page" => a # "rows")
        /\ (ask.mode # "page" => a # "count")
    BY <1>1 DEF Value
  <1>6. /\ w.at = a /\ w.call = ask /\ w.filter = f /\ w.req = q /\ w.after = None
        /\ w.total = 0 /\ w.seen = e /\ w.status = st /\ w.first = table /\ w.touched = {}
    BY <1>w
  <1>7. w \in WalkType
    <2>1. f \in {Filter(c) : c \in QueryCalls}
      BY <1>1
    <2>2. QED
      BY <1>w, <1>3, <1>4, <1>5, <2>1 DEF WalkType
  <1>8. KeptRows(w) \subseteq table
    BY <1>6 DEF KeptRows
  <1>9. \A i \in 1 .. Len(w.seen) : FALSE
    BY <1>3, <1>6
  <1>10. ask.mode = "cursor" => CursorOK(w)
    BY <1>3, <1>5, <1>6, <1>9 DEF CursorOK, Once
  <1>11. ask.mode = "page" => PagesOK(w, table)
    <2> SUFFICES ASSUME ask.mode = "page", w.at \in {"count", "rows"}
                 PROVE  PagesOK(w, table)
      BY DEF PagesOK
    <2>1. PICK s : s = Found(Matching(table, w.call), RowOrder(w.call))
      OBVIOUS
    <2>2. Len(s) \in Nat
      <3>1. s \in Seq(Matching(table, ask))
        BY <1>6, <2>1, FoundType, MatchingType, RowOrderType
      <3>2. QED
        BY <3>1, LenProperties
    <2>3. Len(w.seen) = (w.req.page - 1) * w.req.per_page
      <3>1. PICK n : n = w.req.per_page
        OBVIOUS
      <3>2. n \in Nat /\ w.req.page = 1
        BY <1>4, <1>6, <3>1 DEF PageReq
      <3>3. (1 - 1) * n = 0
        BY <3>2
      <3>4. QED
        BY <1>3, <1>6, <3>1, <3>2, <3>3
    <2>4. w.at # "rows" /\ Len(w.seen) <= Len(s)
      BY <1>3, <1>5, <1>6, <2>2
    <2>5. QED
      BY <1>9, <2>1, <2>3, <2>4 DEF PagesOK
  <1>12. w.filter = Filter(w.call) /\ (w.at \in {"count", "rows"} => w.req \in PageReq) /\ ~Whole(w)
    BY <1>1, <1>4, <1>5, <1>6 DEF Whole
  <1>13. WalkOK(w, table)
    BY <1>6, <1>7, <1>8, <1>9, <1>10, <1>11, <1>12 DEF WalkOK
  <1>14. QED
    BY <1>2, <1>13

-----------------------------------------------------------------------------

(* A step that changes where the walk is, its status, its count or what it *)
(* has seen.                                                               *)
LEMMA FailsOK ==
  ASSUME NEW T, NEW w, WalkOK(w, T), NEW st \in Nat \ {200}, NEW v,
         v = [w EXCEPT !.at = "end", !.status = st]
  PROVE  WalkOK(v, T)
  <1>1. w \in WalkType
    BY DEF WalkOK
  <1>2. v \in WalkType
    BY <1>1 DEF WalkType
  <1>3. /\ v.at = "end" /\ v.status = st /\ v.call = w.call /\ v.filter = w.filter
        /\ v.seen = w.seen /\ v.first = w.first /\ v.touched = w.touched /\ v.req = w.req
    BY <1>1 DEF WalkType
  <1>4. KeptRows(v) = KeptRows(w) /\ ~Whole(v)
    BY <1>3 DEF KeptRows, Whole
  <1>5. w.call.mode = "cursor" => CursorOK(v)
    <2> SUFFICES ASSUME w.call.mode = "cursor" PROVE CursorOK(v)
      OBVIOUS
    <2>1. Once(w.seen)
      BY DEF WalkOK, CursorOK
    <2>2. QED
      BY <1>3, <2>1 DEF CursorOK
  <1>6. PagesOK(v, T)
    BY <1>3 DEF PagesOK
  <1>7. QED
    BY <1>2, <1>3, <1>4, <1>5, <1>6 DEF WalkOK

(* A count is the number of rows that match. *)
LEMMA CountOK ==
  ASSUME NEW T, NEW w, WalkOK(w, T), w.at = "count", NEW n, NEW v,
         n = Len(Found(Matching(T, w.call), <<>>)),
         v = [w EXCEPT !.at = "rows", !.total = n]
  PROVE  WalkOK(v, T)
  <1>1. w \in WalkType /\ T \in SUBSET Rows
    BY DEF WalkOK
  <1>2. w.call \in QueryCalls
    BY <1>1, WalkFieldTypes
  <1>3. PICK M, s, e : /\ M = Matching(T, w.call) /\ e = <<>>
                       /\ s = Found(M, RowOrder(w.call))
    OBVIOUS
  <1>4. M \in SUBSET Rows /\ RowOrder(w.call) \in OrderType /\ e \in OrderType
    BY <1>1, <1>2, <1>3, MatchingType, RowOrderType, EmptyOrder
  <1>5. Listed(s, M) /\ Listed(Found(M, e), M)
    BY <1>3, <1>4, FoundIs
  <1>6. n = Len(s) /\ n \in Nat
    <2>1. n = Len(Found(M, e))
      BY <1>3
    <2>2. Len(s) = Cardinality(M) /\ Len(Found(M, e)) = Cardinality(M)
      BY <1>5, ListedLen
    <2>3. Len(s) \in Nat
      BY <1>5, LenProperties DEF Listed
    <2>4. QED
      BY <2>1, <2>2, <2>3
  <1>7. v \in WalkType
    BY <1>1, <1>6 DEF WalkType
  <1>8. /\ v.at = "rows" /\ v.total = n /\ v.status = w.status /\ v.call = w.call /\ v.filter = w.filter
        /\ v.seen = w.seen /\ v.first = w.first /\ v.touched = w.touched /\ v.req = w.req
    BY <1>1 DEF WalkType
  <1>9. KeptRows(v) = KeptRows(w) /\ ~Whole(v)
    BY <1>8 DEF KeptRows, Whole
  <1>10. w.call.mode # "cursor"
    BY DEF WalkOK, CursorOK
  <1>11. w.call.mode = "page" /\ w.touched = {} => PagesOK(v, T)
    <2> SUFFICES ASSUME w.call.mode = "page", w.touched = {} PROVE PagesOK(v, T)
      OBVIOUS
    <2>1. PagesOK(w, T)
      BY DEF WalkOK
    <2>2. QED
      BY <1>3, <1>6, <1>8, <2>1 DEF PagesOK
  <1>12. QED
    BY <1>7, <1>8, <1>9, <1>10, <1>11 DEF WalkOK

(* Another request touches a row. *)
LEMMA WriteOK ==
  ASSUME NEW T, NEW w, WalkOK(w, T), w.at # "end", NEW row \in Rows, NEW v, NEW U,
         U = (IF row \in T THEN T \ {row} ELSE T \cup {row}),
         v = [w EXCEPT !.touched = @ \cup {row}]
  PROVE  WalkOK(v, U)
  <1>1. w \in WalkType /\ T \in SUBSET Rows
    BY DEF WalkOK
  <1>2. v \in WalkType /\ U \in SUBSET Rows
    BY <1>1 DEF WalkType
  <1>3. /\ v.at = w.at /\ v.after = w.after /\ v.status = w.status /\ v.call = w.call
        /\ v.filter = w.filter /\ v.seen = w.seen /\ v.first = w.first /\ v.req = w.req
        /\ v.touched = w.touched \cup {row}
    BY <1>1 DEF WalkType
  <1>4. KeptRows(v) \subseteq KeptRows(w) /\ row \notin KeptRows(v) /\ v.touched # {} /\ ~Whole(v)
    BY <1>3 DEF KeptRows, Whole
  <1>5. KeptRows(v) \subseteq U
    <2>1. KeptRows(w) \subseteq T
      BY DEF WalkOK
    <2>2. QED
      BY <1>4, <2>1
  <1>6. w.call.mode = "cursor" => CursorOK(v)
    <2> SUFFICES ASSUME w.call.mode = "cursor" PROVE CursorOK(v)
      OBVIOUS
    <2>1. CursorOK(w)
      BY DEF WalkOK
    <2>2. \A r : Seen(v, r) <=> Seen(w, r)
      BY <1>3 DEF Seen
    <2>3. ASSUME v.at = "rows", v.after # None
          PROVE  /\ \A i \in 1 .. Len(v.seen) : ~Beyond(v.call, v.after, v.seen[i])
                 /\ GoodColumn(v.call) =>
                      \A r \in KeptRows(v) : Asked(v.call, r) /\ ~Beyond(v.call, v.after, r) => Seen(v, r)
      <3>1. /\ \A i \in 1 .. Len(w.seen) : ~Beyond(w.call, w.after, w.seen[i])
            /\ GoodColumn(w.call) =>
                 \A r \in KeptRows(w) : Asked(w.call, r) /\ ~Beyond(w.call, w.after, r) => Seen(w, r)
        BY <1>3, <2>1, <2>3 DEF CursorOK
      <3>2. \A i \in 1 .. Len(v.seen) : ~Beyond(v.call, v.after, v.seen[i])
        BY <1>3, <3>1
      <3>3. QED
        BY <1>3, <1>4, <2>2, <3>1, <3>2
    <2>4. Once(v.seen) /\ v.at # "count" /\ v.at # "end" /\ (v.at = "rows" /\ v.after = None => Len(v.seen) = 0)
      BY <1>3, <2>1 DEF CursorOK
    <2>5. QED
      BY <2>3, <2>4 DEF CursorOK
  <1>7. QED
    BY <1>2, <1>3, <1>4, <1>5, <1>6 DEF WalkOK

(* Multiplication is monotonic. *)
LEMMA Product ==
  ASSUME NEW a \in Int, NEW b \in Int, NEW c \in Nat, a <= b
  PROVE  a * c <= b * c
  OBVIOUS

(* Division with remainder. *)
LEMMA Quotient ==
  ASSUME NEW n \in Nat, NEW d \in Nat \ {0}
  PROVE  n \div d \in Nat /\ (n \div d) * d <= n /\ n < (n \div d) * d + d
  OBVIOUS

(* Multiplication distributes over addition. *)
LEMMA Distribute ==
  ASSUME NEW a \in Int, NEW b \in Int, NEW c \in Int
  PROVE  (a + b) * c = a * c + b * c
  OBVIOUS

(* There is a next page when the pages so far do not hold every row. *)
LEMMA NextPage ==
  ASSUME NEW n \in Nat, NEW req \in PageReq
  PROVE  Reads!has_next(n, req) <=> req.page * req.per_page < n
  <1>1. PICK p, d : p = req.page /\ d = req.per_page
    OBVIOUS
  <1>2. p \in Nat \ {0} /\ d \in Nat \ {0}
    BY <1>1 DEF PageReq
  <1>3. PICK q : q = (n + d - 1) \div d
    OBVIOUS
  <1>4. n + d - 1 \in Nat
    BY <1>2
  <1>5. q \in Nat /\ q * d <= n + d - 1 /\ n + d - 1 < q * d + d
    BY <1>2, <1>3, <1>4, Quotient
  <1>6. Reads!has_next(n, req) <=> p < IF n = 0 THEN 0 ELSE q
    BY <1>1, <1>2, <1>3 DEF Reads!has_next
  <1>7. PICK x, y, z : x = p * d /\ y = q * d /\ z = (p + 1) * d
    OBVIOUS
  <1>8. x \in Nat /\ y \in Nat /\ z = x + d
    <2>1. x \in Nat /\ y \in Nat
      BY <1>2, <1>5, <1>7
    <2>2. z = p * d + 1 * d
      BY <1>2, <1>7, Distribute
    <2>3. QED
      BY <1>2, <1>7, <2>1, <2>2
  <1>9. CASE p < q
    <2>1. p + 1 <= q
      BY <1>2, <1>5, <1>9
    <2>2. z <= y
      BY <1>2, <1>5, <1>7, <2>1, Product
    <2>3. x < n
      BY <1>2, <1>5, <1>7, <1>8, <2>2
    <2>4. QED
      BY <1>1, <1>2, <1>6, <1>7, <1>8, <1>9, <2>3
  <1>10. CASE q <= p
    <2>1. y <= x
      BY <1>2, <1>5, <1>7, <1>10, Product
    <2>2. n <= x
      BY <1>2, <1>5, <1>7, <1>8, <2>1
    <2>3. ~(p < IF n = 0 THEN 0 ELSE q)
      BY <1>2, <1>5, <1>10
    <2>4. QED
      BY <1>1, <1>6, <1>7, <1>8, <2>2, <2>3
  <1>11. QED
    BY <1>2, <1>5, <1>9, <1>10

-----------------------------------------------------------------------------

(* Concatenation puts one behind the other. *)
LEMMA ConcatFollows ==
  ASSUME NEW S, NEW a \in Seq(S), NEW b \in Seq(S)
  PROVE  Follows(a, b, a \o b)
  <1>1. PICK c : c = a \o b
    OBVIOUS
  <1>2. /\ Len(a) \in Nat /\ Len(b) \in Nat /\ Len(c) = Len(a) + Len(b)
        /\ \A i \in 1 .. Len(a) : c[i] = a[i]
        /\ \A j \in 1 .. Len(b) : c[Len(a) + j] = b[j]
    BY <1>1, ConcatIs
  <1>3. Len(c) \in Nat
    BY <1>2
  <1>4. QED
    BY <1>1, <1>2, <1>3 DEF Follows

(* What matches is asked for. *)
LEMMA MatchedIsAsked ==
  ASSUME NEW T, NEW ask, NEW s, s \in Seq(Matching(T, ask))
  PROVE  \A i \in 1 .. Len(s) : Asked(ask, s[i]) /\ s[i] \in T
  BY DEF Matching

(* Everything at once, or the first row. *)
LEMMA FetchOK ==
  ASSUME NEW T, NEW w, WalkOK(w, T), w.call.mode \in {"all", "one", "optional"},
         NEW st \in Nat, NEW s \in Seq(Matching(T, w.call)),
         w.call.mode = "all" /\ st = 200 => Listed(s, Matching(T, w.call)),
         NEW v, v = [w EXCEPT !.at = "end", !.status = st, !.seen = s]
  PROVE  WalkOK(v, T)
  <1>1. w \in WalkType /\ T \in SUBSET Rows
    BY DEF WalkOK
  <1>2. s \in Seq(Rows)
    <2>1. Matching(T, w.call) \subseteq Rows
      BY <1>1, MatchingType
    <2>2. QED
      BY <2>1
  <1>3. v \in WalkType
    BY <1>1, <1>2 DEF WalkType
  <1>4. /\ v.at = "end" /\ v.status = st /\ v.call = w.call /\ v.filter = w.filter
        /\ v.seen = s /\ v.first = w.first /\ v.touched = w.touched /\ v.req = w.req
    BY <1>1 DEF WalkType
  <1>5. KeptRows(v) = KeptRows(w)
    BY <1>4 DEF KeptRows
  <1>6. PagesOK(v, T)
    BY <1>4 DEF PagesOK
  <1>7. Whole(v) => Listed(v.seen, Matching(T, v.call))
    BY <1>4 DEF Whole
  <1>8. \A i \in 1 .. Len(v.seen) : Asked(v.call, v.seen[i])
    BY <1>4, MatchedIsAsked
  <1>9. v.call.mode # "cursor"
    BY <1>4
  <1>10. QED
    BY <1>3, <1>4, <1>5, <1>6, <1>7, <1>8, <1>9 DEF WalkOK

(* What a page makes of a walk. *)
PageMove(w, T, rows, st, s, a, v) ==
  /\ rows = Cut(Found(Matching(T, w.call), RowOrder(w.call)), Reads!offset(w.req), w.req.per_page)
  /\ st \in Nat
  /\ s = IF st = 200 THEN w.seen \o rows ELSE w.seen
  /\ a = IF st = 200 /\ Reads!has_next(w.total, w.req) THEN "count" ELSE "end"
  /\ v = [w EXCEPT !.status = st, !.seen = s, !.at = a, !.req.page = @ + 1]

(* A page continues the ones before it, and the last one ends them. *)
LEMMA PageOK ==
  ASSUME NEW T, NEW w, WalkOK(w, T), w.at = "rows", w.call.mode = "page",
         NEW rows, NEW st, NEW s, NEW a, NEW v, PageMove(w, T, rows, st, s, a, v)
  PROVE  WalkOK(v, T)
  <1>0. /\ rows = Cut(Found(Matching(T, w.call), RowOrder(w.call)), Reads!offset(w.req), w.req.per_page)
        /\ st \in Nat
        /\ s = IF st = 200 THEN w.seen \o rows ELSE w.seen
        /\ a = IF st = 200 /\ Reads!has_next(w.total, w.req) THEN "count" ELSE "end"
        /\ v = [w EXCEPT !.status = st, !.seen = s, !.at = a, !.req.page = @ + 1]
    BY DEF PageMove
  <1>1. w \in WalkType /\ T \in SUBSET Rows
    BY DEF WalkOK
  <1>2. w.call \in QueryCalls /\ w.seen \in Seq(Rows) /\ w.req \in PageReq /\ w.total \in Nat
    <2>1. w.call \in QueryCalls /\ w.seen \in Seq(Rows) /\ w.total \in Nat
      BY <1>1, WalkFieldTypes
    <2>2. QED
      BY <2>1 DEF WalkOK
  <1>3. PICK M, f, p, d, x : /\ M = Matching(T, w.call) /\ f = Found(M, RowOrder(w.call))
                             /\ p = w.req.page /\ d = w.req.per_page /\ x = (p - 1) * d
    OBVIOUS
  <1>4. p \in Nat \ {0} /\ d \in Nat \ {0} /\ x \in Nat /\ x = Reads!offset(w.req)
    <2>1. p \in Nat \ {0} /\ d \in Nat \ {0}
      BY <1>2, <1>3 DEF PageReq
    <2>2. p - 1 \in Nat
      BY <2>1
    <2>3. QED
      BY <1>3, <2>1, <2>2 DEF Reads!offset
  <1>5. M \subseteq Rows /\ Listed(f, M) /\ f \in Seq(M) /\ Len(f) \in Nat
    <2>1. M \in SUBSET Rows /\ RowOrder(w.call) \in OrderType
      BY <1>1, <1>2, <1>3, MatchingType, RowOrderType
    <2>2. Listed(f, M)
      BY <1>3, <2>1, FoundIs
    <2>3. QED
      BY <2>1, <2>2, LenProperties DEF Listed
  <1>6. IsCut(rows, M, f, x, d)
    BY <1>0, <1>3, <1>4, <1>5, CutIs
  <1>7. rows \in Seq(M) /\ rows \in Seq(Rows) /\ Len(rows) \in Nat
    <2>1. rows \in Seq(M) /\ Len(rows) \in Nat
      BY <1>6 DEF IsCut
    <2>2. QED
      BY <1>5, <2>1
  <1>8. PICK c, n : c = w.seen \o rows /\ n = Len(w.seen)
    OBVIOUS
  <1>9. /\ n \in Nat /\ Len(c) = n + Len(rows)
        /\ \A i \in 1 .. n : c[i] = w.seen[i]
        /\ \A i \in 1 .. Len(rows) : c[n + i] = rows[i]
    <2>1. Follows(w.seen, rows, c)
      BY <1>2, <1>7, <1>8, ConcatFollows
    <2>2. QED
      BY <1>8, <2>1 DEF Follows
  <1>10. c \in Seq(Rows) /\ s \in Seq(Rows)
    BY <1>0, <1>2, <1>7, <1>8, ConcatProperties
  <1>11. PICK q : q = [w.req EXCEPT !.page = @ + 1]
    OBVIOUS
  <1>12. q \in PageReq /\ q.page = p + 1 /\ q.per_page = d
    BY <1>2, <1>3, <1>4, <1>11 DEF PageReq
  <1>13. v = [w EXCEPT !.status = st, !.seen = s, !.at = a, !.req = q]
    BY <1>0, <1>1, <1>11 DEF WalkType
  <1>14. a \in {"count", "end"}
    BY <1>0
  <1>15. v \in WalkType
    <2>1. PICK A, B : A = PageReq \cup {None} /\ B = {Filter(ask) : ask \in QueryCalls}
      OBVIOUS
    <2>2. q \in A /\ a \in {"count", "rows", "end"}
      BY <1>12, <1>14, <2>1
    <2>3. WalkType = [at : {"count", "rows", "end"}, call : QueryCalls, filter : B, req : A,
                      after : Value, total : Nat, seen : Seq(Rows), status : Nat,
                      first : SUBSET Rows, touched : SUBSET Rows]
      BY <2>1, Zenon DEF WalkType
    <2>4. PICK u : u = [w EXCEPT !.status = st, !.seen = s]
      OBVIOUS
    <2>5. u \in WalkType
      BY <1>0, <1>1, <1>10, <2>3, <2>4
    <2>6. v = [u EXCEPT !.at = a, !.req = q]
      BY <1>1, <1>13, <2>3, <2>4
    <2>7. QED
      BY <2>2, <2>3, <2>5, <2>6
  <1>16. /\ v.at = a /\ v.status = st /\ v.call = w.call /\ v.filter = w.filter
         /\ v.seen = s /\ v.first = w.first /\ v.touched = w.touched /\ v.req = q
    BY <1>0, <1>1, <1>13 DEF WalkType
  <1>17. \A i \in 1 .. Len(c) : i \in 1 .. n \/ \E j \in 1 .. Len(rows) : i = n + j
    <2> TAKE i \in 1 .. Len(c)
    <2>1. CASE i <= n
      BY <1>9, <2>1
    <2>2. CASE ~(i <= n)
      <3>1. i - n \in 1 .. Len(rows) /\ i = n + (i - n)
        BY <1>7, <1>9, <2>2
      <3>2. QED
        BY <3>1
    <2>3. QED
      BY <2>1, <2>2
  <1>18. \A i \in 1 .. Len(s) : Asked(w.call, s[i])
    <2>1. \A i \in 1 .. n : Asked(w.call, w.seen[i])
      BY <1>8 DEF WalkOK
    <2>2. \A i \in 1 .. Len(rows) : Asked(w.call, rows[i])
      BY <1>3, <1>7, MatchedIsAsked
    <2>3. \A i \in 1 .. Len(c) : Asked(w.call, c[i])
      BY <1>9, <1>17, <2>1, <2>2
    <2>4. QED
      BY <1>0, <1>8, <2>1, <2>3
  <1>19. KeptRows(v) = KeptRows(w)
    BY <1>16 DEF KeptRows
  <1>20. ASSUME w.touched = {}, st = 200
         PROVE  /\ Reads!has_next(w.total, w.req) => Len(c) = p * d /\ p * d <= Len(f)
                /\ ~Reads!has_next(w.total, w.req) => Len(c) = Len(f)
                /\ \A i \in 1 .. Len(c) : i \in 1 .. Len(f) /\ c[i] = f[i]
    <2>1. PagesOK(w, T)
      BY <1>20 DEF WalkOK
    <2>2. n = x /\ n <= Len(f) /\ w.total = Len(f) /\ \A i \in 1 .. n : w.seen[i] = f[i]
      BY <1>3, <1>8, <2>1 DEF PagesOK
    <2>3. /\ Len(rows) = IF x + d < Len(f) THEN d ELSE Len(f) - x
          /\ \A i \in 1 .. Len(rows) : x + i \in 1 .. Len(f) /\ rows[i] = f[x + i]
      BY <1>6, <2>2 DEF IsCut
    <2>4. PICK y : y = p * d
      OBVIOUS
    <2>5. y \in Nat /\ y = x + d
      <3>1. PICK m : m = p - 1
        OBVIOUS
      <3>2. m \in Int /\ p = m + 1
        BY <1>4, <3>1
      <3>3. (m + 1) * d = m * d + 1 * d
        BY <1>4, <3>2, Distribute
      <3>4. QED
        BY <1>3, <1>4, <2>4, <3>1, <3>2, <3>3
    <2>6. Reads!has_next(w.total, w.req) <=> y < Len(f)
      BY <1>2, <1>3, <2>2, <2>4, NextPage
    <2>7. \A i \in 1 .. n : i \in 1 .. Len(f)
      BY <1>5, <1>9, <2>2
    <2>8. \A i \in 1 .. Len(c) : i \in 1 .. Len(f) /\ c[i] = f[i]
      BY <1>9, <1>17, <2>2, <2>3, <2>7, ZenonT(30)
    <2>9. (y < Len(f) => Len(c) = y) /\ (~(y < Len(f)) => Len(c) = Len(f))
      BY <1>4, <1>5, <1>9, <2>2, <2>3, <2>5
    <2>10. y < Len(f) => y <= Len(f)
      BY <1>5, <2>5
    <2>11. QED
      BY <2>4, <2>6, <2>8, <2>9, <2>10
  <1>21. w.touched = {} => PagesOK(v, T)
    <2> SUFFICES ASSUME w.touched = {}, a = "count"
                 PROVE  PagesOK(v, T)
      BY <1>14, <1>16 DEF PagesOK
    <2>1. st = 200 /\ Reads!has_next(w.total, w.req) /\ s = c
      BY <1>0, <1>8
    <2>2. Len(c) = p * d /\ p * d <= Len(f) /\ \A i \in 1 .. Len(c) : c[i] = f[i]
      BY <1>20, <2>1
    <2>3. p + 1 - 1 = p
      BY <1>4
    <2>4. QED
      <3>1. f = Found(Matching(T, v.call), RowOrder(v.call))
        BY <1>3, <1>16
      <3>2. v.at # "rows" /\ v.seen = c
        BY <1>16, <2>1
      <3>3. (v.req.page - 1) * v.req.per_page = p * d
        <4>1. v.req.page - 1 = p /\ v.req.per_page = d
          <5>1. v.req = q
            BY <1>16
          <5>2. v.req.page = p + 1 /\ v.req.per_page = d
            BY <1>12, <5>1, Zenon
          <5>3. PICK z : z = v.req.page
            OBVIOUS
          <5>4. z - 1 = p
            BY <1>4, <5>2, <5>3
          <5>5. QED
            BY <5>2, <5>3, <5>4, Zenon
        <4>2. QED
          BY <4>1, Zenon
      <3>4. Len(v.seen) <= Len(f)
        BY <2>2, <3>2
      <3>5. QED
        BY <2>2, <3>1, <3>2, <3>3, <3>4 DEF PagesOK
  <1>22. Whole(v) => Listed(v.seen, Matching(T, v.call))
    <2> SUFFICES ASSUME Whole(v)
                 PROVE  Listed(v.seen, Matching(T, v.call))
      OBVIOUS
    <2>1. a = "end" /\ st = 200 /\ w.touched = {}
      BY <1>16 DEF Whole
    <2>2. s = c /\ ~Reads!has_next(w.total, w.req)
      BY <1>0, <1>8, <2>1
    <2>3. Len(c) = Len(f) /\ \A i \in 1 .. Len(c) : c[i] = f[i]
      BY <1>20, <2>1, <2>2
    <2>4. f \in Seq(Rows)
      BY <1>5
    <2>5. c = f
      BY <1>10, <2>3, <2>4, SeqEqual
    <2>6. QED
      BY <1>3, <1>5, <1>16, <2>2, <2>5
  <1>23. v.call.mode # "cursor" /\ v.filter = Filter(v.call)
    BY <1>16 DEF WalkOK
  <1>24. QED
    <2>1. KeptRows(v) \subseteq T /\ (v.touched = {} => T = v.first)
      BY <1>16, <1>19 DEF WalkOK
    <2>2. \A i \in 1 .. Len(v.seen) : Asked(v.call, v.seen[i])
      BY <1>16, <1>18
    <2>3. QED
      BY <1>1, <1>12, <1>15, <1>16, <1>21, <1>22, <1>23, <2>1, <2>2 DEF WalkOK

(* A page of what a cursor finds: all of it, or the beginning and the      *)
(* column of its last row.                                                 *)
IsPage(items, next, A, f, col) ==
  /\ items \in Seq(A) /\ Len(items) \in Nat /\ Len(items) <= Len(f)
  /\ \A i \in 1 .. Len(items) : items[i] = f[i]
  /\ \/ next = None /\ Len(items) = Len(f)
     \/ Len(items) \in 1 .. Len(f) /\ next = f[Len(items)][col]

(* CursorPage is such a page. *)
LEMMA CursorPageIs ==
  ASSUME NEW A, NEW f \in Seq(A), NEW d \in Nat \ {0}, NEW rows, rows = Cut(f, 0, d + 1),
         NEW col, NEW got, got = Reads!CursorPage(rows, col, d)
  PROVE  IsPage(got.items, got.next_cursor, A, f, col)
  <1>1. PICK n, m, items, next :
          n = Len(f) /\ m = Len(rows) /\ items = got.items /\ next = got.next_cursor
    OBVIOUS
  <1>2. n \in Nat
    BY <1>1
  <1>3. IsCut(rows, A, f, 0, d + 1)
    <2>1. d + 1 \in Nat
      OBVIOUS
    <2>2. QED
      BY <2>1, CutIs
  <1>4. rows \in Seq(A) /\ m \in Nat
    BY <1>1, <1>3 DEF IsCut
  <1>5. m = IF d + 1 < n THEN d + 1 ELSE n
    <2>1. 0 <= n
      BY <1>2
    <2>2. m = IF 0 + (d + 1) < n THEN d + 1 ELSE n - 0
      BY <1>1, <1>3, <2>1 DEF IsCut
    <2>3. QED
      BY <1>2, <2>2
  <1>6. \A i \in 1 .. m : rows[i] = f[i]
    <2>1. \A i \in 1 .. m : rows[i] = f[0 + i]
      BY <1>1, <1>3 DEF IsCut
    <2>2. \A i \in 1 .. m : 0 + i = i
      BY <1>4
    <2>3. QED
      BY <2>1, <2>2
  <1>7. /\ items = IF m > d THEN Reads!Front(rows) ELSE rows
        /\ next = IF m > d THEN rows[m - 1][col] ELSE None
    BY <1>1 DEF Reads!CursorPage
  <1>8. CASE m > d
    <2>1. m = d + 1 /\ m <= n /\ m - 1 = d /\ d \in 1 .. n /\ d \in 1 .. m
      BY <1>2, <1>5, <1>8
    <2>2. items = SubSeq(rows, 1, d)
      BY <1>1, <1>7, <1>8, <2>1 DEF Reads!Front
    <2>3. items \in Seq(A) /\ Len(items) = d /\ \A i \in 1 .. d : items[i] = rows[i]
      <3>1. \A i \in 1 .. d : rows[i] \in A
        BY <1>1, <1>4, <2>1
      <3>2. 1 \in Int /\ d \in Int /\ (IF 1 <= d THEN d - 1 + 1 ELSE 0) = d /\ d - 1 + 1 = d
        OBVIOUS
      <3>3. /\ items \in Seq(A) /\ Len(items) = IF 1 <= d THEN d - 1 + 1 ELSE 0
            /\ \A i \in 1 .. d - 1 + 1 : items[i] = rows[1 + i - 1]
        BY <2>2, <3>1, <3>2, SubSeqProperties
      <3>4. \A i \in 1 .. d : 1 + i - 1 = i
        OBVIOUS
      <3>5. \A i \in 1 .. d : items[i] = rows[1 + i - 1]
        BY <3>2, <3>3
      <3>6. QED
        BY <3>2, <3>3, <3>4, <3>5
    <2>4. \A i \in 1 .. d : items[i] = f[i]
      <3>1. \A i \in 1 .. d : i \in 1 .. m
        BY <2>1
      <3>2. QED
        BY <1>6, <2>3, <3>1
    <2>5. next = f[d][col]
      BY <1>6, <1>7, <1>8, <2>1
    <2>6. d \in Nat /\ d <= n
      BY <2>1
    <2>7. QED
      BY <1>1, <2>1, <2>3, <2>4, <2>5, <2>6 DEF IsPage
  <1>9. CASE ~(m > d)
    <2>1. m = n /\ items = rows /\ next = None
      BY <1>2, <1>5, <1>7, <1>9
    <2>2. n <= n
      BY <1>2
    <2>3. QED
      BY <1>1, <1>2, <1>4, <1>6, <2>1, <2>2 DEF IsPage
  <1>10. QED
    BY <1>8, <1>9

(* A cursor orders by its column. *)
LEMMA CursorOrderType ==
  ASSUME NEW ask \in QueryCalls
  PROVE  CursorOrder(ask) \in OrderType /\ ask.col \in Fields
  <1>1. ask.col \in Fields /\ ask.desc \in BOOLEAN
    BY ServicesAssumption DEF Reads!QueriesAssumption, Fields
  <1>2. PICK U, x : U = [field : Fields, desc : BOOLEAN] /\ x = [field |-> ask.col, desc |-> ask.desc]
    OBVIOUS
  <1>3. x \in U
    BY <1>1, <1>2
  <1>4. <<x>> \in Seq(U)
    BY <1>3
  <1>5. QED
    BY <1>1, <1>2, <1>4, Zenon DEF CursorOrder, OrderType

(* One row is not after another in the direction of the cursor. *)
UpTo(ask, r, s) ==
  IF ask.desc THEN Key(s, ask.col) <= Key(r, ask.col) ELSE Key(r, ask.col) <= Key(s, ask.col)

(* Rows come in the direction of the cursor. *)
LEMMA CursorOrdered ==
  ASSUME NEW ask \in QueryCalls, NEW f \in Seq(Rows), InOrder(f, CursorOrder(ask)),
         NEW i \in 1 .. Len(f), NEW j \in 1 .. Len(f), i <= j
  PROVE  UpTo(ask, f[i], f[j])
  <1>1. f[i] \in Rows /\ f[j] \in Rows /\ ask.col \in Fields
    BY CursorOrderType
  <1>2. Key(f[i], ask.col) \in Nat /\ Key(f[j], ask.col) \in Nat
    BY <1>1, KeyType
  <1>3. CASE i = j
    BY <1>2, <1>3 DEF UpTo
  <1>4. CASE i < j
    <2>1. PICK ord, x : x = [field |-> ask.col, desc |-> ask.desc] /\ ord = <<x>> /\ ord = CursorOrder(ask)
      BY DEF CursorOrder
    <2>2. DOMAIN ord = {1} /\ ord[1] = x /\ x.field = ask.col /\ x.desc = ask.desc
      BY <2>1
    <2>3. ~Reads!Before(ord, f[j], f[i])
      BY <1>4, <2>1 DEF InOrder
    <2>4. ~Less(ord, f[j], f[i], 1)
      <3>1. \A k \in 1 .. 1 - 1 : FALSE
        OBVIOUS
      <3>2. 1 \in DOMAIN ord
        BY <2>2
      <3>3. QED
        BY <2>3, <3>1, <3>2, BeforeIs
    <2>5. ~(IF ask.desc THEN Key(f[j], ask.col) > Key(f[i], ask.col)
            ELSE Key(f[j], ask.col) < Key(f[i], ask.col))
      BY <2>2, <2>4 DEF Less
    <2>6. QED
      BY <1>2, <2>5 DEF UpTo
  <1>5. QED
    BY <1>3, <1>4

(* What the cursor has passed stays passed. *)
LEMMA NotBeyond ==
  ASSUME NEW ask \in QueryCalls, NEW r \in Rows, NEW s \in Rows, s[ask.col] # None
  PROVE  /\ UpTo(ask, r, s) => ~Beyond(ask, s[ask.col], r)
         /\ \A a \in Nat : ~Beyond(ask, a, r) /\ Beyond(ask, a, s) => ~Beyond(ask, s[ask.col], r)
         /\ UpTo(ask, s, r) /\ r[ask.col] # None /\ ~Beyond(ask, s[ask.col], r) =>
              r[ask.col] = s[ask.col]
  <1>1. ask.col \in Fields
    BY CursorOrderType
  <1>2. PICK x, y : x = r[ask.col] /\ y = s[ask.col]
    OBVIOUS
  <1>3. x \in Nat \cup {None} /\ y \in Nat /\ None \notin Nat
    BY <1>1, <1>2, KeyType
  <1>4. Key(s, ask.col) = y /\ (x # None => Key(r, ask.col) = x)
    BY <1>2 DEF Key
  <1>5. \A a : Beyond(ask, a, r) <=> x # None /\ IF ask.desc THEN x < a ELSE x > a
    BY <1>2 DEF Beyond
  <1>6. \A a : Beyond(ask, a, s) <=> IF ask.desc THEN y < a ELSE y > a
    BY <1>2 DEF Beyond
  <1>7. CASE x = None
    BY <1>2, <1>5, <1>7
  <1>8. CASE x # None
    <2>1. x \in Nat
      BY <1>3, <1>8
    <2>2. UpTo(ask, r, s) <=> IF ask.desc THEN y <= x ELSE x <= y
      BY <1>4, <1>8 DEF UpTo
    <2>3. UpTo(ask, s, r) <=> IF ask.desc THEN x <= y ELSE y <= x
      BY <1>4, <1>8 DEF UpTo
    <2>4. Beyond(ask, y, r) <=> IF ask.desc THEN x < y ELSE x > y
      BY <1>5, <1>8
    <2>5. UpTo(ask, r, s) => ~Beyond(ask, y, r)
      BY <1>3, <2>1, <2>2, <2>4
    <2>6. ASSUME NEW a \in Nat, ~Beyond(ask, a, r), Beyond(ask, a, s)
          PROVE  ~Beyond(ask, y, r)
      BY <1>3, <1>5, <1>6, <1>8, <2>1, <2>4, <2>6
    <2>7. UpTo(ask, s, r) /\ ~Beyond(ask, y, r) => x = y
      BY <1>3, <2>1, <2>3, <2>4
    <2>8. QED
      BY <1>2, <2>5, <2>6, <2>7
  <1>9. QED
    BY <1>7, <1>8

(* What a page with a cursor makes of a walk. *)
CursorMove(w, T, A, f, items, next, st, s, a, v) ==
  /\ A = Ahead(T, w.call, w.after) /\ f = Found(A, CursorOrder(w.call))
  /\ IsPage(items, next, A, f, w.call.col)
  /\ st \in Nat
  /\ s = IF st = 200 THEN w.seen \o items ELSE w.seen
  /\ a = IF st = 200 /\ next # None THEN "rows" ELSE "end"
  /\ v = [w EXCEPT !.status = st, !.seen = s, !.after = next, !.at = a]

(* A page with a cursor sees only what is ahead and leaves nothing behind. *)
LEMMA CursorOn ==
  ASSUME NEW T, NEW w, WalkOK(w, T), w.at = "rows", w.call.mode = "cursor",
         NEW A, NEW f, NEW items, NEW next, NEW st, NEW s, NEW a, NEW v,
         CursorMove(w, T, A, f, items, next, st, s, a, v)
  PROVE  WalkOK(v, T)
  <1> USE DEF CursorMove
  <1>1. w \in WalkType /\ T \in SUBSET Rows
    BY DEF WalkOK
  <1>2. w.call \in QueryCalls /\ w.seen \in Seq(Rows) /\ w.req \in PageReq /\ w.after \in Value
    <2>1. w.call \in QueryCalls /\ w.seen \in Seq(Rows) /\ w.after \in Value
      BY <1>1, WalkFieldTypes
    <2>2. QED
      BY <2>1 DEF WalkOK
  <1>3. PICK ask, col, n, m : ask = w.call /\ col = ask.col /\ n = Len(w.seen) /\ m = Len(items)
    OBVIOUS
  <1>4. ask \in QueryCalls /\ col \in Fields /\ CursorOrder(ask) \in OrderType
    BY <1>2, <1>3, CursorOrderType
  <1>5. A \in SUBSET Rows /\ \A r \in A : r \in Rows /\ Asked(ask, r) /\ (w.after # None => Beyond(ask, w.after, r))
    BY <1>1, <1>3 DEF Ahead
  <1>6. Listed(f, A) /\ InOrder(f, CursorOrder(ask)) /\ f \in Seq(A) /\ f \in Seq(Rows) /\ Len(f) \in Nat
    <2>1. Listed(f, A) /\ InOrder(f, CursorOrder(ask))
      BY <1>3, <1>4, <1>5, FoundIs
    <2>2. f \in Seq(A)
      BY <2>1 DEF Listed
    <2>3. QED
      BY <1>5, <2>1, <2>2, LenProperties
  <1>7. items \in Seq(A) /\ m \in Nat /\ m <= Len(f) /\ \A i \in 1 .. m : i \in 1 .. Len(f) /\ items[i] = f[i]
    <2>1. items \in Seq(A) /\ m \in Nat /\ m <= Len(f) /\ \A i \in 1 .. m : items[i] = f[i]
      BY <1>3 DEF IsPage
    <2>2. \A i \in 1 .. m : i \in 1 .. Len(f)
      BY <1>6, <2>1
    <2>3. QED
      BY <2>1, <2>2
  <1>8. items \in Seq(Rows) /\ \A i \in 1 .. m : items[i] \in A
    BY <1>3, <1>5, <1>7
  <1>9. \/ next = None /\ m = Len(f)
        \/ m \in 1 .. Len(f) /\ next = f[m][col] /\ f[m] \in A /\ f[m] \in Rows
    <2>1. \/ next = None /\ m = Len(f)
          \/ m \in 1 .. Len(f) /\ next = f[m][col]
      BY <1>3 DEF IsPage
    <2>2. \A i \in 1 .. Len(f) : f[i] \in A /\ f[i] \in Rows
      BY <1>5, <1>6
    <2>3. QED
      BY <2>1, <2>2
  <1>10. next \in Value
    BY <1>4, <1>9, KeyType DEF Value
  <1>11. PICK c : c = w.seen \o items
    OBVIOUS
  <1>12. /\ n \in Nat /\ Len(c) = n + m
         /\ \A i \in 1 .. n : c[i] = w.seen[i]
         /\ \A i \in 1 .. m : c[n + i] = items[i]
    <2>1. Follows(w.seen, items, c)
      BY <1>2, <1>8, <1>11, ConcatFollows
    <2>2. QED
      BY <1>3, <2>1 DEF Follows
  <1>13. c \in Seq(Rows) /\ s \in Seq(Rows)
    BY <1>2, <1>8, <1>11, ConcatProperties
  <1>14. \A i \in 1 .. Len(c) : i \in 1 .. n \/ \E j \in 1 .. m : i = n + j
    <2> TAKE i \in 1 .. Len(c)
    <2>1. CASE i <= n
      BY <1>12, <2>1
    <2>2. CASE ~(i <= n)
      <3>1. i - n \in 1 .. m /\ i = n + (i - n)
        BY <1>7, <1>12, <2>2
      <3>2. QED
        BY <3>1
    <2>3. QED
      BY <2>1, <2>2
  <1>15. \A i \in 1 .. n : i \in 1 .. Len(c)
    BY <1>7, <1>12
  <1>16. \A i \in 1 .. m : n + i \in 1 .. Len(c)
    BY <1>7, <1>12
  <1>17. CursorOK(w) /\ \A i \in 1 .. n : w.seen[i] \in Rows /\ Asked(ask, w.seen[i])
    BY <1>2, <1>3 DEF WalkOK
  <1>18. v \in WalkType
    <2>1. a \in {"count", "rows", "end"}
      OBVIOUS
    <2>2. PICK u : u = [w EXCEPT !.status = st, !.seen = s]
      OBVIOUS
    <2>3. u \in WalkType
      BY <1>1, <1>13, <2>2 DEF WalkType
    <2>4. v = [u EXCEPT !.after = next, !.at = a]
      BY <1>1, <2>2 DEF WalkType
    <2>5. QED
      BY <1>10, <2>1, <2>3, <2>4, ZenonT(30) DEF WalkType
  <1>19. /\ v.at = a /\ v.status = st /\ v.call = ask /\ v.filter = w.filter /\ v.after = next
         /\ v.seen = s /\ v.first = w.first /\ v.touched = w.touched /\ v.req = w.req
    BY <1>1, <1>3 DEF WalkType
  <1>20. KeptRows(v) = KeptRows(w)
    BY <1>19 DEF KeptRows
  <1>21. \A i \in 1 .. Len(s) : Asked(ask, s[i])
    <2>1. \A i \in 1 .. m : Asked(ask, items[i])
      BY <1>5, <1>8
    <2>2. \A i \in 1 .. Len(c) : Asked(ask, c[i])
      BY <1>12, <1>14, <1>17, <2>1
    <2>3. QED
      BY <1>3, <1>11, <1>17, <2>2
  <1>22. ASSUME NEW i \in 1 .. n, NEW j \in 1 .. m
         PROVE  w.seen[i] # items[j]
    <2>1. w.after # None
      BY <1>3, <1>12, <1>17 DEF CursorOK
    <2>2. ~Beyond(ask, w.after, w.seen[i])
      BY <1>3, <1>17, <2>1 DEF CursorOK
    <2>3. Beyond(ask, w.after, items[j])
      BY <1>5, <1>8, <2>1
    <2>4. QED
      BY <2>2, <2>3
  <1>23. Once(c)
    <2>1. Once(w.seen)
      BY <1>17 DEF CursorOK
    <2>2. \A i, j \in 1 .. m : items[i] = items[j] => i = j
      <3>1. \A i, j \in 1 .. Len(f) : f[i] = f[j] => i = j
        BY <1>6 DEF Listed
      <3>2. QED
        BY <1>7, <3>1
    <2>3. ASSUME NEW i \in 1 .. Len(c), NEW j \in 1 .. Len(c), c[i] = c[j]
          PROVE  i = j
      <3>1. CASE i \in 1 .. n /\ j \in 1 .. n
        BY <1>3, <1>12, <2>1, <2>3, <3>1 DEF Once
      <3>2. CASE i \in 1 .. n /\ \E k \in 1 .. m : j = n + k
        BY <1>12, <1>22, <2>3, <3>2
      <3>3. CASE (\E k \in 1 .. m : i = n + k) /\ j \in 1 .. n
        BY <1>12, <1>22, <2>3, <3>3
      <3>4. CASE (\E k \in 1 .. m : i = n + k) /\ (\E k \in 1 .. m : j = n + k)
        <4>1. PICK k \in 1 .. m, l \in 1 .. m : i = n + k /\ j = n + l
          BY <3>4
        <4>2. items[k] = items[l]
          BY <1>12, <2>3, <4>1
        <4>3. QED
          BY <2>2, <4>1, <4>2
      <3>5. QED
        BY <1>14, <3>1, <3>2, <3>3, <3>4
    <2>4. QED
      BY <2>3 DEF Once
  <1>24. Once(s)
    BY <1>11, <1>17, <1>23 DEF CursorOK
  <1>25. ASSUME NEW r \in KeptRows(w), Asked(ask, r), GoodColumn(ask), st = 200,
                \A i \in 1 .. m : items[i] # r
         PROVE  \/ Seen(v, r)
                \/ r \in Rows /\ \E k \in 1 .. Len(f) : ~(k <= m) /\ f[k] = r
    <2>1. s = c
      BY <1>11, <1>25
    <2>2. r \in T /\ r \in Rows
      BY <1>1 DEF WalkOK
    <2>3. CASE w.after # None /\ ~Beyond(ask, w.after, r)
      <3>1. Seen(w, r)
        BY <1>3, <1>17, <1>25, <2>3 DEF CursorOK
      <3>2. PICK i \in 1 .. n : w.seen[i] = r
        BY <1>3, <3>1 DEF Seen
      <3>3. i \in 1 .. Len(c) /\ c[i] = r
        BY <1>12, <1>15, <3>2
      <3>4. QED
        BY <1>19, <2>1, <3>3 DEF Seen
    <2>4. CASE w.after # None => Beyond(ask, w.after, r)
      <3>1. r \in A
        BY <1>3, <1>25, <2>2, <2>4 DEF Ahead
      <3>2. PICK k \in 1 .. Len(f) : f[k] = r
        BY <1>6, <3>1 DEF Listed
      <3>3. ~(k <= m)
        <4>1. k <= m => k \in 1 .. m
          BY <1>6, <1>7
        <4>2. QED
          BY <1>7, <1>25, <3>2, <4>1
      <3>4. QED
        BY <2>2, <3>2, <3>3
    <2>5. QED
      BY <2>3, <2>4
  <1>26. ASSUME NEW i \in 1 .. m, st = 200
         PROVE  Seen(v, items[i])
    <2>1. s = c
      BY <1>11, <1>26
    <2>2. n + i \in 1 .. Len(c) /\ c[n + i] = items[i]
      BY <1>12, <1>16
    <2>3. QED
      BY <1>19, <2>1, <2>2 DEF Seen
  <1>27. ASSUME a = "rows"
         PROVE  /\ \A i \in 1 .. Len(s) : ~Beyond(ask, next, s[i])
                /\ GoodColumn(ask) =>
                     \A r \in KeptRows(w) : Asked(ask, r) /\ ~Beyond(ask, next, r) => Seen(v, r)
    <2>1. st = 200 /\ next # None /\ s = c
      BY <1>11, <1>27
    <2>2. PICK z : z = f[m]
      OBVIOUS
    <2>3. m \in 1 .. Len(f) /\ z \in Rows /\ z \in A /\ next = z[col] /\ z[col] # None
      BY <1>9, <2>1, <2>2
    <2>4. \A r \in Rows :
            /\ UpTo(ask, r, z) => ~Beyond(ask, next, r)
            /\ \A x \in Nat : ~Beyond(ask, x, r) /\ Beyond(ask, x, z) => ~Beyond(ask, next, r)
            /\ UpTo(ask, z, r) /\ r[col] # None /\ ~Beyond(ask, next, r) => r[col] = z[col]
      BY <1>3, <1>4, <2>3, NotBeyond
    <2>5. \A i \in 1 .. m : ~Beyond(ask, next, items[i])
      <3> TAKE i \in 1 .. m
      <3>1. i \in 1 .. Len(f) /\ i <= m /\ items[i] = f[i]
        BY <1>7
      <3>2. UpTo(ask, f[i], f[m])
        BY <1>4, <1>6, <2>3, <3>1, CursorOrdered
      <3>3. f[i] \in Rows
        BY <1>6, <3>1
      <3>4. QED
        BY <2>2, <2>4, <3>1, <3>2, <3>3
    <2>6. \A i \in 1 .. n : ~Beyond(ask, next, w.seen[i])
      <3> TAKE i \in 1 .. n
      <3>1. w.after # None
        BY <1>3, <1>12, <1>17 DEF CursorOK
      <3>2. ~Beyond(ask, w.after, w.seen[i])
        BY <1>3, <1>17, <3>1 DEF CursorOK
      <3>3. Beyond(ask, w.after, z) /\ w.after \in Nat
        BY <1>2, <1>5, <2>3, <3>1 DEF Value
      <3>4. QED
        BY <1>17, <2>4, <3>2, <3>3
    <2>7. \A i \in 1 .. Len(s) : ~Beyond(ask, next, s[i])
      BY <1>12, <1>14, <2>1, <2>5, <2>6
    <2>8. ASSUME GoodColumn(ask), NEW r \in KeptRows(w), Asked(ask, r), ~Beyond(ask, next, r),
                 ~Seen(v, r)
          PROVE  FALSE
      <3>1. \A i \in 1 .. m : items[i] # r
        BY <1>26, <2>1, <2>8
      <3>2. r \in Rows
        BY <1>1 DEF WalkOK
      <3>3. PICK k \in 1 .. Len(f) : ~(k <= m) /\ f[k] = r
        BY <1>25, <2>1, <2>8, <3>1
      <3>4. m <= k
        BY <1>7, <3>3
      <3>5. UpTo(ask, z, r)
        BY <1>4, <1>6, <2>2, <2>3, <3>3, <3>4, CursorOrdered
      <3>6. r[col] # None
        BY <1>3, <2>8, <3>2 DEF GoodColumn
      <3>7. r[col] = z[col]
        BY <2>4, <2>8, <3>2, <3>5, <3>6
      <3>8. r = z
        BY <1>3, <2>3, <2>8, <3>2, <3>7 DEF GoodColumn
      <3>9. m \in 1 .. m /\ items[m] = z
        <4>1. m \in 1 .. m
          BY <2>3
        <4>2. QED
          BY <1>7, <2>2, <4>1
      <3>10. QED
        BY <3>1, <3>8, <3>9
    <2>9. QED
      BY <2>7, <2>8
  <1>28. ASSUME a = "end", st = 200, GoodColumn(ask), NEW r \in KeptRows(w), Asked(ask, r), ~Seen(v, r)
         PROVE  FALSE
    <2>1. next = None
      BY <1>28
    <2>2. m = Len(f)
      BY <1>3, <1>9, <1>28, <2>1 DEF GoodColumn
    <2>3. \A i \in 1 .. m : items[i] # r
      BY <1>26, <1>28
    <2>4. PICK k \in 1 .. Len(f) : ~(k <= m)
      BY <1>25, <1>28, <2>3
    <2>5. QED
      BY <1>6, <2>2, <2>4
  <1>29. CursorOK(v)
    <2>1. a = "rows" => next # None
      OBVIOUS
    <2>2. a \in {"rows", "end"}
      OBVIOUS
    <2>3. Once(v.seen) /\ v.at # "count" /\ ~(v.at = "rows" /\ v.after = None)
      BY <1>19, <1>24, <2>1, <2>2
    <2>4. v.at = "rows" =>
            /\ \A i \in 1 .. Len(v.seen) : ~Beyond(v.call, v.after, v.seen[i])
            /\ GoodColumn(v.call) =>
                 \A r \in KeptRows(v) : Asked(v.call, r) /\ ~Beyond(v.call, v.after, r) => Seen(v, r)
      BY <1>19, <1>20, <1>27, ZenonT(30)
    <2>5. v.at = "end" /\ v.status = 200 /\ GoodColumn(v.call) =>
            \A r \in KeptRows(v) : Asked(v.call, r) => Seen(v, r)
      BY <1>19, <1>20, <1>28
    <2>6. QED
      BY <2>3, <2>4, <2>5 DEF CursorOK
  <1>30. ~Whole(v) /\ v.call.mode = "cursor"
    BY <1>3, <1>19 DEF Whole
  <1>31. KeptRows(v) \subseteq T /\ (v.touched = {} => T = v.first) /\ v.filter = Filter(v.call)
    BY <1>3, <1>19, <1>20 DEF WalkOK
  <1>32. QED
    <2>1. \A i \in 1 .. Len(v.seen) : Asked(v.call, v.seen[i])
      BY <1>19, <1>21
    <2>2. v.req \in PageReq
      BY <1>2, <1>19
    <2>3. QED
      BY <1>1, <1>18, <1>29, <1>30, <1>31, <2>1, <2>2 DEF WalkOK

(* Statuses are numbers. *)
LEMMA StatusType ==
  ASSUME NEW rows, NEW type
  PROVE  /\ Reads!query_all(rows, type) \in Nat /\ Reads!query_optional(rows, type) \in Nat
         /\ Reads!query_one(rows, type) \in Nat
  <1>1. \A x : Reads!query_all(x, type) \in Nat
    BY DEF Reads!query_all
  <1>2. Reads!FromLibsqlError.no_rows = 404
    BY DEF Reads!FromLibsqlError
  <1>3. QED
    BY <1>1, <1>2 DEF Reads!query_optional, Reads!query_one

(* The first row. *)
LEMMA FirstRowType ==
  ASSUME NEW M, NEW s \in Seq(M)
  PROVE  Reads!FirstRow(s) \in Seq(M)
  <1>1. CASE s = <<>>
    BY <1>1 DEF Reads!FirstRow
  <1>2. CASE s # <<>>
    <2>1. Head(s) \in M
      BY <1>2, HeadTailProperties
    <2>2. PICK x, t : x = Head(s) /\ t = <<x>>
      OBVIOUS
    <2>3. t \in Seq(M)
      BY <2>1, <2>2
    <2>4. QED
      BY <1>2, <2>2, <2>3, Zenon DEF Reads!FirstRow
  <1>3. QED
    BY <1>1, <1>2

(* What holds of a walk that goes on. *)
LEMMA WalkingIs ==
  ASSUME ReadsInv, walk.at \in {"count", "rows"}
  PROVE  /\ WalkOK(walk, table) /\ table \subseteq Rows /\ walk.call \in QueryCalls
         /\ QueryOK(walk.call.query) /\ walk.filter = Filter(walk.call) /\ walk.req \in PageReq
         /\ walk.after \in Value /\ walk.at # "end"
  <1>1. walk # Reads!Idle
    BY DEF Reads!Idle
  <1>2. WalkOK(walk, table) /\ table \subseteq Rows
    BY <1>1 DEF ReadsInv
  <1>3. walk \in WalkType /\ walk.filter = Filter(walk.call) /\ walk.req \in PageReq
    BY <1>2 DEF WalkOK
  <1>4. walk.call \in QueryCalls /\ walk.after \in Value
    BY <1>3, WalkFieldTypes
  <1>5. QED
    BY <1>2, <1>3, <1>4, CallsOK

(* The actions, one by one. *)
LEMMA CountStep ==
  ASSUME ReadsInv, Reads!Count
  PROVE  WalkOK(walk', table')
  <1>1. /\ WalkOK(walk, table) /\ table \subseteq Rows /\ QueryOK(walk.call.query)
        /\ walk.filter = Filter(walk.call) /\ walk.at = "count"
    BY WalkingIs DEF Reads!Count
  <1>2. PICK n : n = Len(Reads!Execute(Reads!Statement(Reads!build_where(walk.filter), <<>>, <<>>)))
    OBVIOUS
  <1>3. n = Len(Found(Matching(table, walk.call), <<>>))
    <2>1. PICK ask : ask = walk.call
      OBVIOUS
    <2>2. Reads!Execute(Reads!Statement(Reads!build_where(Filter(ask)), <<>>, <<>>))
            = Found(Matching(table, ask), <<>>)
      BY <1>1, <2>1, AllExecute, EmptyOrder
    <2>3. QED
      BY <1>1, <1>2, <2>1, <2>2
  <1>4. PICK v : v = [walk EXCEPT !.at = "rows", !.total = n]
    OBVIOUS
  <1>5. walk' = v /\ table' = table
    BY <1>2, <1>4 DEF Reads!Count
  <1>6. WalkOK(v, table)
    BY <1>1, <1>3, <1>4, CountOK
  <1>7. QED
    BY <1>5, <1>6

(* A read of rows, all or one of them, or nothing. *)
LEMMA FetchStep ==
  ASSUME ReadsInv, Reads!Fetch
  PROVE  WalkOK(walk', table')
  <1>1. /\ WalkOK(walk, table) /\ table \subseteq Rows /\ QueryOK(walk.call.query)
        /\ walk.call \in QueryCalls /\ walk.filter = Filter(walk.call)
        /\ walk.call.mode \in {"all", "one", "optional"}
    BY WalkingIs DEF Reads!Fetch
  <1>2. PICK ask, M, all, some :
          /\ ask = walk.call /\ M = Matching(table, ask)
          /\ all = Reads!Execute(Reads!fetch_all(walk.filter, ask.order_by))
          /\ some = Reads!Execute(Reads!fetch_one(walk.filter))
    OBVIOUS
  <1>3. M \in SUBSET Rows /\ RowOrder(ask) \in OrderType
    BY <1>1, <1>2, MatchingType, RowOrderType
  <1>4. all = Found(M, RowOrder(ask))
    <2>1. Reads!fetch_all(walk.filter, ask.order_by)
            = Reads!Statement(Reads!build_where(Filter(ask)), RowOrder(ask), <<>>)
      BY <1>1, <1>2, Zenon DEF Reads!fetch_all, RowOrder
    <2>2. QED
      BY <1>1, <1>2, <1>3, <2>1, AllExecute
  <1>5. some = Found(M, <<>>)
    <2>1. Reads!fetch_one(walk.filter) = Reads!Statement(Reads!build_where(Filter(ask)), <<>>, <<>>)
      BY <1>1, <1>2, Zenon DEF Reads!fetch_one
    <2>2. QED
      BY <1>1, <1>2, <2>1, AllExecute, EmptyOrder
  <1>6. Listed(all, M) /\ all \in Seq(M) /\ some \in Seq(M)
    <2>1. Listed(all, M) /\ Listed(some, M)
      BY <1>3, <1>4, <1>5, FoundIs, EmptyOrder
    <2>2. QED
      BY <2>1 DEF Listed
  <1>7. PICK e : e = <<>>
    OBVIOUS
  <1>8. PICK st : st = CASE ask.mode = "all" -> Reads!query_all(all, ask.type)
                         [] ask.mode = "one" -> Reads!query_one(some, ask.type)
                         [] ask.mode = "optional" -> Reads!query_optional(some, ask.type)
    OBVIOUS
  <1>9. PICK s : s = CASE st # 200 -> e [] st = 200 /\ ask.mode = "all" -> all
                       [] OTHER -> Reads!FirstRow(some)
    OBVIOUS
  <1>10. PICK v : v = [walk EXCEPT !.at = "end", !.status = st, !.seen = s]
    OBVIOUS
  <1>11. walk' = v /\ table' = table
    BY <1>2, <1>7, <1>8, <1>9, <1>10, Zenon DEF Reads!Fetch
  <1>12. st \in Nat
    BY <1>1, <1>2, <1>8, StatusType
  <1>13. s \in Seq(M) /\ (ask.mode = "all" /\ st = 200 => Listed(s, M))
    <2>1. e \in Seq(M)
      BY <1>7
    <2>2. Reads!FirstRow(some) \in Seq(M)
      BY <1>6, FirstRowType
    <2>3. CASE st # 200
      BY <1>9, <2>1, <2>3
    <2>4. CASE st = 200 /\ ask.mode = "all"
      BY <1>6, <1>9, <2>4
    <2>5. CASE st = 200 /\ ask.mode # "all"
      BY <1>9, <2>2, <2>5
    <2>6. QED
      BY <2>3, <2>4, <2>5
  <1>14. WalkOK(v, table)
    BY <1>1, <1>2, <1>10, <1>12, <1>13, FetchOK
  <1>15. QED
    BY <1>11, <1>14

(* A page: the count and the rows are read by two statements, and the next page follows. *)
LEMMA PageStep ==
  ASSUME ReadsInv, Reads!Page
  PROVE  WalkOK(walk', table')
  <1>1. /\ WalkOK(walk, table) /\ QueryOK(walk.call.query) /\ walk.req \in PageReq
        /\ walk.filter = Filter(walk.call) /\ walk.at = "rows" /\ walk.call.mode = "page"
    BY WalkingIs DEF Reads!Page
  <1>2. PICK ask, req, rows : /\ ask = walk.call /\ req = walk.req
                              /\ rows = Reads!Execute(Reads!page_sql(walk.filter, ask.order_by, req))
    OBVIOUS
  <1>3. req.per_page \in Nat /\ Reads!offset(req) \in Nat
    <2>1. PICK p, d : p = req.page /\ d = req.per_page
      OBVIOUS
    <2>2. p \in Nat \ {0} /\ d \in Nat
      BY <1>1, <1>2, <2>1 DEF PageReq
    <2>3. p - 1 \in Nat
      BY <2>2
    <2>4. (p - 1) * d \in Nat
      BY <2>2, <2>3
    <2>5. QED
      BY <2>1, <2>2, <2>4 DEF Reads!offset
  <1>4. rows = Cut(Found(Matching(table, ask), RowOrder(ask)), Reads!offset(req), req.per_page)
    BY <1>1, <1>2, <1>3, PageExecute
  <1>5. PICK st : st = Reads!query_all(rows, ask.type)
    OBVIOUS
  <1>6. st \in Nat
    BY <1>5, StatusType
  <1>7. PICK s, a : /\ s = (IF st = 200 THEN walk.seen \o rows ELSE walk.seen)
                    /\ a = (IF st = 200 /\ Reads!has_next(walk.total, req) THEN "count" ELSE "end")
    OBVIOUS
  <1>8. PICK v : v = [walk EXCEPT !.status = st, !.seen = s, !.at = a, !.req.page = @ + 1]
    OBVIOUS
  <1>9. walk' = v /\ table' = table
    BY <1>2, <1>5, <1>7, <1>8 DEF Reads!Page
  <1>10. WalkOK(v, table)
    <2>1. PICK w, T : w = walk /\ T = table
      OBVIOUS
    <2>2. WalkOK(w, T) /\ w.at = "rows" /\ w.call.mode = "page"
      BY <1>1, <2>1
    <2>3. rows = Cut(Found(Matching(T, w.call), RowOrder(w.call)), Reads!offset(w.req), w.req.per_page)
      BY <1>2, <1>4, <2>1
    <2>4. /\ s = (IF st = 200 THEN w.seen \o rows ELSE w.seen)
          /\ a = (IF st = 200 /\ Reads!has_next(w.total, w.req) THEN "count" ELSE "end")
      BY <1>2, <1>7, <2>1
    <2>5. v = [w EXCEPT !.status = st, !.seen = s, !.at = a, !.req.page = @ + 1]
      BY <1>8, <2>1
    <2>6. PageMove(w, T, rows, st, s, a, v)
      BY <1>6, <2>3, <2>4, <2>5 DEF PageMove
    <2>7. WalkOK(v, T)
      BY <2>2, <2>6, PageOK
    <2>8. QED
      BY <2>1, <2>7
  <1>11. QED
    BY <1>9, <1>10

(* A page with a cursor, which the next one starts from. *)
LEMMA CursorStep ==
  ASSUME ReadsInv, Reads!Cursor
  PROVE  WalkOK(walk', table')
  <1>1. /\ WalkOK(walk, table) /\ QueryOK(walk.call.query) /\ walk.req \in PageReq
        /\ table \subseteq Rows /\ walk.call \in QueryCalls /\ walk.after \in Value
        /\ walk.filter = Filter(walk.call) /\ walk.at = "rows" /\ walk.call.mode = "cursor"
    BY WalkingIs DEF Reads!Cursor
  <1>2. PICK ask, d, rows : /\ ask = walk.call /\ d = walk.req.per_page
                            /\ rows = Reads!Execute(CursorSql(ask, walk.after, d))
    OBVIOUS
  <1>3. PICK b, A, f : b = walk.after /\ A = Ahead(table, ask, b) /\ f = Found(A, CursorOrder(ask))
    OBVIOUS
  <1>4. d \in Nat \ {0}
    BY <1>1, <1>2 DEF PageReq
  <1>5. rows = Cut(f, 0, d + 1)
    <2>1. CASE b = None
      BY <1>1, <1>2, <1>3, <1>4, <2>1, CursorStarts
    <2>2. CASE b # None
      <3>1. b \in Nat
        BY <1>1, <1>3, <2>2 DEF Value
      <3>2. QED
        BY <1>1, <1>2, <1>3, <1>4, <2>2, <3>1, CursorGoesOn
    <2>3. QED
      BY <2>1, <2>2
  <1>6. f \in Seq(A)
    <2>1. A \in SUBSET Rows
      BY <1>1, <1>3 DEF Ahead
    <2>2. QED
      BY <1>1, <1>2, <1>3, <2>1, FoundType, CursorOrderType
  <1>7. PICK st, got : st = Reads!query_all(rows, ask.type) /\ got = Reads!CursorPage(rows, ask.col, d)
    OBVIOUS
  <1>8. PICK items, next : items = got.items /\ next = got.next_cursor
    OBVIOUS
  <1>9. IsPage(items, next, A, f, ask.col)
    BY <1>4, <1>5, <1>6, <1>7, <1>8, CursorPageIs
  <1>10. st \in Nat
    BY <1>7, StatusType
  <1>11. PICK s, a : /\ s = (IF st = 200 THEN walk.seen \o items ELSE walk.seen)
                     /\ a = (IF st = 200 /\ next # None THEN "rows" ELSE "end")
    OBVIOUS
  <1>12. PICK v : v = [walk EXCEPT !.status = st, !.seen = s, !.after = next, !.at = a]
    OBVIOUS
  <1>13. walk' = v /\ table' = table
    <2>1. CursorSql(ask, walk.after, d)
            = Reads!cursor_sql(walk.filter, walk.call.col, walk.call.desc, walk.after, walk.req.per_page)
      BY <1>1, <1>2 DEF CursorSql
    <2>2. QED
      BY <1>2, <1>7, <1>8, <1>11, <1>12, <2>1 DEF Reads!Cursor
  <1>14. WalkOK(v, table)
    <2>1. PICK w, T : w = walk /\ T = table
      OBVIOUS
    <2>2. WalkOK(w, T) /\ w.at = "rows" /\ w.call.mode = "cursor"
      BY <1>1, <2>1
    <2>3. A = Ahead(T, w.call, w.after) /\ f = Found(A, CursorOrder(w.call))
      BY <1>2, <1>3, <2>1
    <2>4. IsPage(items, next, A, f, w.call.col)
      BY <1>2, <1>9, <2>1
    <2>5. s = (IF st = 200 THEN w.seen \o items ELSE w.seen)
      BY <1>11, <2>1
    <2>6. v = [w EXCEPT !.status = st, !.seen = s, !.after = next, !.at = a]
      BY <1>12, <2>1
    <2>7. CursorMove(w, T, A, f, items, next, st, s, a, v)
      BY <1>10, <1>11, <2>3, <2>4, <2>5, <2>6 DEF CursorMove
    <2>8. WalkOK(v, T)
      BY <2>2, <2>7, CursorOn
    <2>9. QED
      BY <2>1, <2>8
  <1>15. QED
    BY <1>13, <1>14

(* A read that fails ends the walk with what was seen. *)
LEMMA ReadsFailStep ==
  ASSUME ReadsInv, NEW kind \in {"null_value", "connection_failed"}, Reads!QueryFails(kind)
  PROVE  WalkOK(walk', table')
  <1>1. WalkOK(walk, table)
    BY WalkingIs DEF Reads!QueryFails
  <1>2. PICK st : st = Reads!FromLibsqlError[kind]
    OBVIOUS
  <1>3. st \in Nat \ {200}
    BY <1>2 DEF Reads!FromLibsqlError
  <1>4. PICK v : v = [walk EXCEPT !.at = "end", !.status = st]
    OBVIOUS
  <1>5. walk' = v /\ table' = table
    BY <1>2, <1>4 DEF Reads!QueryFails
  <1>6. WalkOK(v, table)
    BY <1>1, <1>3, <1>4, FailsOK
  <1>7. QED
    BY <1>5, <1>6

(* Others insert and delete: the row is touched. *)
LEMMA ReadsWriteStep ==
  ASSUME ReadsInv, NEW row \in Rows, Reads!Write(row)
  PROVE  WalkOK(walk', table')
  <1>1. WalkOK(walk, table) /\ walk.at # "end"
    BY WalkingIs DEF Reads!Write
  <1>2. PICK v, U : /\ v = [walk EXCEPT !.touched = @ \cup {row}]
                    /\ U = IF row \in table THEN table \ {row} ELSE table \cup {row}
    OBVIOUS
  <1>3. walk' = v /\ table' = U
    BY <1>2 DEF Reads!Write
  <1>4. WalkOK(v, U)
    BY <1>1, <1>2, WriteOK
  <1>5. QED
    BY <1>3, <1>4

(* Every step keeps the invariant. *)
LEMMA ReadsStep ==
  ASSUME ReadsInv, [Reads!Next]_(Reads!vars)
  PROVE  ReadsInv'
  <1>1. ASSUME WalkOK(walk', table')
        PROVE  ReadsInv'
    BY <1>1 DEF ReadsInv, WalkOK
  <1>2. ASSUME NEW ask \in QueryCalls, Reads!Begin(ask)
        PROVE  ReadsInv'
    BY <1>1, <1>2, BeginOK DEF ReadsInv
  <1>3. CASE Reads!Count
    BY <1>1, <1>3, CountStep
  <1>4. CASE Reads!Page
    BY <1>1, <1>4, PageStep
  <1>5. CASE Reads!Cursor
    BY <1>1, <1>5, CursorStep
  <1>6. CASE Reads!Fetch
    BY <1>1, <1>6, FetchStep
  <1>7. ASSUME NEW kind \in {"null_value", "connection_failed"}, Reads!QueryFails(kind)
        PROVE  ReadsInv'
    BY <1>1, <1>7, ReadsFailStep
  <1>8. ASSUME NEW row \in Rows, Reads!Write(row)
        PROVE  ReadsInv'
    BY <1>1, <1>8, ReadsWriteStep
  <1>9. CASE UNCHANGED Reads!vars
    <2>1. table' = table /\ walk' = walk
      BY <1>9 DEF Reads!vars
    <2>2. QED
      BY <2>1 DEF ReadsInv
  <1>10. QED
    BY <1>2, <1>3, <1>4, <1>5, <1>6, <1>7, <1>8, <1>9 DEF Reads!Next

(* Whatever the rows, the filter, the order and the page sizes, and        *)
(* whatever others insert and delete between its requests, a client that   *)
(* reads to the end sees only rows it asked for; of those that were there  *)
(* throughout it sees with a cursor none twice and, if the column is       *)
(* unique and always there, each exactly once; with page numbers each      *)
(* exactly once when the table does not change (select.rs:88-234 over      *)
(* filter.rs:128-274).                                                     *)
THEOREM WalksSeeEachOnce == Reads!Spec => []WalkSeesEachOnce
  <1>1. Reads!Init => ReadsInv
    BY DEF Reads!Init, ReadsInv
  <1>2. ReadsInv /\ [Reads!Next]_(Reads!vars) => ReadsInv'
    BY ReadsStep
  <1>3. ReadsInv => WalkSeesEachOnce
    BY OnceSeen
  <1>4. QED
    BY <1>1, <1>2, <1>3, PTL DEF Reads!Spec
=============================================================================
