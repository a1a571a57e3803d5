----------------------------- MODULE Databases ------------------------------
(***************************************************************************)
(* Opening databases (src/db): the pool that opens a shard at its first    *)
(* use (pool.rs), connect (connect.rs) and the migrations that run on      *)
(* every connect (migrate.rs), called by requests of several processes     *)
(* that share the files, with statements that fail, crashes, and           *)
(* migration files that are edited after they were applied.                *)
(*                                                                         *)
(* SQLite is external: a transaction takes the write lock at its first     *)
(* write, a statement that needs a lock another holds fails after the busy *)
(* timeout, and what was not committed is gone when a connection closes.   *)
(* Whether a migration can be applied twice is up to its SQL, so a batch   *)
(* that was applied before may succeed or fail.                            *)
(***************************************************************************)
EXTENDS Naturals, Sequences, FiniteSets

CONSTANTS
  Migrations,      \* the names of the migration files, sorted
  Contents,        \* what a file may hold
  Checksum,        \* the checksum of each content
  Shards,          \* the names of shards
  Default,         \* stands for the default database
  BadName,         \* a name no file may have
  Callers,         \* requests
  Processes,
  NoDb

ASSUME DatabasesAssumption ==
  /\ Migrations \in Seq(STRING)
  /\ Contents # {} /\ Checksum \in [Contents -> Nat]
  /\ Default \notin Shards /\ BadName \notin Shards

VARIABLES
  memory,          \* whether the pool's base path is ":memory:"
  process,         \* the process of each caller
  files,           \* the content of each migration file
  store,           \* of each database, what is committed
  lock,            \* of each database, who writes to it
  pool,            \* of each process, the database open under each name
  caller           \* what each caller is doing

vars == <<memory, process, files, store, lock, pool, caller>>

Names == Shards \cup {Default}

(* A file for each name, and the memory each caller may open instead. *)
Stores == ({NoDb} \X Names) \cup (Callers \X Shards)

ASSUME NoDbAssumption == NoDb \notin Callers \cup Stores

(* effects is what was applied and committed, records is _migrations. *)
Empty == [effects |-> <<>>, records |-> <<>>]

Idle == [at |-> "idle", name |-> Default, db |-> NoDb, sql |-> <<>>, i |-> 0,
         held |-> NoDb]

(* The migrations as they were first written. *)
Released == [m \in 1 .. Len(Migrations) |-> CHOOSE v \in Contents : TRUE]

Init ==
  /\ memory \in BOOLEAN
  /\ process \in [Callers -> Processes]
  /\ files = Released
  /\ store = [d \in Stores |-> Empty]
  /\ lock = [d \in Stores |-> NoDb]
  /\ pool = [p \in Processes |-> [n \in Names |-> NoDb]]
  /\ caller = [c \in Callers |-> Idle]

(* A checksum is a number of fixed width: FNV-1a over the bytes. *)
fnv1a_hex(sql) == Checksum[sql]

At(c, step) == caller[c].at = step

Returns(c, db) == caller' = [caller EXCEPT ![c] = [Idle EXCEPT !.held = db]]
Rejects(c) == caller' = [caller EXCEPT ![c] = Idle]

(* connect begins: the database is opened and the pragmas are set. *)
Connects(c, name) ==
  LET db == <<IF memory /\ name # Default THEN c ELSE NoDb, name>> IN
  /\ caller' = [caller EXCEPT ![c] = [Idle EXCEPT !.at = "create", !.name = name, !.db = db]]
  /\ store' = IF db[1] = c THEN [store EXCEPT ![db] = Empty] ELSE store
  /\ UNCHANGED <<memory, process, files, lock, pool>>

(* DatabasePool::new opens the default database. *)
New(c) ==
  /\ At(c, "idle")
  /\ pool[process[c]][Default] = NoDb
  /\ Connects(c, Default)

(* DatabasePool::conn: None is the default database, a name that would     *)
(* leave the directory is refused (400), an open shard is returned.        *)
Conn(c, name) ==
  /\ At(c, "idle")
  /\ pool[process[c]][Default] # NoDb
  /\ \/ /\ name = BadName
        /\ Rejects(c)
        /\ UNCHANGED <<memory, process, files, store, lock, pool>>
     \/ /\ name \in Names
        /\ pool[process[c]][name] # NoDb
        /\ Returns(c, pool[process[c]][name])
        /\ UNCHANGED <<memory, process, files, store, lock, pool>>
     \/ /\ name \in Shards
        /\ pool[process[c]][name] = NoDb
        /\ Connects(c, name)

-----------------------------------------------------------------------------
(* migrate. *)

Unlocked(c) == lock[caller[c].db] = NoDb
Step(c, step) == caller' = [caller EXCEPT ![c].at = step]

(* CREATE TABLE IF NOT EXISTS _migrations; then the files are read. *)
CreateTable(c) ==
  /\ At(c, "create")
  /\ Unlocked(c)
  /\ caller' = [caller EXCEPT ![c].at = "select", ![c].sql = files, ![c].i = 1]
  /\ UNCHANGED <<memory, process, files, store, lock, pool>>

(* SELECT checksum, outside any transaction: a migration with another      *)
(* checksum ends the call, an applied one is skipped, for a new one a      *)
(* transaction begins, which does not lock anything yet.                   *)
Select(c) ==
  LET me == caller[c]
      records == store[me.db].records
      sum == fnv1a_hex(me.sql[me.i]) IN
  /\ At(c, "select")
  /\ me.i <= Len(Migrations)
  /\ \/ /\ Len(records) >= me.i
        /\ records[me.i] # sum
        /\ Rejects(c)
     \/ /\ Len(records) >= me.i
        /\ records[me.i] = sum
        /\ caller' = [caller EXCEPT ![c].i = me.i + 1]
     \/ /\ Len(records) < me.i
        /\ Step(c, "batch")
  /\ UNCHANGED <<memory, process, files, store, lock, pool>>

(* execute_batch: the first write takes the lock.  The migration may have  *)
(* been committed by another since the SELECT; its SQL may allow that.     *)
Batch(c) ==
  /\ At(c, "batch")
  /\ Unlocked(c)
  /\ lock' = [lock EXCEPT ![caller[c].db] = c]
  /\ Step(c, "record")
  /\ UNCHANGED <<memory, process, files, store, pool>>

(* Fault: INSERT OR IGNORE. *)
Record_ignore(c) ==
  /\ At(c, "record")
  /\ Step(c, "commit")
  /\ UNCHANGED <<memory, process, files, store, lock, pool>>

(* INSERT INTO _migrations: name is the primary key. *)
Record(c) ==
  /\ At(c, "record")
  /\ Len(store[caller[c].db].records) < caller[c].i
  /\ Step(c, "commit")
  /\ UNCHANGED <<memory, process, files, store, lock, pool>>

(* COMMIT: the effect and the record together. *)
Commit(c) ==
  LET me == caller[c] IN
  /\ At(c, "commit")
  /\ store' = [store EXCEPT ![me.db] =
                 [effects |-> Append(@.effects, <<me.i, me.sql[me.i]>>),
                  records |-> Append(@.records, fnv1a_hex(me.sql[me.i]))]]
  /\ lock' = [lock EXCEPT ![me.db] = NoDb]
  /\ caller' = [caller EXCEPT ![c].at = "select", ![c].i = me.i + 1]
  /\ UNCHANGED <<memory, process, files, pool>>

(* A statement fails, for the lock, the primary key or what the SQL says:  *)
(* ROLLBACK where a transaction is open, and the connection is dropped.    *)
(* The error of a shard is wrapped in another with the same status.        *)
Fails(c) ==
  /\ caller[c].at \in {"create", "select", "batch", "record", "commit"}
  /\ Rejects(c)
  /\ lock' = [d \in Stores |-> IF lock[d] = c THEN NoDb ELSE lock[d]]
  /\ UNCHANGED <<memory, process, files, store, pool>>

(* All migrations are done: the pool's entry is replaced. *)
Insert(c) ==
  LET me == caller[c] IN
  /\ At(c, "select")
  /\ me.i > Len(Migrations)
  /\ pool' = [pool EXCEPT ![process[c]][me.name] = me.db]
  /\ Returns(c, me.db)
  /\ UNCHANGED <<memory, process, files, store, lock>>

-----------------------------------------------------------------------------
(* ManagedDatabasePool::shutdown drops the handles; a crash does so at any *)
(* point of a call.  Databases in memory are gone with them.               *)
Stop(p) ==
  LET mine == {c \in Callers : process[c] = p} IN
  /\ pool' = [pool EXCEPT ![p] = [n \in Names |-> NoDb]]
  /\ caller' = [c \in Callers |-> IF c \in mine THEN Idle ELSE caller[c]]
  /\ lock' = [d \in Stores |-> IF lock[d] \in mine THEN NoDb ELSE lock[d]]
  /\ store' = [d \in Stores |-> IF d[1] \in mine THEN Empty ELSE store[d]]
  /\ UNCHANGED <<memory, process, files>>

(* A deployment brings a migration file with other contents, once. *)
Deploy ==
  /\ files = Released
  /\ \E m \in DOMAIN files, v \in Contents : files' = [files EXCEPT ![m] = v]
  /\ UNCHANGED <<memory, process, store, lock, pool, caller>>

Next ==
  \/ \E c \in Callers :
       \/ New(c)
       \/ \E name \in Names \cup {BadName} : Conn(c, name)
       \/ CreateTable(c)
       \/ Select(c)
       \/ Batch(c)
       \/ Record(c)
       \/ Commit(c)
       \/ Fails(c)
       \/ Insert(c)
  \/ \E p \in Processes : Stop(p)
  \/ Deploy

Spec == Init /\ [][Next]_vars

-----------------------------------------------------------------------------
(* Every handle a caller or a pool holds. *)
Handles ==
  {d \in Stores : \/ \E c \in Callers : caller[c].held = d
                  \/ \E p \in Processes, n \in Names : pool[p][n] = d}

(* migrate.rs:69-116: whatever callers and processes open a database at    *)
(* the same time, and whatever fails, each migration takes effect once, in *)
(* the order of the files, together with its record, and no caller gets a  *)
(* database before all of them did.                                        *)
MigratedOnce ==
  /\ \A d \in Stores :
       /\ Len(store[d].effects) = Len(store[d].records)
       /\ \A i \in DOMAIN store[d].effects :
            /\ store[d].effects[i][1] = i
            /\ store[d].records[i] = fnv1a_hex(store[d].effects[i][2])
  /\ \A d \in Handles : Len(store[d].effects) = Len(Migrations)
=============================================================================
