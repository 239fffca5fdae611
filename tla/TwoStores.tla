------------------------------- MODULE TwoStores -------------------------------
(***************************************************************************)
(* Every plugin has its repository twice: over slices and maps under one   *)
(* lock (repo/memory.go), which the tests use and a host without a         *)
(* database, and over tables (repo/gorm.go).  A call is made to both here, *)
(* and what they answer is compared: this module has the two stores and    *)
(* what the operations of all the plugins share.                           *)
(*                                                                         *)
(* The memory's operations hold the lock and run alone.  The database's    *)
(* are taken one at a time too: what happens between their statements is   *)
(* the subject of the modules of the services.                             *)
(***************************************************************************)
EXTENDS Naturals, Sequences, FiniteSets, Functions

CONSTANTS
  Areas,  \* what is compared together: the tables in use and those of them
          \* with a row at the start
  MaxId   \* bound: the largest id given to a row

Table == {"user", "history", "role", "menu", "dept", "rule", "scope", "plugin",
          "loginLog", "operaLog", "session", "dictType", "dictData", "config",
          "notice", "scheduler", "result", "storage", "scene"}

LinkTable == {"userRole", "roleMenu", "roleScope", "scopeRule"}

ASSUME AreaAssumption ==
  Areas \subseteq [tables: SUBSET Table, seeded: SUBSET Table]
ASSUME BoundAssumption == MaxId \in Nat \ {0}

VARIABLES
  area,   \* the tables compared, from the start
  mem,    \* the repository in memory
  db,     \* the one in the database
  said,   \* how the answers to the last call were: alike, different, or
          \* different as they are known to be
  parted  \* such a call has changed one of the stores

vars == <<area, mem, db, said, parted>>

-----------------------------------------------------------------------------
(* Rows and stores.                                                        *)

Ids == 1 .. MaxId
Val == {1, 2}

\* "val" stands for what the row says, its name or code first; "ref" is the
\* row it belongs to (a user's department, a parent, a type, a code, 0 for
\* none); "on" is its flag; users, departments and configurations are only marked
\* as deleted.
Row == [id: Ids, val: Val, ref: (0 .. MaxId) \cup Val, on: BOOLEAN,
        deleted: BOOLEAN]

NewRow(v, ref, on) == [val |-> v, ref |-> ref, on |-> on, deleted |-> FALSE]
WithId(id, r) == [id |-> id, val |-> r.val, ref |-> r.ref, on |-> r.on,
                  deleted |-> r.deleted]

\* The memory keeps a list of ids for each id, the database pairs of ids.
MemStore == [tab: [Table -> SUBSET Row], next: [Table -> 1 .. MaxId + 1],
             link: [LinkTable -> [Ids -> Seq(Ids)]], changed: BOOLEAN]
DbStore  == [tab: [Table -> SUBSET Row], next: [Table -> 1 .. MaxId + 1],
             link: [LinkTable -> SUBSET (Ids \X Ids)], changed: BOOLEAN]

Repeats(s) == Cardinality(Range(s)) # Len(s)

\* Rows of table K that an operation on S changes or takes away.
Find(s, K, S) == {r \in s.tab[K] : r.id \in S /\ ~r.deleted}
Has(s, K, id) == Find(s, K, {id}) # {}

Change(s, K, S, f(_)) ==
  [s EXCEPT !.tab[K] = {IF r \in S THEN f(r) ELSE r : r \in @}]
Without(s, K, S) == [s EXCEPT !.tab[K] = @ \ S]

\* A row is added under the id the table gives out next.
Add(s, K, r) == [s EXCEPT !.tab[K] = @ \cup {WithId(s.next[K], r)},
                          !.next[K] = @ + 1]

-----------------------------------------------------------------------------
(* Answers.                                                                *)

Ok(s)         == [store |-> s, said |-> <<"ok", 0>>]
Counted(s, n) == [store |-> s, said |-> <<"ok", n>>]
NotFound(s)   == [store |-> s, said |-> <<"notFound", 0>>]
Conflict(s)   == [store |-> s, said |-> <<"conflict", 0>>]

\* rowsError: no row affected is "not found".
RowsError(found, s, t) == IF found THEN Ok(t) ELSE NotFound(s)

\* A transaction that fails leaves nothing.
Tx(d, r) == IF r.said[1] = "ok" THEN r ELSE [r EXCEPT !.store = d]

\* The same call to both; "odd" if the difference is known.
Both(tables, m, d, odd) ==
  /\ tables \subseteq area.tables
  /\ ~parted
  /\ mem' = m.store
  /\ db' = d.store
  /\ said' = IF m.said = d.said THEN "alike" ELSE IF odd THEN "odd"
             ELSE "different"
  /\ parted' = (odd /\ (mem' # mem \/ db' # db))
  /\ UNCHANGED area

CanAdd(K) == mem.next[K] <= MaxId /\ db.next[K] <= MaxId

-----------------------------------------------------------------------------
\* Seeds have the first ids, and the next ids come after them.
NewStore(tables, links) ==
  [tab  |-> [K \in Table |-> IF K \in tables
                             THEN {WithId(1, NewRow(1, 0, TRUE))} ELSE {}],
   next |-> [K \in Table |-> IF K \in tables THEN 2 ELSE 1],
   link |-> links, changed |-> FALSE]

NewMemoryRepository(tables) ==
  NewStore(tables, [L \in LinkTable |-> [x \in Ids |-> <<>>]])

\* A database with the same rows.
NewGormRepository(tables) == NewStore(tables, [L \in LinkTable |-> {}])

Init ==
  /\ area \in Areas
  /\ mem = NewMemoryRepository(area.seeded)
  /\ db = NewGormRepository(area.seeded)
  /\ said = "alike"
  /\ parted = FALSE
=============================================================================
