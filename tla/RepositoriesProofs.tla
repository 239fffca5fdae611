-------------------------- MODULE RepositoriesProofs --------------------------
(***************************************************************************)
(* Proofs about the repositories: memory and database answer every call    *)
(* alike and read alike, and no link dangles.  The inductive invariant     *)
(* says that each store is in order and, until a call that is known to     *)
(* differ has changed one, that they hold the same.  A call keeps it when  *)
(* its two answers agree (Agree): there is a lemma for each call, and the  *)
(* theorems are at the end.                                                *)
(***************************************************************************)
EXTENDS Repositories, FiniteSetTheorems, WellFoundedInduction,
        NaturalsInduction, TLAPS

-----------------------------------------------------------------------------
(* What holds of the stores.                                               *)

\* What a link is from, and what it is to.
From == [userRole |-> "user", roleMenu |-> "role", roleScope |-> "role",
         scopeRule |-> "scope"]
To   == [userRole |-> "role", roleMenu |-> "menu", roleScope |-> "scope",
         scopeRule |-> "rule"]

\* Ids of roles and rules are given once, and none of these is only marked.
Counts(s) ==
  \A K \in {"role", "rule"} : \A r \in s.tab[K] :
    /\ r.id < s.next[K] /\ ~r.deleted
    /\ \A t \in s.tab[K] : r.id = t.id => r = t

\* A list of the memory names what is there, or a rule that was.
MemLive(m) ==
  \A L \in LinkTable, x \in Ids : \A y \in Range(m.link[L][x]) :
    /\ Has(m, From[L], x)
    /\ Has(m, To[L], y) \/ (L = "scopeRule" /\ y < m.next["rule"])
DbLive(d) ==
  \A L \in LinkTable : \A l \in d.link[L] :
    Has(d, From[L], l[1]) /\ Has(d, To[L], l[2])

\* A store is in order.
MemFits(m) == m \in MemStore /\ Counts(m) /\ MemLive(m)
DbFits(d)  == d \in DbStore /\ Counts(d) /\ DbLive(d)
Fits(m, d) == MemFits(m) /\ DbFits(d)

\* What an id of a list names.
Names(m, L, x) == {y \in Range(m.link[L][x]) : Has(m, To[L], y)}

\* Tables that have the same rows and count alike.
Plain == Table \ {"dept", "dictType", "dictData", "scene", "storage"}

\* Both stores have the same rows,
AlikeRows(m, d) ==
  /\ \A K \in Plain : m.tab[K] = d.tab[K] /\ m.next[K] = d.next[K]
  /\ m.next["dept"] = d.next["dept"]
  /\ m.tab["dept"] = {x \in d.tab["dept"] : ~x.deleted}
  /\ \A K \in {"dictType", "dictData"} : m.tab[K] = d.tab[K]
  /\ \A K \in {"scene", "storage"} :
       /\ Coded(m.tab[K]) = Coded(d.tab[K])
       /\ \A r \in m.tab[K] : r.id < d.next[K]
  /\ m.changed = d.changed

\* and the same links.
AlikeLinks(m, d) ==
  \A L \in LinkTable, x \in Ids : Names(m, L, x) = Linked(d, L, x)

Alike(m, d) == AlikeRows(m, d) /\ AlikeLinks(m, d)

\* The inductive invariant.  After a call that has parted them there is none.
StoresInv ==
  /\ said \in {"alike", "odd"} /\ parted \in BOOLEAN /\ area \in Areas
  /\ Fits(mem, db)
  /\ ~parted => Alike(mem, db)

\* A pair of answers that keeps it.
Agree(m, d, odd) ==
  /\ Fits(m.store, d.store)
  /\ odd \/ (m.said = d.said /\ Alike(m.store, d.store))

\* Every call is made so.
LEMMA BothKeeps ==
  ASSUME StoresInv, NEW tables, NEW m, NEW d, NEW odd,
         ~parted => Agree(m, d, odd), Both(tables, m, d, odd)
  PROVE  StoresInv'
<1>1. /\ ~parted /\ Fits(mem, db) /\ Alike(mem, db) /\ Agree(m, d, odd)
      /\ mem' = m.store /\ db' = d.store
      /\ said' = IF m.said = d.said THEN "alike" ELSE IF odd THEN "odd"
                 ELSE "different"
      /\ parted' = (odd /\ (mem' # mem \/ db' # db))
      /\ area' = area /\ area \in Areas
  BY DEF Both, StoresInv
<1>2. said' \in {"alike", "odd"} /\ parted' \in BOOLEAN
  BY <1>1 DEF Agree
<1>3. Fits(m.store, d.store)
  BY <1>1 DEF Agree
<1>4. ~parted' => Alike(m.store, d.store)
  BY <1>1 DEF Agree
<1>5. (Fits(mem, db))' /\ (~parted => Alike(mem, db))'
  BY <1>1, <1>3, <1>4
<1> QED BY <1>1, <1>2, <1>5 DEF StoresInv

-----------------------------------------------------------------------------
(* A table of a store.                                                     *)

Stores == MemStore \cup DbStore

\* A store with these rows in table K, and this next id.
Place(s, K, T, n) == [s EXCEPT !.tab[K] = T, !.next[K] = n]

\* The rest of it stays.
LEMMA PlaceFields ==
  ASSUME NEW s \in Stores, NEW K \in Table, NEW T, NEW n
  PROVE  LET a == Place(s, K, T, n)
         IN  /\ a.link = s.link /\ a.changed = s.changed
             /\ a.tab[K] = T /\ a.next[K] = n
             /\ \A J \in Table \ {K} :
                  a.tab[J] = s.tab[J] /\ a.next[J] = s.next[J]
             /\ s \in MemStore /\ T \in SUBSET Row /\ n \in 1 .. MaxId + 1
                  => a \in MemStore
             /\ s \in DbStore /\ T \in SUBSET Row /\ n \in 1 .. MaxId + 1
                  => a \in DbStore
BY DEF Place, Stores, MemStore, DbStore

\* What a store has.
LEMMA StoreFields ==
  ASSUME NEW s \in Stores
  PROVE  /\ \A K \in Table : s.tab[K] \in SUBSET Row
         /\ \A K \in Table : s.next[K] \in 1 .. MaxId + 1
         /\ s.changed \in BOOLEAN
         /\ s \in MemStore =>
              \A L \in LinkTable, x \in Ids : s.link[L][x] \in Seq(Ids)
         /\ s \in DbStore => \A L \in LinkTable : s.link[L] \in SUBSET (Ids \X Ids)
BY DEF Stores, MemStore, DbStore

\* New rows alone.
LEMMA PlaceRows ==
  ASSUME NEW s \in Stores, NEW K \in Table, NEW T
  PROVE  [s EXCEPT !.tab[K] = T] = Place(s, K, T, s.next[K])
BY DEF Place, Stores, MemStore, DbStore

\* A new row is placed,
LEMMA AddIs ==
  ASSUME NEW s \in Stores, NEW K \in Table, NEW r
  PROVE  Add(s, K, r) =
           Place(s, K, s.tab[K] \cup {WithId(s.next[K], r)}, s.next[K] + 1)
BY DEF Add, Place, Stores, MemStore, DbStore

\* as are the others when rows are taken away.
LEMMA WithoutIs ==
  ASSUME NEW s \in Stores, NEW K \in Table, NEW S
  PROVE  Without(s, K, S) = Place(s, K, s.tab[K] \ S, s.next[K])
BY DEF Without, Place, Stores, MemStore, DbStore

\* What is there has a row that is not marked.
LEMMA HasIs ==
  ASSUME NEW s, NEW K, NEW id
  PROVE  Has(s, K, id) <=> \E r \in s.tab[K] : r.id = id /\ ~r.deleted
BY DEF Has, Find

\* A store stays in order when its links stay and what is there stays.
LEMMA MemFrame ==
  ASSUME NEW m, NEW a \in MemStore, MemFits(m), Counts(a), a.link = m.link,
         \A K \in Table, id \in Ids : Has(m, K, id) => Has(a, K, id),
         m.next["rule"] <= a.next["rule"]
  PROVE  MemFits(a)
<1>1. \A L \in LinkTable : From[L] \in Table /\ To[L] \in Table
  BY DEF LinkTable, From, To, Table
<1>2. \A L \in LinkTable, x \in Ids : Range(m.link[L][x]) \subseteq Ids
  BY DEF MemFits, MemStore, Range
<1>3. "rule" \in Table /\ m.next["rule"] \in Nat /\ a.next["rule"] \in Nat
  <2>1. "rule" \in Table /\ 1 .. MaxId + 1 \subseteq Nat
    BY BoundAssumption DEF Table
  <2> QED BY <2>1 DEF MemFits, MemStore
<1>4. MemLive(m)
  BY DEF MemFits
<1>5. MemLive(a)
  <2> SUFFICES ASSUME NEW L \in LinkTable, NEW x \in Ids,
                      NEW y \in Range(m.link[L][x])
               PROVE  /\ Has(a, From[L], x)
                      /\ Has(a, To[L], y) \/ (L = "scopeRule" /\ y < a.next["rule"])
    BY DEF MemLive
  <2>1. y \in Ids
    BY <1>2
  <2>2. y < m.next["rule"] => y < a.next["rule"]
    BY <1>3, <2>1, BoundAssumption DEF Ids
  <2> QED BY <1>1, <1>4, <2>1, <2>2 DEF MemLive
<1> QED BY <1>5 DEF MemFits

\* The same of the database.
LEMMA DbFrame ==
  ASSUME NEW d, NEW b \in DbStore, DbFits(d), Counts(b), b.link = d.link,
         \A K \in Table, id \in Ids : Has(d, K, id) => Has(b, K, id)
  PROVE  DbFits(b)
<1>1. \A L \in LinkTable : From[L] \in Table /\ To[L] \in Table
  BY DEF LinkTable, From, To, Table
<1>2. \A L \in LinkTable : \A l \in d.link[L] : l[1] \in Ids /\ l[2] \in Ids
  BY DEF DbFits, DbStore
<1> QED BY <1>1, <1>2 DEF DbFits, DbLive

-----------------------------------------------------------------------------
(* Rows that are alike stay so.                                            *)

\* Rows and next ids of table K that are alike.
SameRows(K, T, U, n, k) ==
  /\ K \in Plain => T = U /\ n = k
  /\ K = "dept" => n = k /\ T = {x \in U : ~x.deleted}
  /\ K \in {"dictType", "dictData"} => T = U
  /\ K \in {"scene", "storage"} =>
       Coded(T) = Coded(U) /\ \A r \in T : r.id < k

\* The same rows placed in both, whatever the links are.
LEMMA PlaceAlikeRows ==
  ASSUME NEW m \in Stores, NEW d \in Stores, AlikeRows(m, d),
         NEW K \in Table, NEW T, NEW U, NEW n, NEW k, SameRows(K, T, U, n, k)
  PROVE  AlikeRows(Place(m, K, T, n), Place(d, K, U, k))
<1> DEFINE a == Place(m, K, T, n)
           b == Place(d, K, U, k)
<1>1. /\ a.changed = m.changed
      /\ a.tab[K] = T /\ a.next[K] = n
      /\ \A J \in Table \ {K} : a.tab[J] = m.tab[J] /\ a.next[J] = m.next[J]
  BY PlaceFields
<1>2. /\ b.changed = d.changed
      /\ b.tab[K] = U /\ b.next[K] = k
      /\ \A J \in Table \ {K} : b.tab[J] = d.tab[J] /\ b.next[J] = d.next[J]
  BY PlaceFields
<1> HIDE DEF a, b
<1>5. /\ \A J \in Plain : a.tab[J] = b.tab[J] /\ a.next[J] = b.next[J]
      /\ a.next["dept"] = b.next["dept"]
      /\ a.tab["dept"] = {x \in b.tab["dept"] : ~x.deleted}
  BY <1>1, <1>2 DEF AlikeRows, SameRows, Plain, Table
<1>6. /\ \A J \in {"dictType", "dictData"} : a.tab[J] = b.tab[J]
      /\ \A J \in {"scene", "storage"} :
           /\ Coded(a.tab[J]) = Coded(b.tab[J])
           /\ \A r \in a.tab[J] : r.id < b.next[J]
  BY <1>1, <1>2 DEF AlikeRows, SameRows, Plain, Table
<1>7. AlikeRows(a, b)
  BY <1>1, <1>2, <1>5, <1>6 DEF AlikeRows
<1> QED BY <1>7 DEF a, b

\* The links stay alike when what the lists name stays.
LEMMA PlaceAlike ==
  ASSUME NEW m \in Stores, NEW d \in Stores, Alike(m, d),
         NEW K \in Table, NEW T, NEW U, NEW n, NEW k, SameRows(K, T, U, n, k),
         \A L \in LinkTable, x \in Ids : \A y \in Range(m.link[L][x]) :
           Has(Place(m, K, T, n), To[L], y) <=> Has(m, To[L], y)
  PROVE  Alike(Place(m, K, T, n), Place(d, K, U, k))
<1> DEFINE a == Place(m, K, T, n)
           b == Place(d, K, U, k)
<1>1. a.link = m.link /\ b.link = d.link /\ AlikeRows(a, b)
  BY PlaceFields, PlaceAlikeRows DEF Alike
<1>3. \A L \in LinkTable, x \in Ids :
        \A y \in Range(m.link[L][x]) : Has(a, To[L], y) <=> Has(m, To[L], y)
  OBVIOUS
<1> HIDE DEF a, b
<1>4. AlikeLinks(a, b)
  BY <1>1, <1>3 DEF Alike, AlikeLinks, Names, Linked
<1>7. Alike(a, b)
  BY <1>1, <1>4 DEF Alike
<1> QED BY <1>7 DEF a, b

-----------------------------------------------------------------------------
(* Rows that are edited.                                                   *)

\* An edit of a row leaves its id and its mark.
Keeps(g) ==
  /\ g \in [Row -> Row]
  /\ \A r \in Row : g[r].id = r.id /\ g[r].deleted = r.deleted

Edited(T, S, g)  == {IF r \in S THEN g[r] ELSE r : r \in T}
Edit(s, K, S, g) == Place(s, K, Edited(s.tab[K], S, g), s.next[K])

\* The ids there are stay.
LEMMA EditedRows ==
  ASSUME NEW T \in SUBSET Row, NEW S, NEW g, Keeps(g)
  PROVE  /\ Edited(T, S, g) \in SUBSET Row
         /\ \A r \in T : \E e \in Edited(T, S, g) :
              e.id = r.id /\ e.deleted = r.deleted
         /\ \A e \in Edited(T, S, g) : \E r \in T :
              /\ e.id = r.id /\ e.deleted = r.deleted
              /\ e = IF r \in S THEN g[r] ELSE r
BY DEF Edited, Keeps

\* An edit changes nothing about what is there,
LEMMA EditHas ==
  ASSUME NEW s \in Stores, NEW K \in Table, NEW S, NEW g, Keeps(g),
         NEW J \in Table, NEW id
  PROVE  Has(Edit(s, K, S, g), J, id) <=> Has(s, J, id)
<1> DEFINE a == Edit(s, K, S, g)
<1>1. /\ a.tab[K] = Edited(s.tab[K], S, g)
      /\ J # K => a.tab[J] = s.tab[J]
  BY PlaceFields DEF Edit
<1> HIDE DEF a
<1>2. s.tab[K] \in SUBSET Row
  BY StoreFields
<1>3. Has(a, J, id) <=> Has(s, J, id)
  BY <1>1, <1>2, EditedRows, HasIs
<1> QED BY <1>3 DEF a

\* nor about the ids,
LEMMA EditCounts ==
  ASSUME NEW s \in Stores, NEW K \in Table, NEW S, NEW g, Keeps(g), Counts(s)
  PROVE  Counts(Edit(s, K, S, g))
<1> DEFINE a == Edit(s, K, S, g)
<1>1. /\ a.tab[K] = Edited(s.tab[K], S, g) /\ a.next[K] = s.next[K]
      /\ \A J \in Table \ {K} : a.tab[J] = s.tab[J] /\ a.next[J] = s.next[J]
  BY PlaceFields DEF Edit
<1> HIDE DEF a
<1>2. s.tab[K] \in SUBSET Row
  BY StoreFields
<1>3. SUFFICES ASSUME NEW J \in {"role", "rule"}, NEW r \in a.tab[J]
      PROVE  /\ r.id < a.next[J] /\ ~r.deleted
             /\ \A t \in a.tab[J] : r.id = t.id => r = t
  BY DEF Counts, a
<1>4. CASE J # K
  BY <1>1, <1>3, <1>4 DEF Counts, Table
<1>5. CASE J = K
  <2>1. PICK o \in s.tab[K] : /\ r.id = o.id /\ r.deleted = o.deleted
                              /\ r = IF o \in S THEN g[o] ELSE o
    BY <1>1, <1>2, <1>3, <1>5, EditedRows
  <2>2. o.id < s.next[K] /\ ~o.deleted
    BY <1>5, <2>1 DEF Counts
  <2>3. ASSUME NEW t \in a.tab[J], r.id = t.id
        PROVE  r = t
    <3>1. PICK u \in s.tab[K] : /\ t.id = u.id
                                /\ t = IF u \in S THEN g[u] ELSE u
      BY <1>1, <1>2, <1>5, EditedRows
    <3>2. u = o
      BY <1>5, <2>1, <2>3, <3>1 DEF Counts
    <3> QED BY <2>1, <3>1, <3>2
  <2> QED BY <1>1, <1>5, <2>1, <2>2, <2>3
<1> QED BY <1>4, <1>5

\* nor about the rest of the store.
LEMMA EditStores ==
  ASSUME NEW s \in Stores, NEW K \in Table, NEW S, NEW g, Keeps(g)
  PROVE  /\ s \in MemStore => Edit(s, K, S, g) \in MemStore
         /\ s \in DbStore => Edit(s, K, S, g) \in DbStore
         /\ Edit(s, K, S, g).link = s.link
         /\ \A J \in Table : Edit(s, K, S, g).next[J] = s.next[J]
         /\ Edit(s, K, S, g).changed = s.changed
<1>1. Edited(s.tab[K], S, g) \in SUBSET Row /\ s.next[K] \in 1 .. MaxId + 1
  BY StoreFields, EditedRows
<1> QED BY <1>1, PlaceFields DEF Edit

\* An edit leaves a store in order.
LEMMA EditMem ==
  ASSUME NEW m, MemFits(m), NEW K \in Table, NEW S, NEW g, Keeps(g)
  PROVE  MemFits(Edit(m, K, S, g))
<1>1. m \in Stores /\ m \in MemStore /\ Counts(m) /\ "rule" \in Table
  BY DEF MemFits, Stores, Table
<1>2. /\ Edit(m, K, S, g) \in MemStore /\ Edit(m, K, S, g).link = m.link
      /\ Edit(m, K, S, g).next["rule"] = m.next["rule"]
      /\ m.next["rule"] \in 1 .. MaxId + 1
  BY <1>1, EditStores, StoreFields
<1>3. Counts(Edit(m, K, S, g))
  BY <1>1, EditCounts
<1>4. \A J \in Table, id \in Ids : Has(m, J, id) => Has(Edit(m, K, S, g), J, id)
  BY <1>1, EditHas
<1>5. m.next["rule"] <= Edit(m, K, S, g).next["rule"]
  BY <1>2, BoundAssumption
<1> QED BY <1>2, <1>3, <1>4, <1>5, MemFrame

\* The same of the database.
LEMMA EditDb ==
  ASSUME NEW d, DbFits(d), NEW K \in Table, NEW S, NEW g, Keeps(g)
  PROVE  DbFits(Edit(d, K, S, g))
<1>1. d \in Stores /\ d \in DbStore /\ Counts(d)
  BY DEF DbFits, Stores
<1>2. Edit(d, K, S, g) \in DbStore /\ Edit(d, K, S, g).link = d.link
  BY <1>1, EditStores
<1>3. Counts(Edit(d, K, S, g))
  BY <1>1, EditCounts
<1>4. \A J \in Table, id \in Ids : Has(d, J, id) => Has(Edit(d, K, S, g), J, id)
  BY <1>1, EditHas
<1> QED BY <1>2, <1>3, <1>4, DbFrame

\* What is found in one store is found in the other.
LEMMA SameFind ==
  ASSUME NEW m, NEW d, Alike(m, d), NEW K \in Table \ {"scene", "storage"}, NEW S
  PROVE  Find(m, K, S) = Find(d, K, S)
<1>1. K \in Plain \cup {"dept", "dictType", "dictData"}
  BY DEF Plain
<1> QED BY <1>1 DEF Alike, AlikeRows, Find

\* What is there in one is there in the other.
LEMMA SameHas ==
  ASSUME NEW m, NEW d, Alike(m, d), NEW K \in Table \ {"scene", "storage"}, NEW id
  PROVE  Has(m, K, id) <=> Has(d, K, id)
BY SameFind DEF Has

\* The same edit in both keeps them alike.
LEMMA EditAlike ==
  ASSUME NEW m \in MemStore, NEW d \in DbStore, Alike(m, d),
         NEW K \in Table \ {"scene", "storage"}, NEW S, NEW g, Keeps(g)
  PROVE  Alike(Edit(m, K, Find(m, K, S), g), Edit(d, K, Find(d, K, S), g))
<1> DEFINE F == Find(m, K, S)
           T == Edited(m.tab[K], F, g)
           U == Edited(d.tab[K], F, g)
<1>1. Find(d, K, S) = F
  BY SameFind
<1>2. /\ m \in Stores
      /\ d \in Stores
      /\ m.tab[K] \in SUBSET Row
      /\ d.tab[K] \in SUBSET Row
  BY StoreFields DEF Stores
<1>3. SameRows(K, T, U, m.next[K], d.next[K])
  <2>1. CASE K = "dept"
    <3>1. m.tab[K] = {x \in d.tab[K] : ~x.deleted} /\ m.next[K] = d.next[K]
      BY <2>1 DEF Alike, AlikeRows
    <3> HIDE DEF F
    <3>2. T = {x \in U : ~x.deleted}
      BY <1>2, <3>1 DEF Edited, Keeps
    <3> QED BY <2>1, <3>1, <3>2 DEF SameRows, Plain
  <2>2. CASE K # "dept"
    <3>1. m.tab[K] = d.tab[K] /\ (K \in Plain => m.next[K] = d.next[K])
      BY <2>2 DEF Alike, AlikeRows, Plain
    <3> QED BY <2>2, <3>1 DEF SameRows
  <2> QED BY <2>1, <2>2
<1>4. \A L \in LinkTable, x \in Ids : \A y \in Range(m.link[L][x]) :
        Has(Place(m, K, T, m.next[K]), To[L], y) <=> Has(m, To[L], y)
  <2>1. \A L \in LinkTable : To[L] \in Table
    BY DEF LinkTable, To, Table
  <2> QED BY <1>2, <2>1, EditHas DEF Edit
<1> HIDE DEF F, T, U
<1>5. Alike(Place(m, K, T, m.next[K]), Place(d, K, U, d.next[K]))
  BY <1>2, <1>3, <1>4, PlaceAlike
<1> QED BY <1>1, <1>5 DEF T, U, F, Edit

-----------------------------------------------------------------------------
(* Tables that no link is about.                                           *)

Free == Table \ {"user", "role", "menu", "scope", "rule"}

\* Any rows may be placed in them.
LEMMA FreeFits ==
  ASSUME NEW K \in Free, NEW T \in SUBSET Row, NEW n \in 1 .. MaxId + 1
  PROVE  /\ \A m : MemFits(m) => MemFits(Place(m, K, T, n))
         /\ \A d : DbFits(d) => DbFits(Place(d, K, T, n))
<1>0. K \in Table /\ K \notin {"role", "rule"}
      /\ \A L \in LinkTable : /\ From[L] \in Table \ {K}
                              /\ To[L] \in Table \ {K}
  BY DEF Free, Table, LinkTable, From, To
<1>3. "role" \in Table \ {K} /\ "rule" \in Table \ {K}
  BY DEF Free, Table
<1>1. ASSUME NEW m, MemFits(m)
      PROVE  MemFits(Place(m, K, T, n))
  <2> DEFINE a == Place(m, K, T, n)
  <2>1. m \in Stores /\ m \in MemStore /\ Counts(m) /\ MemLive(m)
    BY <1>1 DEF MemFits, Stores
  <2>2. /\ a.link = m.link /\ a \in MemStore
        /\ \A J \in Table \ {K} : a.tab[J] = m.tab[J] /\ a.next[J] = m.next[J]
    BY <1>0, <2>1, PlaceFields
  <2> HIDE DEF a
  <2>3. \A J \in Table \ {K} : \A id : Has(a, J, id) <=> Has(m, J, id)
    BY <2>2 DEF Has, Find
  <2>4. /\ a.tab["role"] = m.tab["role"] /\ a.next["role"] = m.next["role"]
        /\ a.tab["rule"] = m.tab["rule"] /\ a.next["rule"] = m.next["rule"]
    BY <1>3, <2>2
  <2>7. Counts(a)
    BY <2>1, <2>4 DEF Counts
  <2>5. MemLive(a)
    BY <1>0, <2>1, <2>2, <2>3, <2>4 DEF MemLive
  <2>6. MemFits(a)
    BY <2>2, <2>5, <2>7 DEF MemFits
  <2> QED BY <2>6 DEF a
<1>2. ASSUME NEW d, DbFits(d)
      PROVE  DbFits(Place(d, K, T, n))
  <2> DEFINE a == Place(d, K, T, n)
  <2>1. d \in Stores /\ d \in DbStore /\ Counts(d) /\ DbLive(d)
    BY <1>2 DEF DbFits, Stores
  <2>2. /\ a.link = d.link /\ a \in DbStore
        /\ \A J \in Table \ {K} : a.tab[J] = d.tab[J] /\ a.next[J] = d.next[J]
    BY <1>0, <2>1, PlaceFields
  <2> HIDE DEF a
  <2>3. \A J \in Table \ {K} : \A id : Has(a, J, id) <=> Has(d, J, id)
    BY <2>2 DEF Has, Find
  <2>4. /\ a.tab["role"] = d.tab["role"] /\ a.next["role"] = d.next["role"]
        /\ a.tab["rule"] = d.tab["rule"] /\ a.next["rule"] = d.next["rule"]
    BY <1>3, <2>2
  <2>7. Counts(a)
    BY <2>1, <2>4 DEF Counts
  <2>5. DbLive(a)
    BY <1>0, <2>1, <2>2, <2>3 DEF DbLive
  <2>6. DbFits(a)
    BY <2>2, <2>5, <2>7 DEF DbFits
  <2> QED BY <2>6 DEF a
<1> QED BY <1>1, <1>2

\* The same rows placed in both keep them alike.
LEMMA FreeAlike ==
  ASSUME NEW m, NEW d, Fits(m, d), Alike(m, d), NEW K \in Free, NEW T, NEW U,
         NEW n, NEW k, SameRows(K, T, U, n, k)
  PROVE  Alike(Place(m, K, T, n), Place(d, K, U, k))
<1>1. K \in Table /\ \A L \in LinkTable : To[L] \in Table \ {K}
  BY DEF Free, Table, LinkTable, To
<1>2. m \in Stores /\ d \in Stores
  BY DEF Fits, MemFits, DbFits, Stores
<1>3. \A J \in Table \ {K} : Place(m, K, T, n).tab[J] = m.tab[J]
  BY <1>1, <1>2, PlaceFields
<1>4. \A L \in LinkTable : \A y : Has(Place(m, K, T, n), To[L], y) <=> Has(m, To[L], y)
  BY <1>1, <1>3 DEF Has, Find
<1> QED BY <1>1, <1>2, <1>4, PlaceAlike

-----------------------------------------------------------------------------
(* Pairs of answers.                                                       *)

Ready(m, d) == Fits(m, d) /\ Alike(m, d)

\* The stores of a pair of answers.
LEMMA ReadyStores ==
  ASSUME NEW m, NEW d, Ready(m, d)
  PROVE  /\ m \in MemStore /\ d \in DbStore /\ m \in Stores /\ d \in Stores
         /\ MemFits(m) /\ DbFits(d) /\ Alike(m, d)
         /\ AlikeRows(m, d) /\ AlikeLinks(m, d)
BY DEF Ready, Fits, MemFits, DbFits, Stores, Alike

\* Two answers of one kind agree if the stores do.
LEMMA SameAgree ==
  ASSUME NEW m, NEW d, Ready(m, d), NEW odd
  PROVE  /\ Agree(Ok(m), Ok(d), odd)
         /\ Agree(NotFound(m), NotFound(d), odd)
         /\ \A n : Agree(Counted(m, n), Counted(d, n), odd)
BY DEF Ready, Agree, Ok, NotFound, Counted

\* Answers that are known to differ need only be of stores in order.
LEMMA OddAgree ==
  ASSUME NEW a, NEW b, Fits(a.store, b.store)
  PROVE  Agree(a, b, TRUE)
BY DEF Agree

\* The same rows in a table that no link is about.
LEMMA FreeAgree ==
  ASSUME NEW m, NEW d, Ready(m, d), NEW K \in Free,
         NEW T \in SUBSET Row, NEW U \in SUBSET Row,
         NEW n \in 1 .. MaxId + 1, NEW k \in 1 .. MaxId + 1,
         SameRows(K, T, U, n, k)
  PROVE  Ready(Place(m, K, T, n), Place(d, K, U, k))
<1>1. Fits(m, d) /\ Alike(m, d)
  BY DEF Ready
<1>2. Fits(Place(m, K, T, n), Place(d, K, U, k))
  BY <1>1, FreeFits DEF Fits
<1>3. Alike(Place(m, K, T, n), Place(d, K, U, k))
  BY <1>1, FreeAlike
<1> QED BY <1>2, <1>3 DEF Ready

-----------------------------------------------------------------------------
(* Updates.                                                                *)

\* The row with this id is edited, if it is there.
Edits(s, K, id, g) ==
  IF Has(s, K, id) THEN Ok(Edit(s, K, Find(s, K, {id}), g)) ELSE NotFound(s)

\* Both do the same edit.
LEMMA EditReady ==
  ASSUME NEW m, NEW d, Ready(m, d), NEW K \in Table \ {"scene", "storage"},
         NEW S, NEW g, Keeps(g)
  PROVE  Ready(Edit(m, K, Find(m, K, S), g), Edit(d, K, Find(d, K, S), g))
<1>1. m \in MemStore /\ d \in DbStore /\ MemFits(m) /\ DbFits(d) /\ Alike(m, d)
  BY ReadyStores
<1>2. Fits(Edit(m, K, Find(m, K, S), g), Edit(d, K, Find(d, K, S), g))
  BY <1>1, EditMem, EditDb DEF Fits
<1>3. Alike(Edit(m, K, Find(m, K, S), g), Edit(d, K, Find(d, K, S), g))
  BY <1>1, EditAlike
<1> QED BY <1>2, <1>3 DEF Ready

\* And they answer the same.
LEMMA EditsAgree ==
  ASSUME NEW m, NEW d, Ready(m, d), NEW K \in Table \ {"scene", "storage"},
         NEW id, NEW g, Keeps(g), NEW odd
  PROVE  Agree(Edits(m, K, id, g), Edits(d, K, id, g), odd)
<1>1. Has(m, K, id) <=> Has(d, K, id)
  BY ReadyStores, SameHas
<1>2. Ready(Edit(m, K, Find(m, K, {id}), g), Edit(d, K, Find(d, K, {id}), g))
  BY EditReady
<1> QED BY <1>1, <1>2, SameAgree DEF Edits

\* What the updates write.
Revalue(v)       == [r \in Row |-> [r EXCEPT !.val = v]]
Rewrite(v, p)    == [r \in Row |-> [r EXCEPT !.val = v, !.ref = p]]
Reset(v, on)     == [r \in Row |-> [r EXCEPT !.val = v, !.on = on]]
Refill(v, p, on) == [r \in Row |-> [r EXCEPT !.val = v, !.ref = p, !.on = on]]
Switch           == [r \in Row |-> [r EXCEPT !.on = ~@]]
Enable           == [r \in Row |-> [r EXCEPT !.on = TRUE]]

Refs == (0 .. MaxId) \cup Val

\* None of them changes an id.
LEMMA UpdatesKeep ==
  /\ \A v \in Val : Keeps(Revalue(v))
  /\ \A v \in Val, p \in Refs : Keeps(Rewrite(v, p))
  /\ \A v \in Val, on \in BOOLEAN : Keeps(Reset(v, on))
  /\ \A v \in Val, p \in Refs, on \in BOOLEAN : Keeps(Refill(v, p, on))
  /\ Keeps(Switch)
  /\ Keeps(Enable)
<1>1. \A v \in Val : Keeps(Revalue(v))
  BY DEF Keeps, Row, Revalue
<1>2. \A v \in Val, p \in Refs : Keeps(Rewrite(v, p))
  BY DEF Keeps, Row, Rewrite, Refs
<1>3. \A v \in Val, on \in BOOLEAN : Keeps(Reset(v, on))
  BY DEF Keeps, Row, Reset
<1>4. \A v \in Val, p \in Refs, on \in BOOLEAN : Keeps(Refill(v, p, on))
  BY ZenonT(30) DEF Keeps, Row, Refill, Refs
<1>5. Keeps(Switch)
  BY DEF Keeps, Row, Switch
<1>6. Keeps(Enable)
  BY DEF Keeps, Row, Enable
<1> QED BY <1>1, <1>2, <1>3, <1>4, <1>5, <1>6

\* What Change does is an edit.
LEMMA ChangeVal ==
  ASSUME NEW s \in Stores, NEW K \in Table, NEW S, NEW v
  PROVE  Change(s, K, S, LAMBDA r : [r EXCEPT !.val = v]) = Edit(s, K, S, Revalue(v))
<1>1. s.tab[K] \in SUBSET Row
  BY StoreFields
<1>2. {IF r \in S THEN [r EXCEPT !.val = v] ELSE r : r \in s.tab[K]}
        = Edited(s.tab[K], S, Revalue(v))
  BY <1>1 DEF Edited, Revalue
<1> QED BY <1>2, PlaceRows DEF Change, Edit

\* Or what turns a flag round,
LEMMA ChangeSwitch ==
  ASSUME NEW s \in Stores, NEW K \in Table, NEW S
  PROVE  Change(s, K, S, LAMBDA r : [r EXCEPT !.on = ~@]) = Edit(s, K, S, Switch)
<1>1. s.tab[K] \in SUBSET Row
  BY StoreFields
<1>2. {IF r \in S THEN [r EXCEPT !.on = ~@] ELSE r : r \in s.tab[K]}
        = Edited(s.tab[K], S, Switch)
  BY <1>1 DEF Edited, Switch
<1> QED BY <1>2, PlaceRows DEF Change, Edit

\* or sets it.
LEMMA ChangeEnable ==
  ASSUME NEW s \in Stores, NEW K \in Table, NEW S
  PROVE  Change(s, K, S, LAMBDA r : [r EXCEPT !.on = TRUE]) = Edit(s, K, S, Enable)
<1>1. s.tab[K] \in SUBSET Row
  BY StoreFields
<1>2. {IF r \in S THEN [r EXCEPT !.on = TRUE] ELSE r : r \in s.tab[K]}
        = Edited(s.tab[K], S, Enable)
  BY <1>1 DEF Edited, Enable
<1> QED BY <1>2, PlaceRows DEF Change, Edit

\* The names of the tables.
LEMMA TableNames ==
  /\ "user" \in Table /\ "history" \in Table /\ "role" \in Table
  /\ "menu" \in Table /\ "dept" \in Table /\ "rule" \in Table
  /\ "scope" \in Table /\ "plugin" \in Table /\ "loginLog" \in Table
  /\ "operaLog" \in Table /\ "session" \in Table /\ "dictType" \in Table
  /\ "dictData" \in Table /\ "config" \in Table /\ "notice" \in Table
  /\ "scheduler" \in Table /\ "result" \in Table /\ "storage" \in Table
  /\ "scene" \in Table
BY DEF Table

-----------------------------------------------------------------------------
(* The updates of one row.                                                 *)

\* A user's columns and permission.
LEMMA UserUpdates ==
  ASSUME NEW m, NEW d, Ready(m, d), NEW id \in Ids, NEW v \in Val
  PROVE  /\ Agree(MemUpdateUserColumns(m, id, v), DbUpdateUserColumns(d, id, v), FALSE)
         /\ Agree(MemUpdateUserPermission(m, id),
                  DbUpdateUserPermission(d, id), FALSE)
<1>0. m \in Stores /\ d \in Stores /\ "user" \in Table
  BY ReadyStores, TableNames
<1>1. Agree(MemUpdateUserColumns(m, id, v),
            DbUpdateUserColumns(d, id, v), FALSE)
  <2>1. Agree(Edits(m, "user", id, Revalue(v)),
              Edits(d, "user", id, Revalue(v)), FALSE)
    BY <1>0, UpdatesKeep, EditsAgree
  <2>2. MemUpdateUserColumns(m, id, v) = Edits(m, "user", id, Revalue(v))
    BY <1>0, ChangeVal DEF MemUpdateUserColumns, MemHas, Edits
  <2>3. DbUpdateUserColumns(d, id, v) = Edits(d, "user", id, Revalue(v))
    BY <1>0, ChangeVal DEF DbUpdateUserColumns, Edits, RowsError
  <2> QED BY <2>1, <2>2, <2>3
<1>2. Agree(MemUpdateUserPermission(m, id),
            DbUpdateUserPermission(d, id), FALSE)
  <2>1. Agree(Edits(m, "user", id, Switch), Edits(d, "user", id, Switch), FALSE)
    BY <1>0, UpdatesKeep, EditsAgree
  <2>2. MemUpdateUserPermission(m, id) = Edits(m, "user", id, Switch)
    BY <1>0, ChangeSwitch DEF MemUpdateUserPermission, MemHas, Edits
  <2>3. DbUpdateUserPermission(d, id) = Edits(d, "user", id, Switch)
    BY <1>0, ChangeSwitch DEF DbUpdateUserPermission, Edits, RowsError
  <2> QED BY <2>1, <2>2, <2>3
<1> QED BY <1>1, <1>2

\* A role.
LEMMA RoleUpdates ==
  ASSUME NEW m, NEW d, Ready(m, d), NEW id \in Ids, NEW v \in Val
  PROVE  Agree(MemUpdateRole(m, id, v), DbUpdateRole(d, id, v), FALSE)
<1>0. m \in Stores /\ d \in Stores /\ "role" \in Table
  BY ReadyStores, TableNames
<1>1. Agree(MemUpdateRole(m, id, v), DbUpdateRole(d, id, v), FALSE)
  <2>1. Agree(Edits(m, "role", id, Revalue(v)),
              Edits(d, "role", id, Revalue(v)), FALSE)
    BY <1>0, UpdatesKeep, EditsAgree
  <2>2. MemUpdateRole(m, id, v) = Edits(m, "role", id, Revalue(v))
    BY <1>0, ChangeVal DEF MemUpdateRole, MemHas, Edits
  <2>3. DbUpdateRole(d, id, v) = Edits(d, "role", id, Revalue(v))
    BY <1>0, ChangeVal DEF DbUpdateRole, Edits, RowsError
  <2> QED BY <2>1, <2>2, <2>3
<1> QED BY <1>1

\* A menu.
LEMMA MenuUpdates ==
  ASSUME NEW m, NEW d, Ready(m, d), NEW id \in Ids, NEW v \in Val, NEW p \in 0 .. MaxId
  PROVE  Agree(MemUpdateMenu(m, id, v, p), DbUpdateMenu(d, id, v, p), FALSE)
<1>0. m \in Stores /\ d \in Stores /\ "menu" \in Table
  BY ReadyStores, TableNames
<1>1. Agree(MemUpdateMenu(m, id, v, p), DbUpdateMenu(d, id, v, p), FALSE)
  <2>1. Agree(Edits(m, "menu", id, Rewrite(v, p)),
              Edits(d, "menu", id, Rewrite(v, p)), FALSE)
    BY <1>0, UpdatesKeep, EditsAgree DEF Refs
  <2>2. MemUpdateMenu(m, id, v, p) = Edits(m, "menu", id, Rewrite(v, p))
    <3>1. m.tab["menu"] \in SUBSET Row
      BY <1>0, StoreFields
    <3>2. {IF r \in Find(m, "menu", {id}) THEN [r EXCEPT !.val = v, !.ref = p] ELSE r :
             r \in m.tab["menu"]}
            = Edited(m.tab["menu"], Find(m, "menu", {id}), Rewrite(v, p))
      BY <3>1 DEF Edited, Rewrite
    <3> QED BY <1>0, <3>2, PlaceRows
            DEF MemUpdateMenu, MemHas, Edits, Change, Edit
  <2>3. DbUpdateMenu(d, id, v, p) = Edits(d, "menu", id, Rewrite(v, p))
    <3>1. d.tab["menu"] \in SUBSET Row
      BY <1>0, StoreFields
    <3>2. {IF r \in Find(d, "menu", {id}) THEN [r EXCEPT !.val = v, !.ref = p] ELSE r :
             r \in d.tab["menu"]}
            = Edited(d.tab["menu"], Find(d, "menu", {id}), Rewrite(v, p))
      BY <3>1 DEF Edited, Rewrite
    <3> QED BY <1>0, <3>2, PlaceRows
            DEF DbUpdateMenu, Edits, RowsError, Change, Edit
  <2> QED BY <2>1, <2>2, <2>3
<1> QED BY <1>1

\* A data rule and a data scope.
LEMMA DataUpdates ==
  ASSUME NEW m, NEW d, Ready(m, d), NEW id \in Ids, NEW v \in Val
  PROVE  /\ Agree(MemUpdateDataRule(m, id, v), DbUpdateDataRule(d, id, v), FALSE)
         /\ Agree(MemUpdateDataScope(m, id, v),
                  DbUpdateDataScope(d, id, v), FALSE)
<1>0. m \in Stores /\ d \in Stores /\ "rule" \in Table /\ "scope" \in Table
  BY ReadyStores, TableNames
<1>1. Agree(MemUpdateDataRule(m, id, v), DbUpdateDataRule(d, id, v), FALSE)
  <2>1. Agree(Edits(m, "rule", id, Revalue(v)),
              Edits(d, "rule", id, Revalue(v)), FALSE)
    BY <1>0, UpdatesKeep, EditsAgree
  <2>2. MemUpdateDataRule(m, id, v) = Edits(m, "rule", id, Revalue(v))
    BY <1>0, ChangeVal DEF MemUpdateDataRule, MemHas, Edits
  <2>3. DbUpdateDataRule(d, id, v) = Edits(d, "rule", id, Revalue(v))
    BY <1>0, ChangeVal DEF DbUpdateDataRule, Edits, RowsError
  <2> QED BY <2>1, <2>2, <2>3
<1>2. Agree(MemUpdateDataScope(m, id, v), DbUpdateDataScope(d, id, v), FALSE)
  <2>1. Agree(Edits(m, "scope", id, Revalue(v)),
              Edits(d, "scope", id, Revalue(v)), FALSE)
    BY <1>0, UpdatesKeep, EditsAgree
  <2>2. MemUpdateDataScope(m, id, v) = Edits(m, "scope", id, Revalue(v))
    BY <1>0, ChangeVal DEF MemUpdateDataScope, MemHas, Edits
  <2>3. DbUpdateDataScope(d, id, v) = Edits(d, "scope", id, Revalue(v))
    BY <1>0, ChangeVal DEF DbUpdateDataScope, Edits, RowsError
  <2> QED BY <2>1, <2>2, <2>3
<1> QED BY <1>1, <1>2

\* A type of the dictionary.
LEMMA TypeUpdates ==
  ASSUME NEW m, NEW d, Ready(m, d), NEW id \in Ids, NEW v \in Val
  PROVE  Agree(MemUpdateType(m, id, v), DbUpdateType(d, id, v), FALSE)
<1>0. m \in Stores /\ d \in Stores /\ "dictType" \in Table
  BY ReadyStores, TableNames
<1>1. Agree(MemUpdateType(m, id, v), DbUpdateType(d, id, v), FALSE)
  <2>1. Agree(Edits(m, "dictType", id, Revalue(v)),
              Edits(d, "dictType", id, Revalue(v)), FALSE)
    BY <1>0, UpdatesKeep, EditsAgree
  <2>2. MemUpdateType(m, id, v) = Edits(m, "dictType", id, Revalue(v))
    BY <1>0, ChangeVal DEF MemUpdateType, MemHas, Edits, Updated, RowsError
  <2>3. DbUpdateType(d, id, v) = Edits(d, "dictType", id, Revalue(v))
    BY <1>0, ChangeVal DEF DbUpdateType, Edits, Updated, RowsError
  <2> QED BY <2>1, <2>2, <2>3
<1> QED BY <1>1

\* A notice.
LEMMA NoticeUpdates ==
  ASSUME NEW m, NEW d, Ready(m, d), NEW id \in Ids, NEW v \in Val
  PROVE  Agree(MemUpdateNotice(m, id, v), DbUpdateNotice(d, id, v), FALSE)
<1>0. m \in Stores /\ d \in Stores /\ "notice" \in Table
  BY ReadyStores, TableNames
<1>1. Agree(MemUpdateNotice(m, id, v), DbUpdateNotice(d, id, v), FALSE)
  <2>1. Agree(Edits(m, "notice", id, Revalue(v)),
              Edits(d, "notice", id, Revalue(v)), FALSE)
    BY <1>0, UpdatesKeep, EditsAgree
  <2>2. MemUpdateNotice(m, id, v) = Edits(m, "notice", id, Revalue(v))
    BY <1>0, ChangeVal DEF MemUpdateNotice, MemHas, Edits, Updated, RowsError
  <2>3. DbUpdateNotice(d, id, v) = Edits(d, "notice", id, Revalue(v))
    BY <1>0, ChangeVal DEF DbUpdateNotice, Edits, Updated, RowsError
  <2> QED BY <2>1, <2>2, <2>3
<1> QED BY <1>1

\* The status of a scheduler.
LEMMA SchedulerToggles ==
  ASSUME NEW m, NEW d, Ready(m, d), NEW id \in Ids
  PROVE  Agree(MemToggleSchedulerStatus(m, id),
               DbToggleSchedulerStatus(d, id), FALSE)
<1>0. m \in Stores /\ d \in Stores /\ "scheduler" \in Table
  BY ReadyStores, TableNames
<1>1. Agree(MemToggleSchedulerStatus(m, id),
            DbToggleSchedulerStatus(d, id), FALSE)
  <2>1. Agree(Edits(m, "scheduler", id, Switch),
              Edits(d, "scheduler", id, Switch), FALSE)
    BY <1>0, UpdatesKeep, EditsAgree
  <2>2. MemToggleSchedulerStatus(m, id) = Edits(m, "scheduler", id, Switch)
    BY <1>0, ChangeSwitch
       DEF MemToggleSchedulerStatus, MemHas, Edits, Updated, RowsError
  <2>3. DbToggleSchedulerStatus(d, id) = Edits(d, "scheduler", id, Switch)
    BY <1>0, ChangeSwitch DEF DbToggleSchedulerStatus, Edits, Updated, RowsError
  <2> QED BY <2>1, <2>2, <2>3
<1> QED BY <1>1

\* A department.  The memory does not look at the mark, but has no row that
\* is marked.
LEMMA DeptUpdates ==
  ASSUME NEW m, NEW d, Ready(m, d), NEW id \in Ids, NEW v \in Val,
         NEW p \in 0 .. MaxId
  PROVE  Agree(MemUpdateDept(m, id, v, p), DbUpdateDept(d, id, v, p), FALSE)
<1>0. m \in Stores /\ d \in Stores /\ "dept" \in Table
  BY ReadyStores, TableNames
<1>1. Agree(Edits(m, "dept", id, Rewrite(v, p)),
            Edits(d, "dept", id, Rewrite(v, p)), FALSE)
  BY <1>0, UpdatesKeep, EditsAgree DEF Refs
<1>2. \A x \in m.tab["dept"] : ~x.deleted
  BY ReadyStores DEF AlikeRows
<1>3. {x \in m.tab["dept"] : x.id = id} = Find(m, "dept", {id})
  BY <1>2 DEF Find
<1>4. (\E x \in m.tab["dept"] : x.id = id) <=> Has(m, "dept", id)
  BY <1>3 DEF Has
<1>5. MemUpdateDept(m, id, v, p) = Edits(m, "dept", id, Rewrite(v, p))
  <2> DEFINE F == {x \in m.tab["dept"] : x.id = id}
  <2>1. m.tab["dept"] \in SUBSET Row
    BY <1>0, StoreFields
  <2>2. {IF r \in F THEN [r EXCEPT !.val = v, !.ref = p] ELSE r :
           r \in m.tab["dept"]}
          = Edited(m.tab["dept"], F, Rewrite(v, p))
    BY <2>1 DEF Edited, Rewrite
  <2>3. Change(m, "dept", F, LAMBDA x : [x EXCEPT !.val = v, !.ref = p])
          = Edit(m, "dept", F, Rewrite(v, p))
    BY <1>0, <2>2, PlaceRows DEF Change, Edit
  <2>4. MemUpdateDept(m, id, v, p)
          = IF \E x \in m.tab["dept"] : x.id = id
            THEN Ok(Edit(m, "dept", F, Rewrite(v, p))) ELSE NotFound(m)
    BY <2>3 DEF MemUpdateDept
  <2> QED BY <1>3, <1>4, <2>4 DEF Edits
<1>6. DbUpdateDept(d, id, v, p) = Edits(d, "dept", id, Rewrite(v, p))
  <2>1. d.tab["dept"] \in SUBSET Row
    BY <1>0, StoreFields
  <2>2. {IF r \in Find(d, "dept", {id}) THEN [r EXCEPT !.val = v, !.ref = p] ELSE r :
           r \in d.tab["dept"]}
          = Edited(d.tab["dept"], Find(d, "dept", {id}), Rewrite(v, p))
    BY <2>1 DEF Edited, Rewrite
  <2> QED BY <1>0, <2>2, PlaceRows
          DEF DbUpdateDept, RowsError, Edits, Change, Edit
<1> QED BY <1>1, <1>5, <1>6

\* An entry of the dictionary, which gets the code of its type.
LEMMA EntryUpdates ==
  ASSUME NEW m, NEW d, Ready(m, d), NEW id \in Ids, NEW t \in Ids,
         NEW on \in BOOLEAN
  PROVE  Agree(MemUpdateData(m, id, t, on), DbUpdateData(d, id, t, on), FALSE)
<1>0. /\ m \in Stores
      /\ d \in Stores
      /\ "dictType" \in Table
      /\ "dictData" \in Table
      /\ m.tab["dictType"] \in SUBSET Row
  BY ReadyStores, TableNames, StoreFields
<1>1. /\ m.tab["dictType"] = d.tab["dictType"]
      /\ Has(m, "dictType", t) <=> Has(d, "dictType", t)
      /\ CodeOf(m, t) = CodeOf(d, t)
  BY ReadyStores, ZenonT(30) DEF AlikeRows, Has, Find, CodeOf
<1>2. CASE ~Has(m, "dictType", t)
  BY <1>1, <1>2, SameAgree DEF MemUpdateData, DbUpdateData
<1>3. CASE Has(m, "dictType", t)
  <2> DEFINE g == Refill(CodeOf(m, t), t, on)
  <2>1. CodeOf(m, t) \in Val
    <3>1. PICK r \in m.tab["dictType"] : r.id = t
      BY <1>3, HasIs
    <3>2. (CHOOSE x \in m.tab["dictType"] : x.id = t) \in m.tab["dictType"]
      BY <3>1
    <3> QED BY <1>0, <3>2 DEF CodeOf, Row
  <2>2. Keeps(g)
    BY <2>1, UpdatesKeep DEF Refs, Ids
  <2>3. Agree(Edits(m, "dictData", id, g), Edits(d, "dictData", id, g), FALSE)
    BY <1>0, <2>2, EditsAgree
  <2>4. MemUpdateData(m, id, t, on) = Edits(m, "dictData", id, g)
    <3>1. m.tab["dictData"] \in SUBSET Row
      BY <1>0, StoreFields
    <3>2. {IF r \in Find(m, "dictData", {id})
            THEN [r EXCEPT !.val = CodeOf(m, t), !.ref = t, !.on = on]
            ELSE r :
             r \in m.tab["dictData"]}
            = Edited(m.tab["dictData"], Find(m, "dictData", {id}), g)
      BY <3>1 DEF Edited, Refill
    <3> QED BY <1>0, <1>3, <3>2, PlaceRows
            DEF MemUpdateData, Updated, RowsError, Edits, Change, Edit
  <2>5. DbUpdateData(d, id, t, on) = Edits(d, "dictData", id, g)
    <3>1. d.tab["dictData"] \in SUBSET Row
      BY <1>0, StoreFields
    <3>2. {IF r \in Find(d, "dictData", {id})
            THEN [r EXCEPT !.val = CodeOf(d, t), !.ref = t, !.on = on]
            ELSE r :
             r \in d.tab["dictData"]}
            = Edited(d.tab["dictData"], Find(d, "dictData", {id}), g)
      BY <3>1, <1>1 DEF Edited, Refill
    <3> QED BY <1>0, <1>1, <1>3, <3>2, PlaceRows
            DEF DbUpdateData, Updated, RowsError, Edits, Change, Edit
  <2> QED BY <2>3, <2>4, <2>5
<1> QED BY <1>2, <1>3

\* A call that the database refuses, or finds nothing for, is known to differ.
LEMMA RefuseAgree ==
  ASSUME NEW m, NEW d, Ready(m, d), NEW a, NEW b, NEW odd, Agree(a, b, odd)
  PROVE  /\ Agree(a, Conflict(d), TRUE)
         /\ Agree(a, Ok(d), TRUE)
         /\ Agree(NotFound(m), b, TRUE)
BY DEF Ready, Agree, Fits, Conflict, Ok, NotFound

\* Agreement that is asked for is not hurt by leave to differ.
LEMMA AgreeAnyway ==
  ASSUME NEW a, NEW b, NEW odd, Agree(a, b, FALSE)
  PROVE  Agree(a, b, odd)
BY DEF Agree

\* A configuration, whose key is unique in the database.
LEMMA ConfigUpdates ==
  ASSUME NEW m, NEW d, Ready(m, d), NEW id \in Ids, NEW v \in Val,
         NEW on \in BOOLEAN
  PROVE  Agree(MemUpdateConfig(m, id, v, on), DbUpdateConfig(d, id, v, on),
               Taken(d, "config", v, id))
<1>0. m \in Stores /\ d \in Stores /\ "config" \in Table
  BY ReadyStores, TableNames
<1> DEFINE g == Reset(v, on)
           x == Edits(m, "config", id, g)
           y == Edits(d, "config", id, g)
<1>1. Agree(x, y, FALSE)
  BY <1>0, UpdatesKeep, EditsAgree
<1>2. MemUpdateConfig(m, id, v, on) = x
  <2>1. m.tab["config"] \in SUBSET Row
    BY <1>0, StoreFields
  <2>2. {IF r \in Find(m, "config", {id}) THEN [r EXCEPT !.val = v, !.on = on] ELSE r :
           r \in m.tab["config"]}
          = Edited(m.tab["config"], Find(m, "config", {id}), g)
    BY <2>1 DEF Edited, Reset
  <2> QED BY <1>0, <2>2, PlaceRows
          DEF MemUpdateConfig, Updated, RowsError, Edits, Change, Edit
<1>3. DbUpdateConfig(d, id, v, on)
        = IF Has(d, "config", id) /\ Taken(d, "config", v, id) THEN Conflict(d)
          ELSE y
  <2>1. d.tab["config"] \in SUBSET Row
    BY <1>0, StoreFields
  <2>2. {IF r \in Find(d, "config", {id}) THEN [r EXCEPT !.val = v, !.on = on] ELSE r :
           r \in d.tab["config"]}
          = Edited(d.tab["config"], Find(d, "config", {id}), g)
    BY <2>1 DEF Edited, Reset
  <2> QED BY <1>0, <2>2, PlaceRows
          DEF DbUpdateConfig, Updated, RowsError, Edits, Change, Edit
<1> HIDE DEF x, y
<1>4. CASE Has(d, "config", id) /\ Taken(d, "config", v, id)
  BY <1>1, <1>2, <1>3, <1>4, RefuseAgree
<1>5. CASE ~(Has(d, "config", id) /\ Taken(d, "config", v, id))
  BY <1>1, <1>2, <1>3, <1>5, AgreeAnyway
<1> QED BY <1>4, <1>5

\* A scheduler, whose name is.
LEMMA SchedulerUpdates ==
  ASSUME NEW m, NEW d, Ready(m, d), NEW id \in Ids, NEW v \in Val
  PROVE  Agree(MemUpdateScheduler(m, id, v), DbUpdateScheduler(d, id, v),
               Taken(d, "scheduler", v, id))
<1>0. m \in Stores /\ d \in Stores /\ "scheduler" \in Table
  BY ReadyStores, TableNames
<1> DEFINE g == Revalue(v)
           x == Edits(m, "scheduler", id, g)
           y == Edits(d, "scheduler", id, g)
<1>1. Agree(x, y, FALSE)
  BY <1>0, UpdatesKeep, EditsAgree
<1>2. MemUpdateScheduler(m, id, v) = x
  BY <1>0, ChangeVal DEF MemUpdateScheduler, Updated, RowsError, Edits
<1>3. DbUpdateScheduler(d, id, v)
        = IF Has(d, "scheduler", id) /\ Taken(d, "scheduler", v, id)
          THEN Conflict(d) ELSE y
  BY <1>0, ChangeVal DEF DbUpdateScheduler, Updated, RowsError, Edits
<1> HIDE DEF x, y
<1>4. CASE Has(d, "scheduler", id) /\ Taken(d, "scheduler", v, id)
  BY <1>1, <1>2, <1>3, <1>4, RefuseAgree
<1>5. CASE ~(Has(d, "scheduler", id) /\ Taken(d, "scheduler", v, id))
  BY <1>1, <1>2, <1>3, <1>5, AgreeAnyway
<1> QED BY <1>4, <1>5

-----------------------------------------------------------------------------
(* New rows.                                                               *)

New == [val: Val, ref: Refs, on: BOOLEAN, deleted: {FALSE}]

\* What is added is a row.
LEMMA NewRows ==
  /\ \A v \in Val, p \in Refs, on \in BOOLEAN : NewRow(v, p, on) \in New
  /\ \A id \in Ids, r \in New :
       /\ WithId(id, r) \in Row
       /\ WithId(id, r).id = id /\ ~WithId(id, r).deleted
  /\ 0 \in Refs /\ 0 .. MaxId \subseteq Refs /\ Ids \subseteq Refs
  /\ Val \subseteq Refs /\ 1 \in Val
<1>1. \A v \in Val, p \in Refs, on \in BOOLEAN : NewRow(v, p, on) \in New
  BY DEF NewRow, New
<1>2. \A id \in Ids, r \in New :
        /\ WithId(id, r) \in Row
        /\ WithId(id, r).id = id /\ ~WithId(id, r).deleted
  BY DEF New, WithId, Row, Refs
<1>3. /\ 0 \in Refs /\ 0 .. MaxId \subseteq Refs /\ Ids \subseteq Refs
      /\ Val \subseteq Refs /\ 1 \in Val
  BY BoundAssumption DEF Refs, Ids, Val
<1> QED BY <1>1, <1>2, <1>3

\* A table that can take a row has an id for it.
LEMMA NextIds ==
  ASSUME NEW n \in 1 .. MaxId + 1, n <= MaxId
  PROVE  n \in Ids /\ n + 1 \in 1 .. MaxId + 1 /\ n < n + 1
BY BoundAssumption DEF Ids

\* The store after it, field by field.
LEMMA AddFields ==
  ASSUME NEW s \in Stores, NEW K \in Table, s.next[K] <= MaxId, NEW r \in New
  PROVE  LET a == Add(s, K, r)
         IN  /\ a.link = s.link /\ a.changed = s.changed
             /\ a.tab[K] = s.tab[K] \cup {WithId(s.next[K], r)}
             /\ a.next[K] = s.next[K] + 1
             /\ \A J \in Table \ {K} :
                  a.tab[J] = s.tab[J] /\ a.next[J] = s.next[J]
             /\ s \in MemStore => a \in MemStore
             /\ s \in DbStore => a \in DbStore
<1>1. s.tab[K] \in SUBSET Row /\ s.next[K] \in 1 .. MaxId + 1
  BY StoreFields
<1>2. WithId(s.next[K], r) \in Row /\ s.next[K] + 1 \in 1 .. MaxId + 1
  BY <1>1, NextIds, NewRows
<1> DEFINE T == s.tab[K] \cup {WithId(s.next[K], r)}
           n == s.next[K] + 1
<1>3. T \in SUBSET Row /\ n \in 1 .. MaxId + 1
  BY <1>1, <1>2
<1>4. Add(s, K, r) = Place(s, K, T, n)
  BY AddIs
<1> HIDE DEF T, n
<1>5. LET a == Place(s, K, T, n)
      IN  /\ a.link = s.link /\ a.changed = s.changed
          /\ a.tab[K] = T /\ a.next[K] = n
          /\ \A J \in Table \ {K} :
               a.tab[J] = s.tab[J] /\ a.next[J] = s.next[J]
          /\ s \in MemStore => a \in MemStore
          /\ s \in DbStore => a \in DbStore
  BY <1>3, PlaceFields
<1> QED BY <1>4, <1>5 DEF T, n

\* What is there stays, and nothing else comes but the new row.
LEMMA AddHas ==
  ASSUME NEW s \in Stores, NEW K \in Table, s.next[K] <= MaxId, NEW r \in New,
         NEW J \in Table, NEW id
  PROVE  Has(Add(s, K, r), J, id) <=>
           Has(s, J, id) \/ (J = K /\ id = s.next[K])
<1> DEFINE a == Add(s, K, r)
<1>1. /\ a.tab[K] = s.tab[K] \cup {WithId(s.next[K], r)}
      /\ J # K => a.tab[J] = s.tab[J]
  BY AddFields
<1>2. WithId(s.next[K], r).id = s.next[K] /\ ~WithId(s.next[K], r).deleted
  BY DEF New, WithId
<1> HIDE DEF a
<1>3. Has(a, J, id) <=> Has(s, J, id) \/ (J = K /\ id = s.next[K])
  BY <1>1, <1>2, HasIs
<1> QED BY <1>3 DEF a

\* Ids are still given once.
LEMMA AddCounts ==
  ASSUME NEW s \in Stores, NEW K \in Table, s.next[K] <= MaxId, NEW r \in New,
         Counts(s)
  PROVE  Counts(Add(s, K, r))
<1> DEFINE a == Add(s, K, r)
           w == WithId(s.next[K], r)
<1>1. /\ a.tab[K] = s.tab[K] \cup {w} /\ a.next[K] = s.next[K] + 1
      /\ \A J \in Table \ {K} : a.tab[J] = s.tab[J] /\ a.next[J] = s.next[J]
  BY AddFields
<1>2. w.id = s.next[K] /\ ~w.deleted
  BY DEF New, WithId
<1>3. s.next[K] \in Nat /\ \A t \in s.tab[K] : t.id \in Nat
  BY StoreFields, BoundAssumption DEF Row, Ids
<1> HIDE DEF a, w
<1>4. SUFFICES ASSUME NEW J \in {"role", "rule"}, NEW x \in a.tab[J]
      PROVE  /\ x.id < a.next[J] /\ ~x.deleted
             /\ \A t \in a.tab[J] : x.id = t.id => x = t
  BY DEF Counts, a
<1>5. CASE J # K
  <2>1. a.tab[J] = s.tab[J] /\ a.next[J] = s.next[J]
    BY <1>1, <1>5, TableNames
  <2> QED BY <1>4, <2>1 DEF Counts
<1>6. CASE J = K
  <2>1. \A t \in s.tab[K] : t.id < s.next[K] /\ ~t.deleted
    BY <1>6 DEF Counts
  <2>2. \A t, u \in s.tab[K] : t.id = u.id => t = u
    BY <1>6 DEF Counts
  <2>3. x.id < a.next[J] /\ ~x.deleted
    BY <1>1, <1>2, <1>3, <1>4, <1>6, <2>1
  <2>4. \A t \in a.tab[J] : x.id = t.id => x = t
    BY <1>1, <1>2, <1>3, <1>4, <1>6, <2>1, <2>2
  <2> QED BY <2>3, <2>4
<1> QED BY <1>5, <1>6

\* A store stays in order.
LEMMA AddFits ==
  ASSUME NEW K \in Table, NEW r \in New
  PROVE  /\ \A m : MemFits(m) /\ m.next[K] <= MaxId => MemFits(Add(m, K, r))
         /\ \A d : DbFits(d) /\ d.next[K] <= MaxId => DbFits(Add(d, K, r))
<1>1. ASSUME NEW m, MemFits(m), m.next[K] <= MaxId
      PROVE  MemFits(Add(m, K, r))
  <2>1. m \in Stores /\ m \in MemStore /\ Counts(m) /\ "rule" \in Table
    BY <1>1 DEF MemFits, Stores, Table
  <2>2. Add(m, K, r) \in MemStore /\ Add(m, K, r).link = m.link
    BY <1>1, <2>1, AddFields
  <2>3. Counts(Add(m, K, r))
    BY <1>1, <2>1, AddCounts
  <2>4. \A J \in Table, id \in Ids : Has(m, J, id) => Has(Add(m, K, r), J, id)
    BY <1>1, <2>1, AddHas
  <2>5. m.next["rule"] <= Add(m, K, r).next["rule"]
    <3>1. m.next["rule"] \in Nat
      BY <2>1, StoreFields, BoundAssumption
    <3>2. \/ Add(m, K, r).next["rule"] = m.next["rule"]
          \/ Add(m, K, r).next["rule"] = m.next["rule"] + 1
      BY <1>1, <2>1, AddFields
    <3> QED BY <3>1, <3>2
  <2> QED BY <1>1, <2>2, <2>3, <2>4, <2>5, MemFrame
<1>2. ASSUME NEW d, DbFits(d), d.next[K] <= MaxId
      PROVE  DbFits(Add(d, K, r))
  <2>1. d \in Stores /\ d \in DbStore /\ Counts(d)
    BY <1>2 DEF DbFits, Stores
  <2>2. Add(d, K, r) \in DbStore /\ Add(d, K, r).link = d.link
    BY <1>2, <2>1, AddFields
  <2>3. Counts(Add(d, K, r))
    BY <1>2, <2>1, AddCounts
  <2>4. \A J \in Table, id \in Ids : Has(d, J, id) => Has(Add(d, K, r), J, id)
    BY <1>2, <2>1, AddHas
  <2> QED BY <1>2, <2>2, <2>3, <2>4, DbFrame
<1> QED BY <1>1, <1>2

\* The same new row in both.
LEMMA AddReady ==
  ASSUME NEW m, NEW d, Ready(m, d), NEW K \in Plain \cup {"dept"}, NEW r \in New,
         m.next[K] <= MaxId
  PROVE  Ready(Add(m, K, r), Add(d, K, r)) /\ d.next[K] = m.next[K]
<1>1. /\ m \in Stores /\ d \in Stores /\ MemFits(m) /\ DbFits(d) /\ Alike(m, d)
      /\ AlikeRows(m, d) /\ K \in Table
  BY ReadyStores DEF Plain, Table
<1>2. d.next[K] = m.next[K]
  BY <1>1 DEF AlikeRows
<1>3. Fits(Add(m, K, r), Add(d, K, r))
  BY <1>1, <1>2, AddFits DEF Fits
<1> DEFINE n == m.next[K]
           T == m.tab[K] \cup {WithId(n, r)}
           U == d.tab[K] \cup {WithId(n, r)}
<1>4. /\ Add(m, K, r) = Place(m, K, T, n + 1)
      /\ Add(d, K, r) = Place(d, K, U, n + 1)
  BY <1>1, <1>2, AddIs
<1>5. SameRows(K, T, U, n + 1, n + 1)
  <2>1. ~WithId(n, r).deleted
    BY DEF New, WithId
  <2>2. K \notin {"dictType", "dictData", "scene", "storage"}
    BY DEF Plain
  <2>3. K \in Plain => m.tab[K] = d.tab[K]
    BY <1>1 DEF AlikeRows
  <2>4. K = "dept" => m.tab[K] = {x \in d.tab[K] : ~x.deleted}
    BY <1>1 DEF AlikeRows
  <2> HIDE DEF n
  <2> QED BY <2>1, <2>2, <2>3, <2>4 DEF SameRows, Plain
<1>6. \A L \in LinkTable, x \in Ids : \A y \in Range(m.link[L][x]) :
        Has(Add(m, K, r), To[L], y) <=> Has(m, To[L], y)
  <2> SUFFICES ASSUME NEW L \in LinkTable, NEW x \in Ids,
                      NEW y \in Range(m.link[L][x])
               PROVE  Has(Add(m, K, r), To[L], y) <=> Has(m, To[L], y)
    OBVIOUS
  <2>1. To[L] \in Table
    BY DEF LinkTable, To, Table
  <2>2. Has(m, To[L], y) \/ (To[L] = "rule" /\ y < m.next["rule"])
    BY <1>1 DEF MemFits, MemLive, LinkTable, To
  <2>3. m.next["rule"] \in Nat
    BY <1>1, StoreFields, TableNames, BoundAssumption
  <2>4. To[L] = K /\ y = m.next[K] => Has(m, To[L], y)
    BY <2>2, <2>3
  <2> QED BY <1>1, <2>1, <2>4, AddHas
<1> HIDE DEF T, U, n
<1>7. Alike(Add(m, K, r), Add(d, K, r))
  BY <1>1, <1>4, <1>5, <1>6, PlaceAlike
<1> QED BY <1>2, <1>3, <1>7 DEF Ready

-----------------------------------------------------------------------------
(* Creations.                                                              *)

\* The same new row in both, or in one where the other refuses it.
LEMMA AddAgree ==
  ASSUME NEW m, NEW d, Ready(m, d), NEW K \in Plain \cup {"dept"},
         m.next[K] <= MaxId, NEW v \in Val, NEW p \in 0 .. MaxId,
         NEW on \in BOOLEAN, NEW odd
  PROVE  /\ Agree(Ok(Add(m, K, NewRow(v, p, on))),
                  Ok(Add(d, K, NewRow(v, p, on))), odd)
         /\ Agree(NotFound(m), Ok(Add(d, K, NewRow(v, p, on))), TRUE)
         /\ Agree(Ok(Add(m, K, NewRow(v, p, on))), Conflict(d), TRUE)
<1>1. NewRow(v, p, on) \in New
  BY NewRows
<1> DEFINE r == NewRow(v, p, on)
<1> HIDE DEF r
<1>2. Ready(Add(m, K, r), Add(d, K, r))
  BY <1>1, AddReady DEF r
<1>3. Agree(Ok(Add(m, K, r)), Ok(Add(d, K, r)), odd)
  BY <1>2, SameAgree
<1>4. /\ Agree(NotFound(m), Ok(Add(d, K, r)), TRUE)
      /\ Agree(Ok(Add(m, K, r)), Conflict(d), TRUE)
  BY <1>3, RefuseAgree
<1> QED BY <1>3, <1>4 DEF r

\* The tables whose rows both add alike.
LEMMA SimpleCreates ==
  ASSUME NEW m, NEW d, Ready(m, d), NEW v \in Val, NEW p \in 0 .. MaxId
  PROVE  /\ m.next["role"] <= MaxId =>
              Agree(MemCreateRole(m, v), DbCreateRole(d, v), FALSE)
         /\ m.next["menu"] <= MaxId =>
              Agree(MemCreateMenu(m, v, p), DbCreateMenu(d, v, p), FALSE)
         /\ m.next["dept"] <= MaxId =>
              Agree(MemCreateDept(m, v, p), DbCreateDept(d, v, p), FALSE)
         /\ m.next["rule"] <= MaxId =>
              Agree(MemCreateDataRule(m, v), DbCreateDataRule(d, v), FALSE)
         /\ m.next["scope"] <= MaxId =>
              Agree(MemCreateDataScope(m, v), DbCreateDataScope(d, v), FALSE)
         /\ m.next["loginLog"] <= MaxId =>
              Agree(MemCreateLoginLog(m, v), DbCreateLoginLog(d, v), FALSE)
         /\ m.next["operaLog"] <= MaxId =>
              Agree(MemCreateOperaLog(m, v), DbCreateOperaLog(d, v), FALSE)
         /\ m.next["notice"] <= MaxId =>
              Agree(MemCreateNotice(m, v), DbCreateNotice(d, v), FALSE)
<1>1. \A K \in {"role", "menu", "dept", "rule", "scope", "loginLog", "operaLog",
                "notice"} : K \in Plain \cup {"dept"}
  BY DEF Plain, Table
<1>2. 0 \in 0 .. MaxId /\ TRUE \in BOOLEAN
  BY BoundAssumption
<1>3. ASSUME NEW K \in {"role", "menu", "dept", "rule", "scope", "loginLog",
                        "operaLog", "notice"}, m.next[K] <= MaxId,
             NEW q \in 0 .. MaxId
      PROVE  Agree(Ok(Add(m, K, NewRow(v, q, TRUE))),
                   Ok(Add(d, K, NewRow(v, q, TRUE))), FALSE)
  BY <1>1, <1>2, <1>3, AddAgree
<1> QED BY <1>2, <1>3
        DEF MemCreateRole, DbCreateRole, MemCreateMenu, DbCreateMenu,
            MemCreateDept, DbCreateDept, MemCreateDataRule, DbCreateDataRule,
            MemCreateDataScope, DbCreateDataScope, MemCreateLoginLog,
            DbCreateLoginLog, MemCreateOperaLog, DbCreateOperaLog,
            MemCreateNotice, DbCreateNotice

\* The database does not look for the user of a history.
LEMMA HistoryCreates ==
  ASSUME NEW m, NEW d, Ready(m, d), m.next["history"] <= MaxId, NEW u \in Ids
  PROVE  Agree(MemCreateHistory(m, u),
               DbCreateHistory(d, u), ~Has(d, "user", u))
<1>1. "history" \in Plain /\ u \in 0 .. MaxId /\ 1 \in Val /\ TRUE \in BOOLEAN
  BY NewRows DEF Plain, Table, Ids
<1>2. Has(m, "user", u) <=> Has(d, "user", u)
  BY TableNames, ReadyStores, SameHas
<1>3. CASE Has(d, "user", u)
  BY <1>1, <1>2, <1>3, AddAgree DEF MemCreateHistory, DbCreateHistory, MemHas
<1>4. CASE ~Has(d, "user", u)
  BY <1>1, <1>2, <1>4, AddAgree DEF MemCreateHistory, DbCreateHistory, MemHas
<1> QED BY <1>3, <1>4

\* A key or a name is unique in the database alone.
LEMMA UniqueCreates ==
  ASSUME NEW m, NEW d, Ready(m, d), NEW v \in Val, NEW on \in BOOLEAN
  PROVE  /\ m.next["config"] <= MaxId =>
              Agree(MemCreateConfig(m, v, on), DbCreateConfig(d, v, on),
                    Taken(d, "config", v, 0))
         /\ m.next["scheduler"] <= MaxId =>
              Agree(MemCreateScheduler(m, v), DbCreateScheduler(d, v),
                    Taken(d, "scheduler", v, 0))
<1>1. /\ "config" \in Plain /\ "scheduler" \in Plain /\ 0 \in 0 .. MaxId
      /\ TRUE \in BOOLEAN
  BY BoundAssumption DEF Plain, Table
<1>2. ASSUME m.next["config"] <= MaxId
      PROVE  Agree(MemCreateConfig(m, v, on), DbCreateConfig(d, v, on),
                   Taken(d, "config", v, 0))
  <2>1. CASE Taken(d, "config", v, 0)
    BY <1>1, <1>2, <2>1, AddAgree DEF MemCreateConfig, DbCreateConfig
  <2>2. CASE ~Taken(d, "config", v, 0)
    BY <1>1, <1>2, <2>2, AddAgree DEF MemCreateConfig, DbCreateConfig
  <2> QED BY <2>1, <2>2
<1>3. ASSUME m.next["scheduler"] <= MaxId
      PROVE  Agree(MemCreateScheduler(m, v), DbCreateScheduler(d, v),
                   Taken(d, "scheduler", v, 0))
  <2>1. CASE Taken(d, "scheduler", v, 0)
    BY <1>1, <1>3, <2>1, AddAgree DEF MemCreateScheduler, DbCreateScheduler
  <2>2. CASE ~Taken(d, "scheduler", v, 0)
    BY <1>1, <1>3, <2>2, AddAgree DEF MemCreateScheduler, DbCreateScheduler
  <2> QED BY <2>1, <2>2
<1> QED BY <1>2, <1>3

\* The memory counts both tables of the dictionary together.
LEMMA DictAgree ==
  ASSUME NEW m, NEW d, Ready(m, d), NEW K \in {"dictType", "dictData"},
         m.next["dictType"] <= MaxId, m.next["dictData"] <= MaxId,
         d.next[K] <= MaxId, NEW r \in New
  PROVE  Agree(Ok(MemAddDict(m, K, r)), Ok(Add(d, K, r)),
               MemNextDict(m) # d.next[K])
<1>0. /\ m \in Stores /\ d \in Stores /\ MemFits(m) /\ DbFits(d)
      /\ AlikeRows(m, d) /\ K \in Free /\ K \in Table
  BY ReadyStores DEF Free, Table
<1>1. /\ m.tab[K] \in SUBSET Row /\ d.tab[K] \in SUBSET Row
      /\ m.tab[K] = d.tab[K]
  BY <1>0, StoreFields DEF AlikeRows
<1> DEFINE n == MemNextDict(m)
           k == d.next[K]
           T == m.tab[K] \cup {WithId(n, r)}
           U == d.tab[K] \cup {WithId(k, r)}
<1>2. n \in Ids /\ n + 1 \in 1 .. MaxId + 1
  <2>1. n \in 1 .. MaxId + 1 /\ n <= MaxId
    BY <1>0, StoreFields, TableNames DEF MemNextDict
  <2> QED BY <2>1, NextIds
<1>3. k \in Ids /\ k + 1 \in 1 .. MaxId + 1
  BY <1>0, StoreFields, NextIds
<1>4. MemAddDict(m, K, r) = Place(m, K, T, n + 1)
  BY <1>0 DEF MemAddDict, Place, Stores, MemStore, DbStore
<1>5. Add(d, K, r) = Place(d, K, U, k + 1)
  BY <1>0, AddIs
<1> HIDE DEF n, k
<1>6. T \in SUBSET Row /\ U \in SUBSET Row
  BY <1>1, <1>2, <1>3, NewRows
<1>7. SameRows(K, T, U, n + 1, k + 1) \/ n # k
  BY <1>1 DEF SameRows, Plain
<1> HIDE DEF T, U
<1>8. CASE n = k
  BY <1>0, <1>2, <1>3, <1>4, <1>5, <1>6, <1>7, <1>8, FreeAgree, SameAgree
     DEF n, k
<1>9. CASE n # k
  <2>1. Fits(Place(m, K, T, n + 1), Place(d, K, U, k + 1))
    BY <1>0, <1>2, <1>3, <1>6, FreeFits DEF Fits
  <2> QED BY <1>4, <1>5, <1>9, <2>1, OddAgree DEF Ok, n, k
<1> QED BY <1>8, <1>9

\* Types and data of the dictionary.
LEMMA DictCreates ==
  ASSUME NEW m, NEW d, Ready(m, d),
         m.next["dictType"] <= MaxId, m.next["dictData"] <= MaxId,
         NEW v \in Val, NEW t \in Ids, NEW on \in BOOLEAN
  PROVE  /\ d.next["dictType"] <= MaxId =>
              Agree(MemCreateType(m, v), DbCreateType(d, v),
                    MemNextDict(m) # d.next["dictType"])
         /\ d.next["dictData"] <= MaxId =>
              Agree(MemCreateData(m, t, on), DbCreateData(d, t, on),
                    MemNextDict(m) # d.next["dictData"])
<1>0. m \in Stores /\ m.tab["dictType"] \in SUBSET Row /\ TRUE \in BOOLEAN
  BY ReadyStores, TableNames, StoreFields
<1>1. /\ m.tab["dictType"] = d.tab["dictType"]
      /\ Has(m, "dictType", t) <=> Has(d, "dictType", t)
      /\ CodeOf(m, t) = CodeOf(d, t)
  BY ReadyStores, ZenonT(30) DEF AlikeRows, Has, Find, CodeOf
<1>2. NewRow(v, 0, TRUE) \in New
  BY <1>0, NewRows
<1>3. d.next["dictType"] <= MaxId =>
        Agree(MemCreateType(m, v), DbCreateType(d, v),
              MemNextDict(m) # d.next["dictType"])
  BY <1>2, DictAgree DEF MemCreateType, DbCreateType
<1>4. ASSUME d.next["dictData"] <= MaxId
      PROVE  Agree(MemCreateData(m, t, on), DbCreateData(d, t, on),
                   MemNextDict(m) # d.next["dictData"])
  <2>1. CASE ~Has(m, "dictType", t)
    BY <1>1, <2>1, SameAgree DEF MemCreateData, DbCreateData
  <2>2. CASE Has(m, "dictType", t)
    <3>1. CodeOf(m, t) \in Val
      <4>1. PICK r \in m.tab["dictType"] : r.id = t
        BY <2>2, HasIs
      <4>2. (CHOOSE x \in m.tab["dictType"] : x.id = t) \in m.tab["dictType"]
        BY <4>1
      <4> QED BY <1>0, <4>2 DEF CodeOf, Row
    <3>2. NewRow(CodeOf(m, t), t, on) \in New
      BY <3>1, NewRows
    <3> QED BY <1>1, <1>4, <2>2, <3>2, DictAgree DEF MemCreateData, DbCreateData
  <2> QED BY <2>1, <2>2
<1> QED BY <1>3, <1>4

-----------------------------------------------------------------------------
(* Rows taken away from tables that no link is about.                      *)

\* Those that have the same rows in both.
FreeSame == Free \ {"dept", "scene", "storage"}

\* Such a table may have any rows, if both stores have them.
LEMMA RowsReady ==
  ASSUME NEW m, NEW d, Ready(m, d), NEW K \in FreeSame, NEW T \in SUBSET Row
  PROVE  /\ Ready(Place(m, K, T, m.next[K]), Place(d, K, T, d.next[K]))
         /\ m.tab[K] = d.tab[K] /\ m.tab[K] \in SUBSET Row
         /\ \A S : Find(m, K, S) = Find(d, K, S) /\ Find(m, K, S) \subseteq m.tab[K]
<1>1. K \in Free /\ K \in Table /\ K \in Table \ {"scene", "storage"}
  BY DEF FreeSame, Free
<1>2. /\ m \in Stores /\ d \in Stores /\ AlikeRows(m, d) /\ Alike(m, d)
  BY ReadyStores
<1>3. m.tab[K] = d.tab[K] /\ m.tab[K] \in SUBSET Row
  BY <1>1, <1>2, StoreFields DEF AlikeRows, FreeSame, Free, Plain
<1>4. m.next[K] \in 1 .. MaxId + 1 /\ d.next[K] \in 1 .. MaxId + 1
  BY <1>1, <1>2, StoreFields
<1>5. SameRows(K, T, T, m.next[K], d.next[K])
  BY <1>2 DEF SameRows, AlikeRows, FreeSame
<1>6. Ready(Place(m, K, T, m.next[K]), Place(d, K, T, d.next[K]))
  BY <1>1, <1>4, <1>5, FreeAgree
<1>7. \A S : Find(m, K, S) = Find(d, K, S) /\ Find(m, K, S) \subseteq m.tab[K]
  BY <1>3 DEF Find
<1> QED BY <1>3, <1>6, <1>7

\* Rows may be taken away from it.
LEMMA WithoutReady ==
  ASSUME NEW m, NEW d, Ready(m, d), NEW K \in FreeSame, NEW S
  PROVE  /\ Ready(Without(m, K, Find(m, K, S)), Without(d, K, Find(d, K, S)))
         /\ Find(m, K, S) = Find(d, K, S)
<1> DEFINE F == Find(m, K, S)
           T == m.tab[K] \ F
<1>1. /\ Find(d, K, S) = F /\ m.tab[K] = d.tab[K] /\ m.tab[K] \in SUBSET Row
  BY RowsReady
<1>2. Ready(Place(m, K, T, m.next[K]), Place(d, K, T, d.next[K]))
  BY <1>1, RowsReady
<1>3. m \in Stores /\ d \in Stores /\ K \in Table
  BY ReadyStores DEF FreeSame, Free
<1>4. /\ Without(m, K, F) = Place(m, K, T, m.next[K])
      /\ Without(d, K, F) = Place(d, K, T, d.next[K])
  BY <1>1, <1>3, WithoutIs
<1> QED BY <1>1, <1>2, <1>4

\* A deletion from it is answered alike.
LEMMA DeletedAgree ==
  ASSUME NEW m, NEW d, Ready(m, d), NEW K \in FreeSame, NEW S
  PROVE  Agree(Deleted(m, K, S), Deleted(d, K, S), FALSE)
BY WithoutReady, SameAgree, ZenonT(30) DEF Deleted, RowsError

\* Types, data, notices, schedulers and results.
LEMMA SimpleDeletes ==
  ASSUME NEW m, NEW d, Ready(m, d), NEW S, NEW id
  PROVE  /\ Agree(MemDeleteTypes(m, S), DbDeleteTypes(d, S), FALSE)
         /\ Agree(MemDeleteData(m, S), DbDeleteData(d, S), FALSE)
         /\ Agree(MemDeleteNotices(m, S), DbDeleteNotices(d, S), FALSE)
         /\ Agree(MemDeleteTaskResults(m, S), DbDeleteTaskResults(d, S), FALSE)
         /\ Agree(MemDeleteScheduler(m, id), DbDeleteScheduler(d, id), FALSE)
<1>1. \A K \in {"dictType", "dictData", "notice", "result", "scheduler"} :
        K \in FreeSame
  BY DEF FreeSame, Free, Table
<1> QED BY <1>1, DeletedAgree
        DEF MemDeleteTypes, DbDeleteTypes, MemDeleteData, DbDeleteData,
            MemDeleteNotices, DbDeleteNotices, MemDeleteTaskResults,
            DbDeleteTaskResults, MemDeleteScheduler, DbDeleteScheduler

\* Both answer how many logs they have deleted.
LEMMA LogDeletes ==
  ASSUME NEW m, NEW d, Ready(m, d), NEW S
  PROVE  /\ Agree(MemDeleteLoginLogs(m, S), DbDeleteLoginLogs(d, S), FALSE)
         /\ Agree(MemDeleteOperaLogs(m, S), DbDeleteOperaLogs(d, S), FALSE)
         /\ Agree(MemDeleteAllLoginLogs(m), DbDeleteAllLoginLogs(d), FALSE)
         /\ Agree(MemDeleteAllOperaLogs(m), DbDeleteAllOperaLogs(d), FALSE)
<1>0. /\ "loginLog" \in FreeSame /\ "operaLog" \in FreeSame
      /\ m \in Stores /\ d \in Stores
  BY ReadyStores DEF FreeSame, Free, Table
<1>1. ASSUME NEW K \in FreeSame
      PROVE  Agree(Counted(Without(m, K, Find(m, K, S)), Cardinality(Find(m, K, S))),
                   IF S = {} THEN Counted(d, 0)
                   ELSE Counted(Without(d, K, Find(d, K, S)),
                                Cardinality(Find(d, K, S))), FALSE)
  <2>1. CASE S = {}
    <3>1. Find(m, K, S) = {} /\ Cardinality({}) = 0
      BY <2>1, FS_EmptySet DEF Find
    <3>2. Without(m, K, {}) = m
      BY <1>0 DEF Without, Stores, MemStore, DbStore, FreeSame, Free
    <3>3. Agree(Counted(m, 0), Counted(d, 0), FALSE)
      BY SameAgree
    <3> QED BY <2>1, <3>1, <3>2, <3>3
  <2>2. CASE S # {}
    <3>1. Ready(Without(m, K, Find(m, K, S)), Without(d, K, Find(d, K, S)))
      BY WithoutReady
    <3>2. Find(m, K, S) = Find(d, K, S)
      BY WithoutReady
    <3>3. \A n : Agree(Counted(Without(m, K, Find(m, K, S)), n),
                       Counted(Without(d, K, Find(d, K, S)), n), FALSE)
      BY <3>1, SameAgree
    <3> QED BY <2>2, <3>2, <3>3
  <2> QED BY <2>1, <2>2
<1>2. ASSUME NEW K \in FreeSame
      PROVE  Agree(Ok([m EXCEPT !.tab[K] = {}]), Ok([d EXCEPT !.tab[K] = {}]),
                   FALSE)
  <2>1. K \in Table
    BY DEF FreeSame, Free
  <2>2. /\ [m EXCEPT !.tab[K] = {}] = Place(m, K, {}, m.next[K])
        /\ [d EXCEPT !.tab[K] = {}] = Place(d, K, {}, d.next[K])
    BY <1>0, <2>1, PlaceRows
  <2>3. Ready(Place(m, K, {}, m.next[K]), Place(d, K, {}, d.next[K]))
    BY RowsReady
  <2> QED BY <2>2, <2>3, SameAgree
<1> QED BY <1>0, <1>1, <1>2
        DEF MemDeleteLoginLogs, DbDeleteLoginLogs, MemDeleteOperaLogs,
            DbDeleteOperaLogs, MemDeleteAllLoginLogs, DbDeleteAllLoginLogs,
            MemDeleteAllOperaLogs, DbDeleteAllOperaLogs

\* Sessions.
LEMMA SessionCalls ==
  ASSUME NEW m, NEW d, Ready(m, d), NEW id \in Ids, NEW v \in Val
  PROVE  /\ Agree(MemUpsertSession(m, id, v), DbUpsertSession(d, id, v), FALSE)
         /\ Agree(MemDeleteSession(m, id), DbDeleteSession(d, id), FALSE)
<1> DEFINE K == "session"
           T == (m.tab[K] \ Find(m, K, {id})) \cup {WithId(id, NewRow(v, 0, TRUE))}
<1>0. K \in FreeSame /\ K \in Table /\ m \in Stores /\ d \in Stores
  BY ReadyStores DEF FreeSame, Free, Table
<1>1. /\ m.tab[K] \in SUBSET Row /\ m.tab[K] = d.tab[K]
      /\ Find(m, K, {id}) = Find(d, K, {id})
  BY <1>0, RowsReady
<1>2. WithId(id, NewRow(v, 0, TRUE)) \in Row
  BY NewRows, TRUE \in BOOLEAN
<1>3. Ready(Place(m, K, T, m.next[K]), Place(d, K, T, d.next[K]))
  BY <1>0, <1>1, <1>2, RowsReady, ZenonT(30)
<1>4. /\ [m EXCEPT !.tab["session"] = T] = Place(m, K, T, m.next[K])
      /\ [d EXCEPT !.tab["session"] = T] = Place(d, K, T, d.next[K])
  BY <1>0, PlaceRows
<1>5. Agree(MemUpsertSession(m, id, v), DbUpsertSession(d, id, v), FALSE)
  BY <1>1, <1>3, <1>4, SameAgree DEF MemUpsertSession, DbUpsertSession
<1>6. Agree(MemDeleteSession(m, id), DbDeleteSession(d, id), FALSE)
  BY <1>0, WithoutReady, SameAgree DEF MemDeleteSession, DbDeleteSession
<1> QED BY <1>5, <1>6

-----------------------------------------------------------------------------
(* Rows that are marked.                                                   *)

Marked(T, S) == {IF r \in S THEN [r EXCEPT !.deleted = TRUE] ELSE r : r \in T}

\* A marked row is still a row.
LEMMA MarkedRows ==
  ASSUME NEW T \in SUBSET Row, NEW S
  PROVE  /\ Marked(T, S) \in SUBSET Row
         /\ {x \in Marked(T, S) : ~x.deleted} = {x \in T : ~x.deleted} \ S
BY DEF Marked, Row

\* What the memory forgets the database marks.
LEMMA DeptDeletes ==
  ASSUME NEW m, NEW d, Ready(m, d), NEW id \in Ids
  PROVE  Agree(MemDeleteDept(m, id), DbDeleteDept(d, id), FALSE)
<1> DEFINE K == "dept"
           F == Find(m, K, {id})
           T == m.tab[K] \ F
           U == Marked(d.tab[K], F)
<1>0. /\ K \in Free /\ K \in Table /\ K \in Table \ {"scene", "storage"}
      /\ m \in Stores /\ d \in Stores /\ Alike(m, d) /\ AlikeRows(m, d)
  BY ReadyStores DEF Free, Table
<1>1. /\ m.tab[K] \in SUBSET Row /\ d.tab[K] \in SUBSET Row
      /\ m.next[K] \in 1 .. MaxId + 1 /\ m.next[K] = d.next[K]
      /\ m.tab[K] = {x \in d.tab[K] : ~x.deleted}
  BY <1>0, StoreFields DEF AlikeRows
<1>2. Find(d, K, {id}) = F
  BY <1>0, SameFind
<1> HIDE DEF F
<1>3. T \in SUBSET Row /\ U \in SUBSET Row
  BY <1>1, MarkedRows
<1>4. T = {x \in U : ~x.deleted}
  BY <1>1, MarkedRows
<1>5. SameRows(K, T, U, m.next[K], d.next[K])
  BY <1>1, <1>4 DEF SameRows, Plain
<1>6. Ready(Place(m, K, T, m.next[K]), Place(d, K, U, d.next[K]))
  BY <1>0, <1>1, <1>3, <1>5, FreeAgree
<1>7. Without(m, K, F) = Place(m, K, T, m.next[K])
  BY <1>0, WithoutIs
<1>8. Change(d, K, F, LAMBDA x : [x EXCEPT !.deleted = TRUE])
        = Place(d, K, U, d.next[K])
  BY <1>0, PlaceRows DEF Change, Marked
<1> QED BY <1>2, <1>6, <1>7, <1>8, SameAgree
        DEF MemDeleteDept, DbDeleteDept, RowsError, MemHas, Has, F

\* Configurations are marked in both.
LEMMA ConfigDeletes ==
  ASSUME NEW m, NEW d, Ready(m, d), NEW S
  PROVE  Agree(MemDeleteConfigs(m, S), DbDeleteConfigs(d, S), FALSE)
<1> DEFINE K == "config"
           F == Find(m, K, S)
           T == Marked(m.tab[K], F)
<1>0. K \in FreeSame /\ K \in Table /\ m \in Stores /\ d \in Stores
  BY ReadyStores DEF FreeSame, Free, Table
<1>1. /\ m.tab[K] \in SUBSET Row /\ m.tab[K] = d.tab[K]
      /\ Find(d, K, S) = F
  BY <1>0, RowsReady
<1> HIDE DEF F
<1>2. Ready(Place(m, K, T, m.next[K]), Place(d, K, T, d.next[K]))
  BY <1>0, <1>1, MarkedRows, RowsReady
<1>3. Change(m, K, F, LAMBDA x : [x EXCEPT !.deleted = TRUE])
        = Place(m, K, T, m.next[K])
  BY <1>0, PlaceRows DEF Change, Marked
<1>4. Change(d, K, F, LAMBDA x : [x EXCEPT !.deleted = TRUE])
        = Place(d, K, T, d.next[K])
  BY <1>0, <1>1, PlaceRows DEF Change, Marked
<1> QED BY <1>1, <1>2, <1>3, <1>4, SameAgree
        DEF MemDeleteConfigs, DbDeleteConfigs, MarkConfigs, RowsError, F

-----------------------------------------------------------------------------
(* Plugins.                                                                *)

Noted(s) == [s EXCEPT !.changed = TRUE]

\* That the plugins have changed is noted in both.
LEMMA NotedReady ==
  ASSUME NEW m, NEW d, Ready(m, d)
  PROVE  Ready(Noted(m), Noted(d))
<1>0. /\ m \in MemStore /\ d \in DbStore /\ MemFits(m) /\ DbFits(d)
      /\ AlikeRows(m, d) /\ AlikeLinks(m, d)
  BY ReadyStores
<1> DEFINE a == Noted(m)
           b == Noted(d)
<1>1. /\ a \in MemStore /\ a.tab = m.tab /\ a.next = m.next /\ a.link = m.link
      /\ a.changed = TRUE
  BY <1>0 DEF Noted, MemStore
<1>2. /\ b \in DbStore /\ b.tab = d.tab /\ b.next = d.next /\ b.link = d.link
      /\ b.changed = TRUE
  BY <1>0 DEF Noted, DbStore
<1> HIDE DEF a, b
<1>3. /\ \A K, id : Has(a, K, id) <=> Has(m, K, id)
      /\ \A K, id : Has(b, K, id) <=> Has(d, K, id)
  BY <1>1, <1>2 DEF Has, Find
<1>4. MemFits(a)
  BY <1>0, <1>1, <1>3 DEF MemFits, Counts, MemLive
<1>5. DbFits(b)
  BY <1>0, <1>2, <1>3 DEF DbFits, Counts, DbLive
<1>6. AlikeRows(a, b)
  BY <1>0, <1>1, <1>2 DEF AlikeRows
<1>7. AlikeLinks(a, b)
  BY <1>0, <1>1, <1>2, <1>3 DEF AlikeLinks, Names, Linked
<1>8. Ready(a, b)
  BY <1>4, <1>5, <1>6, <1>7 DEF Ready, Fits, Alike
<1> QED BY <1>8 DEF a, b

\* Plugins are installed, uninstalled and toggled alike.
LEMMA PluginToggles ==
  ASSUME NEW m, NEW d, Ready(m, d), NEW id \in Ids
  PROVE  Agree(MemTogglePluginStatus(m, id), DbTogglePluginStatus(d, id), FALSE)
<1> DEFINE a == Edit(m, "plugin", Find(m, "plugin", {id}), Switch)
           b == Edit(d, "plugin", Find(d, "plugin", {id}), Switch)
<1>0. /\ m \in Stores /\ d \in Stores /\ Alike(m, d) /\ "plugin" \in Table
      /\ "plugin" \in Table \ {"scene", "storage"}
  BY ReadyStores, TableNames
<1>1. Ready(Noted(a), Noted(b))
  BY <1>0, UpdatesKeep, EditReady, NotedReady
<1>2. Has(m, "plugin", id) <=> Has(d, "plugin", id)
  BY <1>0, SameHas
<1>3. MemTogglePluginStatus(m, id)
        = IF ~Has(m, "plugin", id) THEN NotFound(m) ELSE Ok(Noted(a))
  BY <1>0, ChangeSwitch DEF MemTogglePluginStatus, MemHas, Noted
<1>4. DbTogglePluginStatus(d, id)
        = IF ~Has(d, "plugin", id) THEN NotFound(d) ELSE Ok(Noted(b))
  BY <1>0, ChangeSwitch DEF DbTogglePluginStatus, Noted
<1> HIDE DEF a, b
<1> QED BY <1>1, <1>2, <1>3, <1>4, SameAgree

\* A plugin that is installed is enabled, or added.
LEMMA PluginInstalls ==
  ASSUME NEW m, NEW d, Ready(m, d), NEW id \in Ids
  PROVE  Agree(MemInstallPlugin(m, id), DbInstallPlugin(d, id), FALSE)
<1>0. /\ m \in Stores /\ d \in Stores /\ Alike(m, d) /\ "plugin" \in Table
      /\ "plugin" \in Table \ {"scene", "storage"} /\ "plugin" \in FreeSame
  BY ReadyStores, TableNames DEF FreeSame, Free
<1>1. Has(m, "plugin", id) <=> Has(d, "plugin", id)
  BY <1>0, SameHas
<1>2. CASE Has(m, "plugin", id)
  <2> DEFINE a == Edit(m, "plugin", Find(m, "plugin", {id}), Enable)
             b == Edit(d, "plugin", Find(d, "plugin", {id}), Enable)
  <2>1. Ready(Noted(a), Noted(b))
    BY <1>0, UpdatesKeep, EditReady, NotedReady
  <2>2. MemInstallPlugin(m, id) = Ok(Noted(a))
    BY <1>0, <1>2, ChangeEnable DEF MemInstallPlugin, MemHas, Noted
  <2>3. DbInstallPlugin(d, id) = Ok(Noted(b))
    BY <1>0, <1>1, <1>2, ChangeEnable DEF DbInstallPlugin, Noted
  <2> HIDE DEF a, b
  <2> QED BY <2>1, <2>2, <2>3, SameAgree
<1>3. CASE ~Has(m, "plugin", id)
  <2> DEFINE w == WithId(id, NewRow(1, 0, TRUE))
             T == m.tab["plugin"] \cup {w}
             a == Place(m, "plugin", T, m.next["plugin"])
             b == Place(d, "plugin", T, d.next["plugin"])
  <2>1. w \in Row
    BY NewRows, TRUE \in BOOLEAN
  <2>2. m.tab["plugin"] \in SUBSET Row /\ m.tab["plugin"] = d.tab["plugin"]
    BY <1>0, RowsReady
  <2>3. T \in SUBSET Row
    BY <2>1, <2>2
  <2> HIDE DEF w
  <2>4. Ready(Noted(a), Noted(b))
    BY <1>0, <2>3, RowsReady, NotedReady
  <2>5. MemInstallPlugin(m, id) = Ok(Noted(a))
    BY <1>0, <1>3, ZenonT(30)
       DEF MemInstallPlugin, MemHas, Noted, Place, Stores, MemStore,
                      DbStore, w
  <2>6. DbInstallPlugin(d, id) = Ok(Noted(b))
    BY <1>0, <1>1, <1>3, <2>2, ZenonT(30)
       DEF DbInstallPlugin, Noted, Place, Stores, MemStore,
                      DbStore, w
  <2> HIDE DEF a, b
  <2> QED BY <2>4, <2>5, <2>6, SameAgree
<1> QED BY <1>2, <1>3

\* One that is built in stays in both.
LEMMA PluginUninstalls ==
  ASSUME NEW m, NEW d, Ready(m, d), NEW id \in Ids
  PROVE  Agree(MemUninstallPlugin(m, id), DbUninstallPlugin(d, id), FALSE)
<1> DEFINE a == Without(m, "plugin", Find(m, "plugin", {id}))
           b == Without(d, "plugin", Find(d, "plugin", {id}))
<1>0. /\ Alike(m, d) /\ "plugin" \in Table \ {"scene", "storage"}
      /\ "plugin" \in FreeSame
  BY ReadyStores, TableNames DEF FreeSame, Free
<1>1. Ready(Noted(a), Noted(b)) /\ Ready(Noted(m), Noted(d))
  BY <1>0, WithoutReady, NotedReady
<1>2. Has(m, "plugin", id) <=> Has(d, "plugin", id)
  BY <1>0, SameHas
<1>3. MemUninstallPlugin(m, id)
        = IF ~Has(m, "plugin", id) THEN NotFound(m)
          ELSE IF BuiltIn(id) THEN Ok(Noted(m)) ELSE Ok(Noted(a))
  BY DEF MemUninstallPlugin, MemHas, Noted
<1>4. DbUninstallPlugin(d, id)
        = IF ~Has(d, "plugin", id) THEN NotFound(d)
          ELSE IF BuiltIn(id) THEN Ok(Noted(d)) ELSE Ok(Noted(b))
  BY DEF DbUninstallPlugin, Noted
<1> HIDE DEF a, b
<1>5. CASE ~Has(m, "plugin", id)
  BY <1>2, <1>3, <1>4, <1>5, SameAgree
<1>6. CASE Has(m, "plugin", id) /\ BuiltIn(id)
  BY <1>1, <1>2, <1>3, <1>4, <1>6, SameAgree
<1>7. CASE Has(m, "plugin", id) /\ ~BuiltIn(id)
  BY <1>1, <1>2, <1>3, <1>4, <1>7, SameAgree
<1> QED BY <1>5, <1>6, <1>7

-----------------------------------------------------------------------------
(* Scenes and storages, which are known by their codes.                    *)

\* Every row of T has one in U that says the same.
Mirrors(T, U) ==
  \A r \in T : \E u \in U : u.val = r.val /\ u.ref = r.ref /\ u.on = r.on

\* Rows say the same when each set mirrors the other.
LEMMA CodedMirrors ==
  ASSUME NEW T, NEW U
  PROVE  Coded(T) = Coded(U) <=> Mirrors(T, U) /\ Mirrors(U, T)
<1>1. ASSUME Coded(T) = Coded(U), NEW r \in T
      PROVE  \E u \in U : u.val = r.val /\ u.ref = r.ref /\ u.on = r.on
  <2>1. [code |-> r.val, ref |-> r.ref, on |-> r.on] \in Coded(U)
    BY <1>1 DEF Coded
  <2> QED BY <2>1 DEF Coded
<1>2. ASSUME Coded(T) = Coded(U), NEW u \in U
      PROVE  \E r \in T : r.val = u.val /\ r.ref = u.ref /\ r.on = u.on
  <2>1. [code |-> u.val, ref |-> u.ref, on |-> u.on] \in Coded(T)
    BY <1>2 DEF Coded
  <2> QED BY <2>1 DEF Coded
<1>3. Coded(T) = Coded(U) => Mirrors(T, U) /\ Mirrors(U, T)
  BY <1>1, <1>2 DEF Mirrors
<1>4. Mirrors(T, U) /\ Mirrors(U, T) => Coded(T) = Coded(U)
  BY DEF Mirrors, Coded
<1> QED BY <1>3, <1>4

Off == [r \in Row |-> [r EXCEPT !.on = FALSE]]

\* To unset a default is an edit.
LEMMA OffKeeps == Keeps(Off)
BY DEF Keeps, Row, Off

WithCode(T, c) == {r \in T : r.val = c}

\* They still do when both change alike.
LEMMA MirrorsChange ==
  ASSUME NEW T \in SUBSET Row, NEW U \in SUBSET Row, Mirrors(T, U), NEW c,
         NEW e \in Val, NEW p \in Refs, NEW on \in BOOLEAN
  PROVE  /\ Mirrors(T \ WithCode(T, c), U \ WithCode(U, c))
         /\ Mirrors(Edited(T, WithCode(T, c), Refill(e, p, on)),
                    Edited(U, WithCode(U, c), Refill(e, p, on)))
         /\ WithCode(T, c) # {} => WithCode(U, c) # {}
<1>1. Mirrors(T \ WithCode(T, c), U \ WithCode(U, c))
  BY DEF Mirrors, WithCode
<1> DEFINE g == Refill(e, p, on)
<1>2. \A r \in Row : g[r].val = e /\ g[r].ref = p /\ g[r].on = on
  BY DEF Row, Refill
<1> HIDE DEF g
<1>3. Mirrors(Edited(T, WithCode(T, c), g), Edited(U, WithCode(U, c), g))
  <2> SUFFICES ASSUME NEW r \in T
               PROVE  \E u \in U :
                        LET x == IF r \in WithCode(T, c) THEN g[r] ELSE r
                            y == IF u \in WithCode(U, c) THEN g[u] ELSE u
                        IN  y.val = x.val /\ y.ref = x.ref /\ y.on = x.on
    BY DEF Mirrors, Edited
  <2>1. PICK u \in U : u.val = r.val /\ u.ref = r.ref /\ u.on = r.on
    BY DEF Mirrors
  <2>2. u \in WithCode(U, c) <=> r \in WithCode(T, c)
    BY <2>1 DEF WithCode
  <2> QED BY <1>2, <2>1, <2>2
<1> QED BY <1>1, <1>3 DEF Mirrors, WithCode, g

\* The memory unsets every default, the database those that are set.
LEMMA MirrorsOff ==
  ASSUME NEW T \in SUBSET Row, NEW U \in SUBSET Row, Mirrors(T, U), NEW A, NEW B,
         \A r \in T : r.on => r \in A, \A u \in U : u.on => u \in B
  PROVE  Mirrors(Edited(T, A, Off), Edited(U, B, Off))
<1>1. \A r \in Row : /\ Off[r].val = r.val /\ Off[r].ref = r.ref
                     /\ Off[r].on = FALSE
                     /\ r.on \in BOOLEAN
  BY DEF Row, Off
<1>2. SUFFICES ASSUME NEW r \in T
               PROVE  \E u \in U :
                        LET x == IF r \in A THEN Off[r] ELSE r
                            y == IF u \in B THEN Off[u] ELSE u
                        IN  y.val = x.val /\ y.ref = x.ref /\ y.on = x.on
  BY DEF Mirrors, Edited
<1>3. PICK u \in U : u.val = r.val /\ u.ref = r.ref /\ u.on = r.on
  BY DEF Mirrors
<1> DEFINE x == IF r \in A THEN Off[r] ELSE r
           y == IF u \in B THEN Off[u] ELSE u
<1>4. x.val = r.val /\ x.ref = r.ref /\ x.on = FALSE
  BY <1>1
<1>5. y.val = u.val /\ y.ref = u.ref /\ y.on = FALSE
  BY <1>1
<1> QED BY <1>3, <1>4, <1>5

Catalog == {"scene", "storage"}

\* The rows of both.
LEMMA CatalogRows ==
  ASSUME NEW m, NEW d, Ready(m, d), NEW K \in Catalog
  PROVE  /\ K \in Free /\ K \in Table /\ m \in Stores /\ d \in Stores
         /\ m.tab[K] \in SUBSET Row /\ d.tab[K] \in SUBSET Row
         /\ m.next[K] \in 1 .. MaxId + 1 /\ d.next[K] \in 1 .. MaxId + 1
         /\ Mirrors(m.tab[K], d.tab[K]) /\ Mirrors(d.tab[K], m.tab[K])
         /\ \A r \in m.tab[K] : r.id < d.next[K]
<1>1. K \in Free /\ K \in Table
  BY DEF Catalog, Free, Table
<1>2. m \in Stores /\ d \in Stores /\ AlikeRows(m, d)
  BY ReadyStores
<1>3. Coded(m.tab[K]) = Coded(d.tab[K]) /\ \A r \in m.tab[K] : r.id < d.next[K]
  BY <1>2 DEF AlikeRows, Catalog
<1> QED BY <1>1, <1>2, <1>3, StoreFields, CodedMirrors

\* The same of the rows placed in them.
LEMMA CatalogReady ==
  ASSUME NEW m, NEW d, Ready(m, d), NEW K \in Catalog,
         NEW T \in SUBSET Row, NEW U \in SUBSET Row,
         Mirrors(T, U), Mirrors(U, T), NEW k \in 1 .. MaxId + 1,
         \A r \in T : r.id < k
  PROVE  Ready(Place(m, K, T, m.next[K]), Place(d, K, U, k))
<1>1. SameRows(K, T, U, m.next[K], k)
  <2>1. Coded(T) = Coded(U)
    BY CodedMirrors
  <2> QED BY <2>1 DEF SameRows, Catalog, Plain
<1> QED BY <1>1, CatalogRows, FreeAgree

\* The same edit of what has a code.
LEMMA RefillReady ==
  ASSUME NEW m, NEW d, Ready(m, d), NEW K \in Catalog, NEW c,
         NEW e \in Val, NEW p \in Refs, NEW on \in BOOLEAN
  PROVE  /\ Ready(Edit(m, K, ByCode(m, K, c), Refill(e, p, on)),
                  Edit(d, K, ByCode(d, K, c), Refill(e, p, on)))
         /\ Ready(Without(m, K, ByCode(m, K, c)), Without(d, K, ByCode(d, K, c)))
         /\ ByCode(m, K, c) # {} <=> ByCode(d, K, c) # {}
<1>0. /\ K \in Table /\ m \in Stores /\ d \in Stores
      /\ m.tab[K] \in SUBSET Row /\ d.tab[K] \in SUBSET Row
      /\ d.next[K] \in 1 .. MaxId + 1
      /\ Mirrors(m.tab[K], d.tab[K]) /\ Mirrors(d.tab[K], m.tab[K])
      /\ \A r \in m.tab[K] : r.id < d.next[K]
  BY CatalogRows
<1> DEFINE g == Refill(e, p, on)
           V == WithCode(m.tab[K], c)
           W == WithCode(d.tab[K], c)
           T == Edited(m.tab[K], V, g)
           U == Edited(d.tab[K], W, g)
<1>1. ByCode(m, K, c) = V /\ ByCode(d, K, c) = W
  BY DEF ByCode, WithCode
<1>2. Keeps(g)
  BY UpdatesKeep
<1>3. Mirrors(T, U) /\ Mirrors(U, T)
  BY <1>0, MirrorsChange
<1>4. Mirrors(m.tab[K] \ V, d.tab[K] \ W) /\ Mirrors(d.tab[K] \ W, m.tab[K] \ V)
  BY <1>0, MirrorsChange
<1>5. V # {} <=> W # {}
  BY <1>0, MirrorsChange
<1> HIDE DEF g, V, W
<1>6. T \in SUBSET Row /\ U \in SUBSET Row /\ \A r \in T : r.id < d.next[K]
  BY <1>0, <1>2, EditedRows
<1> HIDE DEF T, U
<1>7. Ready(Place(m, K, T, m.next[K]), Place(d, K, U, d.next[K]))
  BY <1>0, <1>3, <1>6, CatalogReady
<1>8. Ready(Place(m, K, m.tab[K] \ V, m.next[K]), Place(d, K, d.tab[K] \ W, d.next[K]))
  <2> DEFINE A == m.tab[K] \ V
             B == d.tab[K] \ W
  <2>1. A \in SUBSET Row /\ B \in SUBSET Row /\ \A r \in A : r.id < d.next[K]
    BY <1>0
  <2>2. Mirrors(A, B) /\ Mirrors(B, A)
    BY <1>4
  <2> HIDE DEF A, B
  <2>3. Ready(Place(m, K, A, m.next[K]), Place(d, K, B, d.next[K]))
    BY <1>0, <2>1, <2>2, CatalogReady
  <2> QED BY <2>3 DEF A, B
<1>9. /\ Without(m, K, V) = Place(m, K, m.tab[K] \ V, m.next[K])
      /\ Without(d, K, W) = Place(d, K, d.tab[K] \ W, d.next[K])
  BY <1>0, WithoutIs
<1> QED BY <1>1, <1>5, <1>7, <1>8, <1>9 DEF Edit, T, U, g

-----------------------------------------------------------------------------
(* The calls on them.                                                      *)

\* A scene or a storage goes by its code.
LEMMA CatalogDeletes ==
  ASSUME NEW m, NEW d, Ready(m, d), NEW c
  PROVE  /\ Agree(MemDeleteScene(m, c), DbDeleteScene(d, c), FALSE)
         /\ Agree(MemDeleteStorage(m, c), DbDeleteStorage(d, c), FALSE)
<1>1. ASSUME NEW K \in Catalog
      PROVE  /\ Ready(Without(m, K, ByCode(m, K, c)), Without(d, K, ByCode(d, K, c)))
             /\ ByCode(m, K, c) # {} <=> ByCode(d, K, c) # {}
  <2>1. 1 \in Val /\ 0 \in Refs /\ TRUE \in BOOLEAN
    BY NewRows
  <2> QED BY <2>1, RefillReady
<1>2. "scene" \in Catalog /\ "storage" \in Catalog
  BY DEF Catalog
<1> QED BY <1>1, <1>2, SameAgree
        DEF MemDeleteScene, DbDeleteScene, MemDeleteStorage, DbDeleteStorage,
            RowsError

\* A scene gets another code, storage and status.
LEMMA SceneUpdates ==
  ASSUME NEW m, NEW d, Ready(m, d), NEW c, NEW e \in Val, NEW st \in Refs,
         NEW on \in BOOLEAN
  PROVE  Agree(MemUpdateScene(m, c, e, st, on), DbUpdateScene(d, c, e, st, on),
               e # c /\ ByCode(d, "scene", e) # {})
<1> DEFINE K == "scene"
           g == Refill(e, st, on)
           a == Edit(m, K, ByCode(m, K, c), g)
           b == Edit(d, K, ByCode(d, K, c), g)
           x == RowsError(ByCode(m, K, c) # {}, m, a)
           y == RowsError(ByCode(d, K, c) # {}, d, b)
<1>0. K \in Catalog /\ K \in Table /\ m \in Stores /\ d \in Stores
  BY ReadyStores, TableNames DEF Catalog
<1>1. Ready(a, b) /\ (ByCode(m, K, c) # {} <=> ByCode(d, K, c) # {})
  BY <1>0, RefillReady
<1>2. Agree(x, y, FALSE)
  BY <1>1, SameAgree DEF RowsError
<1>3. MemUpdateScene(m, c, e, st, on) = x
  <2>1. m.tab["scene"] \in SUBSET Row
    BY <1>0, StoreFields
  <2>2. {IF r \in ByCode(m, "scene", c)
           THEN [r EXCEPT !.val = e, !.ref = st, !.on = on] ELSE r :
           r \in m.tab["scene"]}
          = Edited(m.tab["scene"], ByCode(m, "scene", c), g)
    BY <2>1 DEF Edited, Refill
  <2> QED BY <1>0, <2>2, PlaceRows DEF MemUpdateScene, Change, Edit
<1>4. DbUpdateScene(d, c, e, st, on)
        = IF ByCode(d, K, c) # {} /\ e # c /\ ByCode(d, K, e) # {}
          THEN Conflict(d) ELSE y
  <2>1. d.tab["scene"] \in SUBSET Row
    BY <1>0, StoreFields
  <2>2. {IF r \in ByCode(d, "scene", c)
           THEN [r EXCEPT !.val = e, !.ref = st, !.on = on] ELSE r :
           r \in d.tab["scene"]}
          = Edited(d.tab["scene"], ByCode(d, "scene", c), g)
    BY <2>1 DEF Edited, Refill
  <2> QED BY <1>0, <2>2, PlaceRows DEF DbUpdateScene, Change, Edit
<1> HIDE DEF x, y
<1>5. CASE ByCode(d, K, c) # {} /\ e # c /\ ByCode(d, K, e) # {}
  BY <1>2, <1>3, <1>4, <1>5, RefuseAgree
<1>6. CASE ~(ByCode(d, K, c) # {} /\ e # c /\ ByCode(d, K, e) # {})
  BY <1>2, <1>3, <1>4, <1>6, AgreeAnyway
<1> QED BY <1>5, <1>6

\* No storage is the default.
LEMMA UnsetReady ==
  ASSUME NEW m, NEW d, Ready(m, d)
  PROVE  /\ Ready(MemUnsetDefault(m), DbUnsetDefault(d))
         /\ DbUnsetDefault(d).next = d.next
<1> DEFINE K == "storage"
           S == m.tab[K]
           R == {r \in d.tab[K] : r.on}
           T == Edited(m.tab[K], S, Off)
           U == Edited(d.tab[K], R, Off)
<1>0. /\ K \in Catalog /\ K \in Table /\ m \in Stores /\ d \in Stores
      /\ m.tab[K] \in SUBSET Row /\ d.tab[K] \in SUBSET Row
      /\ d.next[K] \in 1 .. MaxId + 1
      /\ Mirrors(m.tab[K], d.tab[K]) /\ Mirrors(d.tab[K], m.tab[K])
      /\ \A r \in m.tab[K] : r.id < d.next[K]
  BY CatalogRows DEF Catalog
<1>1. Mirrors(T, U) /\ Mirrors(U, T)
  BY <1>0, MirrorsOff
<1>2. T \in SUBSET Row /\ U \in SUBSET Row /\ \A r \in T : r.id < d.next[K]
  BY <1>0, OffKeeps, EditedRows
<1>3. {IF r \in S THEN [r EXCEPT !.on = FALSE] ELSE r : r \in m.tab[K]} = T
  BY <1>0 DEF Edited, Off
<1>4. {IF r \in R THEN [r EXCEPT !.on = FALSE] ELSE r : r \in d.tab[K]} = U
  BY <1>0 DEF Edited, Off
<1>5. MemUnsetDefault(m) = Place(m, K, T, m.next[K])
  BY <1>0, <1>3, PlaceRows DEF MemUnsetDefault, Change
<1>6. DbUnsetDefault(d) = Place(d, K, U, d.next[K])
  BY <1>0, <1>4, PlaceRows DEF DbUnsetDefault, Change
<1> HIDE DEF T, U, S, R
<1>7. Ready(Place(m, K, T, m.next[K]), Place(d, K, U, d.next[K]))
  BY <1>0, <1>1, <1>2, CatalogReady
<1>8. Place(d, K, U, d.next[K]).next = d.next
  BY <1>0 DEF Place, Stores, MemStore, DbStore
<1> QED BY <1>5, <1>6, <1>7, <1>8

\* A storage gets another code, status and default.
LEMMA StorageUpdates ==
  ASSUME NEW m, NEW d, Ready(m, d), NEW c, NEW e \in Val,
         NEW enabled \in {0, 1}, NEW default \in BOOLEAN
  PROVE  Agree(MemUpdateStorage(m, c, e, enabled, default),
               DbUpdateStorage(d, c, e, enabled, default),
               e # c /\ ByCode(d, "storage", e) # {})
<1> DEFINE K == "storage"
           g == Refill(e, enabled, default)
           m1 == IF default THEN MemUnsetDefault(m) ELSE m
           d1 == IF default THEN DbUnsetDefault(d) ELSE d
           a == Edit(m1, K, ByCode(m1, K, c), g)
           b == Edit(d1, K, ByCode(d1, K, c), g)
           x == RowsError(ByCode(m, K, c) # {}, m, a)
           y == RowsError(ByCode(d, K, c) # {}, d, b)
<1>0. K \in Catalog /\ K \in Table /\ enabled \in Refs
  BY TableNames, BoundAssumption DEF Catalog, Refs, Val
<1>1. Ready(m1, d1)
  BY UnsetReady
<1> HIDE DEF m1, d1
<1>2. m1 \in Stores /\ d1 \in Stores
  BY <1>1, ReadyStores
<1>3. Ready(a, b)
  BY <1>0, <1>1, RefillReady
<1>4. ByCode(m, K, c) # {} <=> ByCode(d, K, c) # {}
  BY <1>0, RefillReady
<1>5. Agree(x, y, FALSE)
  BY <1>3, <1>4, SameAgree DEF RowsError
<1>6. Storage(m1, c, e, enabled, default) = a
  <2>1. m1.tab["storage"] \in SUBSET Row
    BY <1>0, <1>2, StoreFields
  <2>2. {IF r \in ByCode(m1, "storage", c)
           THEN [r EXCEPT !.val = e, !.ref = enabled, !.on = default] ELSE r :
           r \in m1.tab["storage"]}
          = Edited(m1.tab["storage"], ByCode(m1, "storage", c), g)
    BY <2>1 DEF Edited, Refill
  <2> QED BY <1>0, <1>2, <2>2, PlaceRows DEF Storage, Change, Edit
<1>7. Storage(d1, c, e, enabled, default) = b
  <2>1. d1.tab["storage"] \in SUBSET Row
    BY <1>0, <1>2, StoreFields
  <2>2. {IF r \in ByCode(d1, "storage", c)
           THEN [r EXCEPT !.val = e, !.ref = enabled, !.on = default] ELSE r :
           r \in d1.tab["storage"]}
          = Edited(d1.tab["storage"], ByCode(d1, "storage", c), g)
    BY <2>1 DEF Edited, Refill
  <2> QED BY <1>0, <1>2, <2>2, PlaceRows DEF Storage, Change, Edit
<1>8. MemUpdateStorage(m, c, e, enabled, default) = x
  BY <1>6 DEF MemUpdateStorage, m1
<1>9. DbUpdateStorage(d, c, e, enabled, default)
        = IF ByCode(d, K, c) # {} /\ e # c /\ ByCode(d, K, e) # {}
          THEN Conflict(d) ELSE y
  BY <1>7 DEF DbUpdateStorage, d1
<1> HIDE DEF x, y
<1>10. CASE ByCode(d, K, c) # {} /\ e # c /\ ByCode(d, K, e) # {}
  BY <1>5, <1>8, <1>9, <1>10, RefuseAgree
<1>11. CASE ~(ByCode(d, K, c) # {} /\ e # c /\ ByCode(d, K, e) # {})
  BY <1>5, <1>8, <1>9, <1>11, AgreeAnyway
<1> QED BY <1>10, <1>11

\* A nonempty set of numbers has a least one.
LEMMA LeastNat ==
  ASSUME NEW T, T \subseteq Nat, T # {}
  PROVE  \E k \in T : \A j \in T : k <= j
<1> DEFINE R == OpToRel(<, Nat)
<1>1. IsWellFoundedOn(R, Nat)
  BY NatLessThanWellFounded, Zenon
<1>2. \A a, b \in Nat : a < b => <<a, b>> \in R
  BY Zenon DEF OpToRel
<1> HIDE DEF R
<1>3. PICK k \in T : \A j \in T : <<j, k>> \notin R
  BY <1>1, WFMin
<1>4. \A j \in T : ~(j < k)
  BY <1>2, <1>3, Zenon
<1> QED BY <1>4

\* The memory gives a new scene or storage an id that the database has not
\* passed.
LEMMA AddLastIs ==
  ASSUME NEW m \in Stores, NEW K \in Table, NEW r, NEW k \in 1 .. MaxId,
         \A t \in m.tab[K] : t.id < k
  PROVE  \E n \in Ids :
           /\ n <= k
           /\ MemAddLast(m, K, r)
                = Place(m, K, m.tab[K] \cup {WithId(n, r)}, m.next[K])
<1> DEFINE used == {x.id : x \in m.tab[K]}
           P(n) == /\ \A x \in used : x < n
                   /\ n = 1 \/ n - 1 \in used
           next == CHOOSE n \in 1 .. MaxId + 1 : P(n)
           Above == {n \in Nat \ {0} : \A x \in used : x < n}
<1>0. k \in Nat \ {0} /\ k <= MaxId /\ MaxId \in Nat
  BY BoundAssumption
<1>1. used \subseteq Nat
  BY StoreFields, BoundAssumption DEF Row, Ids
<1>2. \A x \in used : x < k
  OBVIOUS
<1> HIDE DEF used
<1>3. k \in Above /\ Above \subseteq Nat
  BY <1>0, <1>2
<1>4. PICK n \in Above : \A j \in Above : n <= j
  <2> HIDE DEF Above
  <2> QED BY <1>3, LeastNat
<1>5. n \in Nat \ {0} /\ n <= k
  BY <1>3, <1>4
<1>6. n = 1 \/ n - 1 \in used
  <2> SUFFICES ASSUME n # 1, n - 1 \notin used PROVE FALSE
    OBVIOUS
  <2>1. n - 1 \in Nat \ {0} /\ ~(n <= n - 1)
    BY <1>5
  <2>2. ASSUME NEW x \in used PROVE x < n - 1
    <3>1. x < n /\ x # n - 1 /\ x \in Nat
      BY <1>1, <1>4, <2>2
    <3> QED BY <1>5, <3>1
  <2>3. n - 1 \in Above
    BY <2>1, <2>2
  <2> QED BY <1>4, <2>1, <2>3
<1>7. n \in 1 .. MaxId + 1 /\ P(n)
  BY <1>0, <1>4, <1>5, <1>6
<1>8. next \in 1 .. MaxId + 1 /\ P(next)
  <2> HIDE DEF P
  <2> QED BY <1>7
<1>9. next <= k /\ next \in Ids
  <2>1. next \in Nat \ {0} /\ (next = 1 \/ next - 1 < k)
    BY <1>0, <1>2, <1>8
  <2> HIDE DEF next
  <2>2. next <= k
    BY <1>0, <2>1
  <2> QED BY <1>0, <2>1, <2>2 DEF Ids
<1>10. MemAddLast(m, K, r) = [m EXCEPT !.tab[K] = @ \cup {WithId(next, r)}]
  BY DEF MemAddLast, used
<1>11. [m EXCEPT !.tab[K] = @ \cup {WithId(next, r)}]
         = Place(m, K, m.tab[K] \cup {WithId(next, r)}, m.next[K])
  <2> HIDE DEF next
  <2> QED BY DEF Place, Stores, MemStore, DbStore
<1> QED BY <1>9, <1>10, <1>11

\* The same new scene or storage in both.
LEMMA AddLastReady ==
  ASSUME NEW m, NEW d, Ready(m, d), NEW K \in Catalog, d.next[K] <= MaxId,
         NEW r \in New
  PROVE  Ready(MemAddLast(m, K, r), Add(d, K, r))
<1>0. /\ K \in Table /\ m \in Stores /\ d \in Stores
      /\ m.tab[K] \in SUBSET Row /\ d.tab[K] \in SUBSET Row
      /\ d.next[K] \in 1 .. MaxId + 1
      /\ Mirrors(m.tab[K], d.tab[K]) /\ Mirrors(d.tab[K], m.tab[K])
      /\ \A t \in m.tab[K] : t.id < d.next[K]
  BY CatalogRows
<1> DEFINE k == d.next[K]
<1>1. k \in 1 .. MaxId /\ k \in Ids /\ k + 1 \in 1 .. MaxId + 1
  BY <1>0, NextIds DEF Ids
<1>2. PICK n \in Ids :
        /\ n <= k
        /\ MemAddLast(m, K, r) = Place(m, K, m.tab[K] \cup {WithId(n, r)}, m.next[K])
  BY <1>0, <1>1, AddLastIs
<1> DEFINE T == m.tab[K] \cup {WithId(n, r)}
           U == d.tab[K] \cup {WithId(k, r)}
<1>3. T \in SUBSET Row /\ U \in SUBSET Row
  BY <1>0, <1>1, NewRows
<1>4. Mirrors(T, U) /\ Mirrors(U, T)
  <2>1. /\ WithId(n, r).val = WithId(k, r).val
        /\ WithId(n, r).ref = WithId(k, r).ref
        /\ WithId(n, r).on = WithId(k, r).on
        /\ WithId(n, r).deleted = WithId(k, r).deleted
    BY DEF WithId
  <2> DEFINE p == WithId(n, r)
             q == WithId(k, r)
  <2> HIDE DEF p, q
  <2>2. Mirrors(m.tab[K] \cup {p}, d.tab[K] \cup {q})
    BY <1>0, <2>1 DEF Mirrors, p, q
  <2>3. Mirrors(d.tab[K] \cup {q}, m.tab[K] \cup {p})
    BY <1>0, <2>1 DEF Mirrors, p, q
  <2> QED BY <2>2, <2>3 DEF p, q
<1>5. \A t \in T : t.id < k + 1
  <2>1. \A t \in m.tab[K] : t.id < k /\ t.id \in Nat
    BY <1>0, BoundAssumption DEF Row, Ids
  <2>2. WithId(n, r).id = n
    BY DEF WithId
  <2>3. n \in Nat /\ k \in Nat
    BY <1>1, BoundAssumption DEF Ids
  <2> QED BY <1>2, <2>1, <2>2, <2>3
<1>6. Add(d, K, r) = Place(d, K, U, k + 1)
  BY <1>0, AddIs
<1> HIDE DEF T, U, k
<1>7. Ready(Place(m, K, T, m.next[K]), Place(d, K, U, k + 1))
  BY <1>1, <1>3, <1>4, <1>5, CatalogReady
<1> QED BY <1>2, <1>6, <1>7 DEF T

\* A new scene; its code may be in use only in memory.
LEMMA SceneCreates ==
  ASSUME NEW m, NEW d, Ready(m, d), d.next["scene"] <= MaxId, NEW c \in Val,
         NEW st \in Refs, NEW on \in BOOLEAN
  PROVE  Agree(MemCreateScene(m, c, st, on), DbCreateScene(d, c, st, on),
               ByCode(d, "scene", c) # {})
<1>1. "scene" \in Catalog /\ NewRow(c, st, on) \in New
  BY NewRows DEF Catalog
<1> DEFINE a == MemAddLast(m, "scene", NewRow(c, st, on))
           b == Add(d, "scene", NewRow(c, st, on))
<1>2. Ready(a, b)
  BY <1>1, AddLastReady
<1> HIDE DEF a, b
<1>3. Agree(Ok(a), Ok(b), FALSE)
  BY <1>2, SameAgree
<1>4. CASE ByCode(d, "scene", c) # {}
  BY <1>3, <1>4, RefuseAgree DEF MemCreateScene, DbCreateScene, a, b
<1>5. CASE ByCode(d, "scene", c) = {}
  BY <1>3, <1>5 DEF MemCreateScene, DbCreateScene, a, b
<1> QED BY <1>4, <1>5

\* A new storage, before which the default is unset.
LEMMA StorageCreates ==
  ASSUME NEW m, NEW d, Ready(m, d), d.next["storage"] <= MaxId, NEW c \in Val,
         NEW enabled \in {0, 1}, NEW default \in BOOLEAN
  PROVE  Agree(MemCreateStorage(m, c, enabled, default),
               DbCreateStorage(d, c, enabled, default),
               ByCode(d, "storage", c) # {})
<1> DEFINE m1 == IF default THEN MemUnsetDefault(m) ELSE m
           d1 == IF default THEN DbUnsetDefault(d) ELSE d
           w == NewRow(c, enabled, default)
           a == MemAddLast(m1, "storage", w)
           b == Add(d1, "storage", w)
<1>1. "storage" \in Catalog /\ enabled \in Refs
  BY BoundAssumption DEF Catalog, Refs, Val
<1>2. w \in New
  BY <1>1, NewRows
<1>3. Ready(m1, d1) /\ d1.next["storage"] <= MaxId
  BY UnsetReady
<1>6. MemCreateStorage(m, c, enabled, default) = Ok(a)
  BY DEF MemCreateStorage
<1>7. DbCreateStorage(d, c, enabled, default)
        = IF ByCode(d, "storage", c) # {} THEN Conflict(d) ELSE Ok(b)
  BY DEF DbCreateStorage
<1> HIDE DEF m1, d1, w
<1>4. Ready(a, b)
  BY <1>1, <1>2, <1>3, AddLastReady
<1> HIDE DEF a, b
<1>5. Agree(Ok(a), Ok(b), FALSE)
  BY <1>4, SameAgree
<1>8. CASE ByCode(d, "storage", c) # {}
  BY <1>5, <1>6, <1>7, <1>8, RefuseAgree
<1>9. CASE ByCode(d, "storage", c) = {}
  BY <1>5, <1>6, <1>7, <1>9
<1> QED BY <1>8, <1>9

-----------------------------------------------------------------------------
(* Several configurations at once.                                         *)

\* One more of them.
MemPut(a, p) == IF a.said # <<"ok", 0>> THEN a
                ELSE MemUpdateConfig(a.store, p.id, p.val, p.on)
DbPut(b, p)  == IF b.said # <<"ok", 0>> THEN b
                ELSE DbUpdateConfig(b.store, p.id, p.val, p.on)

\* There are one or two.
LEMMA ParamsAre ==
  ASSUME NEW ps \in Params
  PROVE  /\ Len(ps) \in 1 .. 2
         /\ \A n \in 1 .. Len(ps) :
              ps[n].id \in Ids /\ ps[n].val \in Val /\ ps[n].on \in BOOLEAN
<1>1. PICK n \in 1 .. 2 : ps \in [1 .. n -> [id: Ids, val: Val, on: BOOLEAN]]
  BY DEF Params
<1>2. Len(ps) = n
  BY <1>1
<1> QED BY <1>1, <1>2

\* The memory takes one parameter after the other.
LEMMA MemBulkIs ==
  ASSUME NEW m, NEW ps \in Params
  PROVE  LET b == MemPut(Ok(m), ps[1])
             e == IF Len(ps) = 1 THEN b ELSE MemPut(b, ps[2])
         IN  MemBulkUpdate(m, ps) = e
<1> DEFINE n0 == Ok(m)
           n1 == MemPut(n0, ps[1])
           n2 == MemPut(n1, ps[2])
           F(g) == [n \in 0 .. Len(ps) |->
                      IF n = 0 THEN n0 ELSE MemPut(g[n - 1], ps[n])]
           f == [n \in 0 .. Len(ps) |->
                   IF n = 0 THEN n0 ELSE IF n = 1 THEN n1 ELSE n2]
           u == CHOOSE g : g = F(g)
<1>0. Len(ps) \in 1 .. 2
  BY ParamsAre
<1>1. MemBulkUpdate(m, ps) = u[Len(ps)]
  BY DEF MemBulkUpdate, MemPut
<1>2. f = F(f)
  <2> HIDE DEF n0, n1, n2
  <2>1. \A n \in 0 .. Len(ps) : f[n] = F(f)[n]
    <3>1. n1 = MemPut(n0, ps[1]) /\ n2 = MemPut(n1, ps[2])
      BY DEF n1, n2
    <3>2. 0 \in 0 .. Len(ps) /\ 1 \in 0 .. Len(ps)
      BY <1>0
    <3>3. f[0] = n0 /\ f[1] = n1
      BY <3>2
    <3> QED BY <1>0, <3>1, <3>3
  <2> QED BY <2>1
<1> HIDE DEF f
<1>3. u = F(u)
  <2> HIDE DEF F
  <2> QED BY <1>2
<1> HIDE DEF u, n0
<1>4. u[0] = n0
  BY <1>0, <1>3
<1>5. u[1] = MemPut(u[0], ps[1])
  BY <1>0, <1>3
<1>6. Len(ps) = 2 => u[2] = MemPut(u[1], ps[2])
  BY <1>3
<1>7. u[Len(ps)] = IF Len(ps) = 1 THEN n1 ELSE n2
  <2>1. u[1] = n1
    BY <1>4, <1>5
  <2>2. Len(ps) = 2 => u[2] = n2
    BY <1>6, <2>1
  <2> HIDE DEF n1, n2
  <2>3. CASE Len(ps) = 1
    BY <2>1, <2>3
  <2>4. CASE Len(ps) = 2
    BY <2>2, <2>4
  <2> QED BY <1>0, <2>3, <2>4
<1> QED BY <1>1, <1>7 DEF n0

\* The database takes one parameter after the other.
LEMMA DbBulkIs ==
  ASSUME NEW d, NEW ps \in Params
  PROVE  LET b == DbPut(Ok(d), ps[1])
             e == IF Len(ps) = 1 THEN b ELSE DbPut(b, ps[2])
         IN  DbBulkUpdate(d, ps) = Tx(d, e)
<1> DEFINE n0 == Ok(d)
           n1 == DbPut(n0, ps[1])
           n2 == DbPut(n1, ps[2])
           F(g) == [n \in 0 .. Len(ps) |->
                      IF n = 0 THEN n0 ELSE DbPut(g[n - 1], ps[n])]
           f == [n \in 0 .. Len(ps) |->
                   IF n = 0 THEN n0 ELSE IF n = 1 THEN n1 ELSE n2]
           u == CHOOSE g : g = F(g)
<1>0. Len(ps) \in 1 .. 2
  BY ParamsAre
<1>1. DbBulkUpdate(d, ps) = Tx(d, u[Len(ps)])
  BY DEF DbBulkUpdate, DbPut
<1>2. f = F(f)
  <2> HIDE DEF n0, n1, n2
  <2>1. \A n \in 0 .. Len(ps) : f[n] = F(f)[n]
    <3>1. n1 = DbPut(n0, ps[1]) /\ n2 = DbPut(n1, ps[2])
      BY DEF n1, n2
    <3>2. 0 \in 0 .. Len(ps) /\ 1 \in 0 .. Len(ps)
      BY <1>0
    <3>3. f[0] = n0 /\ f[1] = n1
      BY <3>2
    <3> QED BY <1>0, <3>1, <3>3
  <2> QED BY <2>1
<1> HIDE DEF f
<1>3. u = F(u)
  <2> HIDE DEF F
  <2> QED BY <1>2
<1> HIDE DEF u, n0
<1>4. u[0] = n0
  BY <1>0, <1>3
<1>5. u[1] = DbPut(u[0], ps[1])
  BY <1>0, <1>3
<1>6. Len(ps) = 2 => u[2] = DbPut(u[1], ps[2])
  BY <1>3
<1>7. u[Len(ps)] = IF Len(ps) = 1 THEN n1 ELSE n2
  <2>1. u[1] = n1
    BY <1>4, <1>5
  <2>2. Len(ps) = 2 => u[2] = n2
    BY <1>6, <2>1
  <2> HIDE DEF n1, n2
  <2>3. CASE Len(ps) = 1
    BY <2>1, <2>3
  <2>4. CASE Len(ps) = 2
    BY <2>2, <2>4
  <2> QED BY <1>0, <2>3, <2>4
<1> QED BY <1>1, <1>7 DEF n0

\* While the database has refused none, both stores are alike.
Batch(a, b) ==
  /\ Fits(a.store, b.store)
  /\ b = [store |-> b.store, said |-> b.said]
  /\ b.said \in {<<"ok", 0>>, <<"notFound", 0>>, <<"conflict", 0>>}
  /\ b.said = <<"ok", 0>> => a.said = b.said /\ Alike(a.store, b.store)

\* An update leaves the memory in order.
LEMMA ConfigKeeps ==
  ASSUME NEW m, MemFits(m), NEW id \in Ids, NEW v \in Val, NEW on \in BOOLEAN
  PROVE  MemFits(MemUpdateConfig(m, id, v, on).store)
<1> DEFINE F == Find(m, "config", {id})
           g == Reset(v, on)
<1>1. m \in Stores /\ "config" \in Table /\ m.tab["config"] \in SUBSET Row
  BY TableNames, StoreFields DEF MemFits, Stores
<1>2. MemFits(Edit(m, "config", F, g))
  BY <1>1, UpdatesKeep, EditMem
<1>3. {IF r \in F THEN [r EXCEPT !.val = v, !.on = on] ELSE r : r \in m.tab["config"]}
        = Edited(m.tab["config"], F, g)
  BY <1>1 DEF Edited, Reset
<1>4. MemUpdateConfig(m, id, v, on)
        = IF Has(m, "config", id) THEN Ok(Edit(m, "config", F, g)) ELSE NotFound(m)
  BY <1>1, <1>3, PlaceRows DEF MemUpdateConfig, Updated, RowsError, Change, Edit
<1> HIDE DEF F, g
<1> QED BY <1>2, <1>4 DEF Ok, NotFound

\* One more parameter.
LEMMA BatchStep ==
  ASSUME NEW a, NEW b, Batch(a, b), NEW p, p.id \in Ids, p.val \in Val,
         p.on \in BOOLEAN
  PROVE  Batch(MemPut(a, p), DbPut(b, p))
<1>1. Fits(a.store, b.store) /\ MemFits(a.store) /\ DbFits(b.store)
  BY DEF Batch, Fits
<1>2. CASE b.said # <<"ok", 0>>
  <2>1. MemFits(MemPut(a, p).store)
    BY <1>1, ConfigKeeps DEF MemPut
  <2> QED BY <1>1, <1>2, <2>1 DEF Batch, DbPut, Fits
<1>3. CASE b.said = <<"ok", 0>>
  <2> DEFINE m == a.store
             d == b.store
             x == MemUpdateConfig(m, p.id, p.val, p.on)
             y == DbUpdateConfig(d, p.id, p.val, p.on)
  <2>1. MemPut(a, p) = x /\ DbPut(b, p) = y
    BY <1>3 DEF Batch, MemPut, DbPut
  <2>2. Ready(m, d)
    BY <1>1, <1>3 DEF Batch, Ready
  <2>3. Agree(x, y, Taken(d, "config", p.val, p.id))
    BY <2>2, ConfigUpdates
  <2>4. /\ y.said \in {<<"ok", 0>>, <<"notFound", 0>>, <<"conflict", 0>>}
        /\ y.said = <<"ok", 0>> => ~Taken(d, "config", p.val, p.id)
        /\ y = [store |-> y.store, said |-> y.said]
    BY DEF DbUpdateConfig, Updated, RowsError, Ok, NotFound, Conflict
  <2> HIDE DEF x, y, m, d
  <2>5. Batch(x, y)
    BY <2>3, <2>4 DEF Batch, Agree
  <2> QED BY <2>1, <2>5
<1> QED BY <1>2, <1>3

\* A batch, which the database refuses whole.
LEMMA BulkUpdates ==
  ASSUME NEW m, NEW d, Ready(m, d), NEW ps \in Params
  PROVE  Agree(MemBulkUpdate(m, ps), DbBulkUpdate(d, ps),
               DbBulkUpdate(d, ps).said # <<"ok", 0>>)
<1> DEFINE a1 == MemPut(Ok(m), ps[1])
           b1 == DbPut(Ok(d), ps[1])
           a == IF Len(ps) = 1 THEN a1 ELSE MemPut(a1, ps[2])
           b == IF Len(ps) = 1 THEN b1 ELSE DbPut(b1, ps[2])
<1>1. Batch(Ok(m), Ok(d)) /\ Fits(m, d)
  BY DEF Ready, Batch, Ok
<1>2. Batch(a1, b1)
  BY <1>1, ParamsAre, BatchStep
<1> HIDE DEF a1, b1
<1>3. Batch(a, b)
  <2>1. CASE Len(ps) = 1
    BY <1>2, <2>1
  <2>2. CASE Len(ps) = 2
    BY <1>2, <2>2, ParamsAre, BatchStep
  <2> QED BY <2>1, <2>2, ParamsAre
<1>4. MemBulkUpdate(m, ps) = a /\ DbBulkUpdate(d, ps) = Tx(d, b)
  BY MemBulkIs, DbBulkIs DEF a1, b1
<1> HIDE DEF a, b
<1>5. CASE b.said = <<"ok", 0>>
  <2>1. Tx(d, b) = b
    BY <1>5 DEF Tx
  <2> QED BY <1>3, <1>4, <1>5, <2>1 DEF Batch, Agree
<1>6. CASE b.said # <<"ok", 0>>
  <2>1. b.said[1] # "ok"
    BY <1>3, <1>6 DEF Batch
  <2>2. Tx(d, b) = [b EXCEPT !.store = d]
    BY <2>1 DEF Tx
  <2>3. [b EXCEPT !.store = d].said = b.said
    BY <1>3 DEF Batch
  <2>4. [b EXCEPT !.store = d].store = d
    BY <1>3 DEF Batch
  <2>5. Fits(a.store, d)
    BY <1>1, <1>3 DEF Batch, Fits
  <2> QED BY <1>4, <1>6, <2>2, <2>3, <2>4, <2>5 DEF Agree
<1> QED BY <1>5, <1>6

-----------------------------------------------------------------------------
(* Lists.                                                                  *)

\* The places of a list count themselves off, each with a number of its own.
LEMMA PlacesCount ==
  ASSUME NEW k \in Nat, NEW At \in SUBSET (1 .. k)
  PROVE  /\ Cardinality(At) \in Nat
         /\ \A i \in At : Cardinality({j \in At : j <= i}) \in 1 .. Cardinality(At)
         /\ \A i, j \in At :
              Cardinality({x \in At : x <= i}) = Cardinality({x \in At : x <= j})
                => i = j
         /\ \A n \in 1 .. Cardinality(At) :
              \E i \in At : Cardinality({j \in At : j <= i}) = n
<1> DEFINE Upto(i) == {j \in At : j <= i}
           rank == [i \in At |-> Cardinality(Upto(i))]
           N == Cardinality(At)
<1>1. IsFiniteSet(1 .. k) /\ IsFiniteSet(At) /\ N \in Nat
  <2>1. IsFiniteSet(1 .. k)
    BY FS_Interval
  <2>2. IsFiniteSet(At)
    BY <2>1, FS_Subset
  <2> QED BY <2>1, <2>2, FS_CardinalityType
<1>2. \A i \in At : IsFiniteSet(Upto(i)) /\ Cardinality(Upto(i)) \in Nat
  <2> TAKE i \in At
  <2>1. Upto(i) \in SUBSET At
    OBVIOUS
  <2> HIDE DEF Upto
  <2>2. IsFiniteSet(Upto(i))
    BY <1>1, <2>1, FS_Subset
  <2> QED BY <2>2, FS_CardinalityType
<1>3. \A i \in At : Cardinality(Upto(i)) \in 1 .. N
  <2> TAKE i \in At
  <2>1. Upto(i) \in SUBSET At /\ i \in Upto(i)
    OBVIOUS
  <2> HIDE DEF Upto
  <2>2. Cardinality(Upto(i)) <= N
    BY <1>1, <2>1, FS_Subset
  <2>3. Cardinality(Upto(i)) # 0
    BY <1>2, <2>1, FS_EmptySet
  <2> QED BY <1>1, <1>2, <2>2, <2>3
<1>4. \A i, j \in At : i < j => Cardinality(Upto(i)) < Cardinality(Upto(j))
  <2> SUFFICES ASSUME NEW i \in At, NEW j \in At, i < j
               PROVE  Cardinality(Upto(i)) < Cardinality(Upto(j))
    OBVIOUS
  <2>0. \A x \in At : x \in Nat /\ (x <= i => x <= j)
    OBVIOUS
  <2>1. Upto(i) \in SUBSET Upto(j) /\ j \in Upto(j) /\ j \notin Upto(i)
    <3>1. j <= j /\ ~(j <= i)
      BY <2>0
    <3> QED BY <2>0, <3>1
  <2>2. Upto(i) # Upto(j)
    BY <2>1
  <2> HIDE DEF Upto
  <2>3. /\ Cardinality(Upto(i)) <= Cardinality(Upto(j))
        /\ Cardinality(Upto(i)) # Cardinality(Upto(j))
    BY <1>2, <2>1, <2>2, FS_Subset
  <2> QED BY <1>2, <2>3
<1> HIDE DEF Upto, N
<1>5. \A i, j \in At : Cardinality(Upto(i)) = Cardinality(Upto(j)) => i = j
  BY <1>2, <1>4
<1>6. rank \in Injection(At, 1 .. N)
  BY <1>3, <1>5 DEF Injection, IsInjective
<1>7. IsFiniteSet(1 .. N) /\ Cardinality(1 .. N) = N
  BY <1>1, FS_Interval
<1>8. rank \in Surjection(At, 1 .. N)
  <2> HIDE DEF rank
  <2> QED BY <1>6, <1>7, FS_Injection DEF N
<1>9. \A n \in 1 .. N : \E i \in At : Cardinality(Upto(i)) = n
  BY <1>8 DEF Surjection
<1> QED BY <1>1, <1>3, <1>5, <1>9 DEF Upto, N

\* What is kept of a list is what is at the places.
LEMMA KeptIs ==
  ASSUME NEW L \in Seq(Ids), NEW At \in SUBSET DOMAIN L
  PROVE  /\ Kept(L, At) \in Seq(Ids)
         /\ Range(Kept(L, At)) = {L[i] : i \in At}
<1> DEFINE N == Cardinality(At)
           rank(i) == Cardinality({j \in At : j <= i})
           at(n) == CHOOSE i \in At : rank(i) = n
<1>1. Len(L) \in Nat /\ At \in SUBSET (1 .. Len(L)) /\ \A i \in At : L[i] \in Ids
  OBVIOUS
<1>2. /\ N \in Nat
      /\ \A i \in At : rank(i) \in 1 .. N
      /\ \A i, j \in At : rank(i) = rank(j) => i = j
      /\ \A n \in 1 .. N : \E i \in At : rank(i) = n
  BY <1>1, PlacesCount
<1>3. Kept(L, At) = [n \in 1 .. N |-> L[at(n)]]
  BY DEF Kept
<1> HIDE DEF N, rank
<1>4. \A n \in 1 .. N : at(n) \in At /\ rank(at(n)) = n
  BY <1>2
<1>5. \A i \in At : at(rank(i)) = i
  BY <1>2, <1>4
<1> HIDE DEF at
<1>6. Kept(L, At) \in Seq(Ids) /\ DOMAIN Kept(L, At) = 1 .. N
  <2>1. Kept(L, At) \in [1 .. N -> Ids]
    BY <1>1, <1>3, <1>4
  <2> QED BY <1>2, <2>1
<1>7. \A y \in Range(Kept(L, At)) : y \in {L[i] : i \in At}
  BY <1>3, <1>4, <1>6 DEF Range
<1>8. \A i \in At : L[i] \in Range(Kept(L, At))
  BY <1>2, <1>3, <1>5, <1>6 DEF Range
<1> QED BY <1>6, <1>7, <1>8

\* The ids that are known are kept.
LEMMA KnownIs ==
  ASSUME NEW m, NEW K, NEW L \in Seq(Ids)
  PROVE  /\ MemKnown(m, K, L) \in Seq(Ids)
         /\ Range(MemKnown(m, K, L)) = {y \in Range(L) : Has(m, K, y)}
<1> DEFINE At == {i \in DOMAIN L : MemHas(m, K, L[i])
                                   /\ \A j \in 1 .. i - 1 : L[j] # L[i]}
<1>1. At \in SUBSET DOMAIN L
  OBVIOUS
<1>2. MemKnown(m, K, L) = Kept(L, At)
  BY DEF MemKnown
<1>3. ASSUME NEW y \in Range(L), Has(m, K, y)
      PROVE  \E i \in At : L[i] = y
  <2> DEFINE T == {j \in DOMAIN L : L[j] = y}
  <2>1. T \subseteq Nat /\ T # {}
    BY DEF Range
  <2>2. PICK i \in T : \A j \in T : i <= j
    <3> HIDE DEF T
    <3> QED BY <2>1, LeastNat
  <2>3. \A j \in 1 .. i - 1 : L[j] # L[i]
    <3> SUFFICES ASSUME NEW j \in 1 .. i - 1, L[j] = L[i] PROVE FALSE
      OBVIOUS
    <3>1. i \in 1 .. Len(L) /\ L[i] = y
      BY <2>2
    <3>2. j \in DOMAIN L /\ ~(i <= j)
      BY <3>1
    <3> QED BY <2>2, <3>1, <3>2
  <2> QED BY <1>3, <2>2, <2>3 DEF MemHas
<1>4. \A i \in At : L[i] \in Range(L) /\ Has(m, K, L[i])
  BY DEF Range, MemHas
<1> HIDE DEF At
<1>5. Kept(L, At) \in Seq(Ids) /\ Range(Kept(L, At)) = {L[i] : i \in At}
  BY <1>1, KeptIs
<1> QED BY <1>2, <1>3, <1>4, <1>5

\* What is taken from a list is gone from it.
LEMMA UnlinkedIs ==
  ASSUME NEW L \in Seq(Ids), NEW S
  PROVE  LET k == Kept(L, {i \in DOMAIN L : L[i] \notin S})
         IN  k \in Seq(Ids) /\ Range(k) = Range(L) \ S
<1> DEFINE At == {i \in DOMAIN L : L[i] \notin S}
<1>1. At \in SUBSET DOMAIN L /\ {L[i] : i \in At} = Range(L) \ S
  BY DEF Range
<1> HIDE DEF At
<1>2. Kept(L, At) \in Seq(Ids) /\ Range(Kept(L, At)) = {L[i] : i \in At}
  BY <1>1, KeptIs
<1> QED BY <1>1, <1>2 DEF At

\* To count the rows of a list is to look for each of its ids.
LEMMA EnsureIs ==
  ASSUME NEW d \in Stores, Counts(d), NEW K \in {"role", "rule"},
         NEW L \in Seq(Ids)
  PROVE  DbEnsure(d, K, L) <=> \A y \in Range(L) : Has(d, K, y)
<1> DEFINE I == Range(L)
           R == {r \in d.tab[K] : r.id \in I}
           f == [r \in R |-> r.id]
<1>1. IsFiniteSet(I)
  <2>1. IsFiniteSet(1 .. Len(L)) /\ I \subseteq Ids
    BY FS_Interval DEF Range
  <2>2. DOMAIN L = 1 .. Len(L)
    OBVIOUS
  <2>3. L \in Surjection(1 .. Len(L), I)
    BY <2>2 DEF Surjection, Range
  <2> HIDE DEF I
  <2> QED BY <2>1, <2>3, FS_Surjection
<1>2. f \in Injection(R, I)
  <2>1. \A r, t \in R : r.id = t.id => r = t
    BY DEF Counts
  <2> QED BY <2>1 DEF Injection, IsInjective
<1>3. Cardinality(R) = Cardinality(I) <=> f \in Surjection(R, I)
  <2> HIDE DEF f, R, I
  <2> QED BY <1>1, <1>2, FS_Injection
<1>4. f \in Surjection(R, I) <=> \A y \in I : \E r \in R : r.id = y
  BY DEF Surjection
<1>5. \A y \in I : (\E r \in R : r.id = y) <=> Has(d, K, y)
  BY HasIs DEF Counts
<1>6. DbEnsure(d, K, L) <=> Cardinality(R) = Cardinality(I)
  BY DEF DbEnsure
<1> HIDE DEF f, R, I
<1> QED BY <1>3, <1>4, <1>5, <1>6 DEF I

-----------------------------------------------------------------------------
(* One list of links is replaced.                                          *)

\* The tables a link is about.
LEMMA LinkEnds ==
  /\ \A L \in LinkTable : From[L] \in Table /\ To[L] \in Table
  /\ \A L \in LinkTable : /\ From[L] \in Table \ {"scene", "storage"}
                          /\ To[L] \in Table \ {"scene", "storage"}
  /\ "userRole" \in LinkTable /\ "roleMenu" \in LinkTable
  /\ "roleScope" \in LinkTable /\ "scopeRule" \in LinkTable
  /\ From["userRole"] = "user" /\ To["userRole"] = "role"
  /\ From["roleMenu"] = "role" /\ To["roleMenu"] = "menu"
  /\ From["roleScope"] = "role" /\ To["roleScope"] = "scope"
  /\ From["scopeRule"] = "scope" /\ To["scopeRule"] = "rule"
BY DEF LinkTable, From, To, Table

\* The lists and the pairs after it.
SetList(m, L, x, l)  == [m EXCEPT !.link[L][x] = l]
SetPairs(d, L, x, l) ==
  [d EXCEPT !.link[L] = {p \in @ : p[1] # x} \cup {<<x, y>> : y \in Range(l)}]

\* Only this list is another one.
LEMMA SetListIs ==
  ASSUME NEW m \in MemStore, NEW L \in LinkTable, NEW x \in Ids,
         NEW l \in Seq(Ids)
  PROVE  LET a == SetList(m, L, x, l)
         IN  /\ a \in MemStore /\ a.tab = m.tab /\ a.next = m.next
             /\ a.changed = m.changed
             /\ \A J \in LinkTable, i \in Ids :
                  a.link[J][i] = IF J = L /\ i = x THEN l ELSE m.link[J][i]
BY DEF SetList, MemStore

\* Only these pairs are others.
LEMMA SetPairsIs ==
  ASSUME NEW d \in DbStore, NEW L \in LinkTable, NEW x \in Ids,
         NEW l \in Seq(Ids)
  PROVE  LET b == SetPairs(d, L, x, l)
         IN  /\ b \in DbStore /\ b.tab = d.tab /\ b.next = d.next
             /\ b.changed = d.changed
             /\ \A J \in LinkTable \ {L} : b.link[J] = d.link[J]
             /\ b.link[L] = {p \in d.link[L] : p[1] # x}
                              \cup {<<x, y>> : y \in Range(l)}
<1>1. {<<x, y>> : y \in Range(l)} \subseteq Ids \X Ids
  BY DEF Range
<1>2. {p \in d.link[L] : p[1] # x} \cup {<<x, y>> : y \in Range(l)}
        \in SUBSET (Ids \X Ids)
  BY <1>1 DEF DbStore
<1> DEFINE P == {p \in d.link[L] : p[1] # x} \cup {<<x, y>> : y \in Range(l)}
<1>3. SetPairs(d, L, x, l) = [d EXCEPT !.link[L] = P]
  BY DEF SetPairs
<1>4. P \in SUBSET (Ids \X Ids)
  BY <1>2
<1>5. LET b == [d EXCEPT !.link[L] = P]
      IN  /\ b \in DbStore /\ b.tab = d.tab /\ b.next = d.next
          /\ b.changed = d.changed
          /\ \A J \in LinkTable \ {L} : b.link[J] = d.link[J]
          /\ b.link[L] = P
  <2> HIDE DEF P
  <2> QED BY <1>4 DEF DbStore
<1> QED BY <1>3, <1>5

\* The memory stays in order when the list is of something that is there, and
\* names nothing else.
LEMMA SetListFits ==
  ASSUME NEW m, MemFits(m), NEW L \in LinkTable, NEW x \in Ids,
         NEW l \in Seq(Ids), Has(m, From[L], x),
         \A y \in Range(l) : Has(m, To[L], y)
  PROVE  MemFits(SetList(m, L, x, l))
<1> DEFINE a == SetList(m, L, x, l)
<1>1. /\ a \in MemStore /\ a.tab = m.tab /\ a.next = m.next
      /\ \A J \in LinkTable, i \in Ids :
           a.link[J][i] = IF J = L /\ i = x THEN l ELSE m.link[J][i]
  BY SetListIs DEF MemFits
<1> HIDE DEF a
<1>2. \A K, id : Has(a, K, id) <=> Has(m, K, id)
  BY <1>1 DEF Has, Find
<1>3. Counts(a)
  BY <1>1 DEF MemFits, Counts
<1>4. MemLive(a)
  BY <1>1, <1>2 DEF MemFits, MemLive
<1>5. MemFits(a)
  BY <1>1, <1>3, <1>4 DEF MemFits
<1> QED BY <1>5 DEF a

\* And both stores stay alike.
LEMMA SetLink ==
  ASSUME NEW m, NEW d, Ready(m, d), NEW L \in LinkTable, NEW x \in Ids,
         NEW l \in Seq(Ids), Has(m, From[L], x),
         \A y \in Range(l) : Has(m, To[L], y)
  PROVE  Ready(SetList(m, L, x, l), SetPairs(d, L, x, l))
<1> DEFINE a == SetList(m, L, x, l)
           b == SetPairs(d, L, x, l)
<1>0. /\ m \in MemStore /\ d \in DbStore /\ MemFits(m) /\ DbFits(d)
      /\ Alike(m, d) /\ AlikeRows(m, d) /\ AlikeLinks(m, d)
  BY ReadyStores
<1>1. /\ a \in MemStore /\ a.tab = m.tab /\ a.next = m.next
      /\ a.changed = m.changed
      /\ \A J \in LinkTable, i \in Ids :
           a.link[J][i] = IF J = L /\ i = x THEN l ELSE m.link[J][i]
  BY <1>0, SetListIs
<1>2. /\ b \in DbStore /\ b.tab = d.tab /\ b.next = d.next
      /\ b.changed = d.changed
      /\ \A J \in LinkTable \ {L} : b.link[J] = d.link[J]
      /\ b.link[L] = {p \in d.link[L] : p[1] # x}
                       \cup {<<x, y>> : y \in Range(l)}
  BY <1>0, SetPairsIs
<1>3. MemFits(a)
  BY <1>0, SetListFits
<1> HIDE DEF a, b
<1>4. \A K, id : /\ Has(a, K, id) <=> Has(m, K, id)
                 /\ Has(b, K, id) <=> Has(d, K, id)
  BY <1>1, <1>2 DEF Has, Find
<1>5. DbFits(b)
  <2>1. Counts(b)
    BY <1>0, <1>2 DEF DbFits, Counts
  <2>2. Has(d, From[L], x) /\ \A y \in Range(l) : Has(d, To[L], y)
    BY <1>0, LinkEnds, SameHas
  <2>3. ASSUME NEW J \in LinkTable, NEW p \in b.link[J]
        PROVE  Has(b, From[J], p[1]) /\ Has(b, To[J], p[2])
    <3>1. CASE p \in d.link[J]
      BY <1>0, <1>4, <3>1 DEF DbFits, DbLive
    <3>2. CASE p \notin d.link[J]
      <4>1. J = L /\ \E y \in Range(l) : p = <<x, y>>
        BY <1>2, <2>3, <3>2
      <4> QED BY <1>4, <2>2, <4>1
    <3> QED BY <3>1, <3>2
  <2> QED BY <1>2, <2>1, <2>3 DEF DbFits, DbLive
<1>6. AlikeRows(a, b)
  BY <1>0, <1>1, <1>2 DEF AlikeRows
<1>7. AlikeLinks(a, b)
  <2> SUFFICES ASSUME NEW J \in LinkTable, NEW i \in Ids
               PROVE  Names(a, J, i) = Linked(b, J, i)
    BY DEF AlikeLinks
  <2>1. Names(m, J, i) = Linked(d, J, i)
    BY <1>0 DEF AlikeLinks
  <2>2. CASE J = L /\ i = x
    <3>1. Names(a, J, i) = Range(l)
      BY <1>1, <1>4, <2>2 DEF Names
    <3>2. Range(l) \subseteq Ids
      BY DEF Range
    <3>3. \A y \in Ids : <<x, y>> \in b.link[L] <=> y \in Range(l)
      BY <1>2
    <3> QED BY <2>2, <3>1, <3>2, <3>3 DEF Linked
  <2>3. CASE ~(J = L /\ i = x)
    <3>1. Names(a, J, i) = Names(m, J, i)
      BY <1>1, <1>4, <2>3 DEF Names
    <3>2. \A y \in Ids : <<i, y>> \in b.link[J] <=> <<i, y>> \in d.link[J]
      BY <1>2, <2>3
    <3> QED BY <2>1, <3>1, <3>2 DEF Linked
  <2> QED BY <2>2, <2>3
<1>8. Ready(a, b)
  BY <1>3, <1>5, <1>6, <1>7 DEF Ready, Fits, Alike
<1> QED BY <1>8 DEF a, b

-----------------------------------------------------------------------------
(* Calls that replace a list.                                              *)

\* The lists a request may give.
LEMMA ListsAre ==
  ASSUME NEW K, NEW L \in Lists(K)
  PROVE  L \in Seq(Ids)
<1>1. CASE L = <<>>
  BY <1>1
<1>2. CASE L # <<>>
  <2>1. PICK n \in 0 .. 2 : L \in [1 .. n -> Ids]
    BY <1>2 DEF Lists
  <2> QED BY <2>1
<1> QED BY <1>1, <1>2

\* A transaction leaves nothing of a conflict.
LEMMA TxIs ==
  ASSUME NEW d, NEW e
  PROVE  /\ Tx(d, Conflict(e)) = Conflict(d)
         /\ Tx(d, Ok(e)) = Ok(e)
BY DEF Tx, Conflict, Ok

\* The memory takes a list that gives an id twice, the database does not.
LEMMA ReplaceAgree ==
  ASSUME NEW d, DbFits(d), NEW a, NEW e, Ready(a, e), NEW L \in LinkTable,
         NEW x \in Ids, NEW l \in Seq(Ids), Has(a, From[L], x),
         \A y \in Range(l) : Has(a, To[L], y)
  PROVE  Agree(Ok(SetList(a, L, x, l)), Tx(d, DbReplaceLinks(e, L, x, l)),
               Repeats(l))
<1>1. Ready(SetList(a, L, x, l), SetPairs(e, L, x, l))
  BY SetLink
<1>2. {<<x, l[i]>> : i \in DOMAIN l} = {<<x, y>> : y \in Range(l)}
  BY DEF Range
<1>3. DbReplaceLinks(e, L, x, l) =
        IF Repeats(l) THEN Conflict(e) ELSE Ok(SetPairs(e, L, x, l))
  BY <1>2 DEF DbReplaceLinks, SetPairs
<1>4. CASE Repeats(l)
  <2>1. Fits(SetList(a, L, x, l), d)
    BY <1>1 DEF Ready, Fits
  <2>2. Tx(d, DbReplaceLinks(e, L, x, l)) = Conflict(d)
    BY <1>3, <1>4, TxIs
  <2>3. Fits(Ok(SetList(a, L, x, l)).store, Conflict(d).store)
    BY <2>1 DEF Ok, Conflict
  <2> QED BY <1>4, <2>2, <2>3 DEF Agree
<1>5. CASE ~Repeats(l)
  <2>1. Tx(d, DbReplaceLinks(e, L, x, l)) = Ok(SetPairs(e, L, x, l))
    BY <1>3, <1>5, TxIs
  <2> QED BY <1>1, <2>1, SameAgree
<1> QED BY <1>4, <1>5

\* Menus of a role, of which only those that are there are taken.
LEMMA MenuLinks ==
  ASSUME NEW m, NEW d, Ready(m, d), NEW r \in Ids, NEW L \in Seq(Ids)
  PROVE  Agree(MemUpdateRoleMenus(m, r, L), DbUpdateRoleMenus(d, r, L), FALSE)
<1> DEFINE l == MemKnown(m, "menu", L)
<1>1. \A id : /\ Has(m, "role", id) <=> Has(d, "role", id)
              /\ Has(m, "menu", id) <=> Has(d, "menu", id)
  BY ReadyStores, TableNames, SameHas
<1>2. /\ l \in Seq(Ids) /\ Range(l) = {y \in Range(L) : Has(m, "menu", y)}
      /\ Range(l) = DbKnown(d, "menu", L)
  BY <1>1, KnownIs DEF DbKnown
<1>3. MemUpdateRoleMenus(m, r, L) =
        IF Has(m, "role", r) THEN Ok(SetList(m, "roleMenu", r, l))
        ELSE NotFound(m)
  BY DEF MemUpdateRoleMenus, SetList, MemHas
<1> HIDE DEF l
<1>4. {r} \X DbKnown(d, "menu", L) = {<<r, y>> : y \in Range(l)}
  BY <1>2
<1>5. DbUpdateRoleMenus(d, r, L) =
        IF Has(d, "role", r) THEN Ok(SetPairs(d, "roleMenu", r, l))
        ELSE NotFound(d)
  BY <1>4 DEF DbUpdateRoleMenus, SetPairs
<1>6. CASE Has(m, "role", r)
  <2>1. Ready(SetList(m, "roleMenu", r, l), SetPairs(d, "roleMenu", r, l))
    BY <1>2, <1>6, LinkEnds, SetLink
  <2> QED BY <1>1, <1>3, <1>5, <1>6, <2>1, SameAgree
<1>7. CASE ~Has(m, "role", r)
  BY <1>1, <1>3, <1>5, <1>7, SameAgree
<1> QED BY <1>6, <1>7

\* Scopes of a role.
LEMMA ScopeLinks ==
  ASSUME NEW m, NEW d, Ready(m, d), NEW r \in Ids, NEW L \in Seq(Ids)
  PROVE  Agree(MemUpdateRoleScopes(m, r, L), DbUpdateRoleScopes(d, r, L), FALSE)
<1> DEFINE l == MemKnown(m, "scope", L)
<1>1. \A id : /\ Has(m, "role", id) <=> Has(d, "role", id)
              /\ Has(m, "scope", id) <=> Has(d, "scope", id)
  BY ReadyStores, TableNames, SameHas
<1>2. /\ l \in Seq(Ids) /\ Range(l) = {y \in Range(L) : Has(m, "scope", y)}
      /\ Range(l) = DbKnown(d, "scope", L)
  BY <1>1, KnownIs DEF DbKnown
<1>3. MemUpdateRoleScopes(m, r, L) =
        IF Has(m, "role", r) THEN Ok(SetList(m, "roleScope", r, l))
        ELSE NotFound(m)
  BY DEF MemUpdateRoleScopes, SetList, MemHas
<1> HIDE DEF l
<1>4. {r} \X DbKnown(d, "scope", L) = {<<r, y>> : y \in Range(l)}
  BY <1>2
<1>5. DbUpdateRoleScopes(d, r, L) =
        IF Has(d, "role", r) THEN Ok(SetPairs(d, "roleScope", r, l))
        ELSE NotFound(d)
  BY <1>4 DEF DbUpdateRoleScopes, SetPairs
<1>6. CASE Has(m, "role", r)
  <2>1. Ready(SetList(m, "roleScope", r, l), SetPairs(d, "roleScope", r, l))
    BY <1>2, <1>6, LinkEnds, SetLink
  <2> QED BY <1>1, <1>3, <1>5, <1>6, <2>1, SameAgree
<1>7. CASE ~Has(m, "role", r)
  BY <1>1, <1>3, <1>5, <1>7, SameAgree
<1> QED BY <1>6, <1>7

\* Rules of a scope, all of which must be there.
LEMMA RuleLinks ==
  ASSUME NEW m, NEW d, Ready(m, d), NEW id \in Ids, NEW L \in Seq(Ids)
  PROVE  Agree(MemUpdateDataScopeRules(m, id, L),
               DbUpdateDataScopeRules(d, id, L), Repeats(L))
<1>0. d \in Stores /\ DbFits(d) /\ Counts(d)
  BY ReadyStores DEF DbFits
<1>1. \A i : /\ Has(m, "scope", i) <=> Has(d, "scope", i)
             /\ Has(m, "rule", i) <=> Has(d, "rule", i)
  BY ReadyStores, TableNames, SameHas
<1>2. DbEnsure(d, "rule", L) <=> \A y \in Range(L) : Has(m, "rule", y)
  BY <1>0, <1>1, EnsureIs
<1> DEFINE found == Has(m, "scope", id) /\ \A y \in Range(L) : Has(m, "rule", y)
<1>3. MemUpdateDataScopeRules(m, id, L) =
        IF found THEN Ok(SetList(m, "scopeRule", id, L)) ELSE NotFound(m)
  BY DEF MemUpdateDataScopeRules, SetList, MemHas
<1>4. DbUpdateDataScopeRules(d, id, L) =
        IF found THEN Tx(d, DbReplaceLinks(d, "scopeRule", id, L))
        ELSE NotFound(d)
  BY <1>1, <1>2 DEF DbUpdateDataScopeRules
<1>5. CASE found
  BY <1>0, <1>3, <1>4, <1>5, LinkEnds, ReplaceAgree
<1>6. CASE ~found
  BY <1>3, <1>4, <1>6, SameAgree
<1> QED BY <1>5, <1>6

\* A new user, with roles.
LEMMA UserCreates ==
  ASSUME NEW m, NEW d, Ready(m, d), m.next["user"] <= MaxId, NEW v \in Val,
         NEW dept \in 0 .. MaxId, NEW L \in Seq(Ids)
  PROVE  Agree(MemCreateUser(m, v, dept, L), DbCreateUser(d, v, dept, L),
               Repeats(L))
<1> DEFINE x == m.next["user"]
           r == NewRow(v, dept, TRUE)
           a == Add(m, "user", r)
           e == Add(d, "user", r)
           found == Has(m, "dept", dept) /\ \A y \in Range(L) : Has(m, "role", y)
<1>0. /\ d \in Stores /\ m \in Stores /\ DbFits(d) /\ Counts(d)
      /\ "user" \in Table /\ "user" \in Plain \cup {"dept"} /\ "role" \in Table
  BY ReadyStores, TableNames DEF DbFits, Plain
<1>1. \A i : /\ Has(m, "dept", i) <=> Has(d, "dept", i)
             /\ Has(m, "role", i) <=> Has(d, "role", i)
  BY ReadyStores, TableNames, SameHas
<1>2. DbEnsure(d, "role", L) <=> \A y \in Range(L) : Has(m, "role", y)
  BY <1>0, <1>1, EnsureIs
<1>3. r \in New
  BY NewRows
<1> HIDE DEF r
<1>4. Ready(a, e) /\ d.next["user"] = x
  BY <1>0, <1>3, AddReady
<1>5. x \in Ids
  BY <1>0, StoreFields, NextIds
<1>6. Has(a, "user", x) /\ \A y : Has(m, "role", y) => Has(a, "role", y)
  BY <1>0, <1>3, AddHas
<1>7. MemCreateUser(m, v, dept, L) =
        IF found THEN Ok(SetList(a, "userRole", x, L)) ELSE NotFound(m)
  BY DEF MemCreateUser, SetList, MemHas, r
<1>8. DbCreateUser(d, v, dept, L) =
        IF found THEN Tx(d, DbReplaceLinks(e, "userRole", x, L))
        ELSE NotFound(d)
  BY <1>1, <1>2, <1>4 DEF DbCreateUser, r
<1> HIDE DEF a, e, x
<1>9. CASE found
  <2>1. \A y \in Range(L) : Has(a, "role", y)
    BY <1>6, <1>9
  <2> QED BY <1>0, <1>4, <1>5, <1>6, <1>7, <1>8, <1>9, <2>1, LinkEnds,
             ReplaceAgree
<1>10. CASE ~found
  BY <1>7, <1>8, <1>10, SameAgree
<1> QED BY <1>9, <1>10

\* An update of a user, with roles.
LEMMA AccountUpdates ==
  ASSUME NEW m, NEW d, Ready(m, d), NEW id \in Ids, NEW v \in Val,
         NEW dept \in 0 .. MaxId, NEW L \in Seq(Ids)
  PROVE  Agree(MemUpdateUser(m, id, v, dept, L),
               DbUpdateUser(d, id, v, dept, L), Repeats(L))
<1> DEFINE g == Rewrite(v, dept)
           a == Edit(m, "user", Find(m, "user", {id}), g)
           e == Edit(d, "user", Find(d, "user", {id}), g)
           found == /\ dept # 0 => Has(m, "dept", dept)
                    /\ \A y \in Range(L) : Has(m, "role", y)
                    /\ Has(m, "user", id)
<1>0. /\ d \in Stores /\ m \in Stores /\ DbFits(d) /\ Counts(d)
      /\ "user" \in Table /\ "user" \in Table \ {"scene", "storage"}
      /\ "role" \in Table
  BY ReadyStores, TableNames DEF DbFits
<1>1. \A i : /\ Has(m, "dept", i) <=> Has(d, "dept", i)
             /\ Has(m, "role", i) <=> Has(d, "role", i)
             /\ Has(m, "user", i) <=> Has(d, "user", i)
  BY ReadyStores, TableNames, SameHas
<1>2. DbEnsure(d, "role", L) <=> \A y \in Range(L) : Has(m, "role", y)
  BY <1>0, <1>1, EnsureIs
<1>3. Keeps(g)
  BY UpdatesKeep DEF Refs
<1>4. Ready(a, e)
  BY <1>0, <1>3, EditReady
<1>5. \A J \in Table : \A i : Has(a, J, i) <=> Has(m, J, i)
  BY <1>0, <1>3, EditHas
<1>6. MemUpdateUser(m, id, v, dept, L) =
        IF found THEN Ok(SetList(a, "userRole", id, L)) ELSE NotFound(m)
  <2>1. m.tab["user"] \in SUBSET Row
    BY <1>0, StoreFields
  <2>2. {IF r \in Find(m, "user", {id}) THEN [r EXCEPT !.val = v, !.ref = dept] ELSE r :
           r \in m.tab["user"]}
          = Edited(m.tab["user"], Find(m, "user", {id}), g)
    BY <2>1 DEF Edited, Rewrite
  <2>3. Change(m, "user", Find(m, "user", {id}),
               LAMBDA u : [u EXCEPT !.val = v, !.ref = dept]) = a
    BY <1>0, <2>2, PlaceRows DEF Change, Edit
  <2> HIDE DEF a
  <2> QED BY <2>3 DEF MemUpdateUser, MemHas, SetList
<1>7. DbUpdateUser(d, id, v, dept, L) =
        IF found THEN Tx(d, DbReplaceLinks(e, "userRole", id, L))
        ELSE NotFound(d)
  <2>1. d.tab["user"] \in SUBSET Row
    BY <1>0, StoreFields
  <2>2. {IF r \in Find(d, "user", {id}) THEN [r EXCEPT !.val = v, !.ref = dept] ELSE r :
           r \in d.tab["user"]}
          = Edited(d.tab["user"], Find(d, "user", {id}), g)
    BY <2>1 DEF Edited, Rewrite
  <2>3. Change(d, "user", Find(d, "user", {id}),
               LAMBDA u : [u EXCEPT !.val = v, !.ref = dept]) = e
    BY <1>0, <2>2, PlaceRows DEF Change, Edit
  <2> HIDE DEF e
  <2> QED BY <1>1, <1>2, <2>3 DEF DbUpdateUser
<1> HIDE DEF a, e, g
<1>8. CASE found
  <2>1. Has(a, "user", id) /\ \A y \in Range(L) : Has(a, "role", y)
    BY <1>0, <1>5, <1>8
  <2> QED BY <1>0, <1>4, <1>6, <1>7, <1>8, <2>1, LinkEnds, ReplaceAgree
<1>9. CASE ~found
  BY <1>6, <1>7, <1>9, SameAgree
<1> QED BY <1>8, <1>9

-----------------------------------------------------------------------------
(* Rows are taken away, with what links there are to them.                 *)

\* What is left there of what was.
Left(s, e, K, S) ==
  \A J \in Table, id \in Ids :
    Has(e, J, id) <=> Has(s, J, id) /\ ~(J = K /\ id \in S)

\* What is left of the lists, and of the pairs: those of the rules stay in
\* memory.
ListsLeft(m, a, K, S) ==
  \A L \in LinkTable, x \in Ids :
    Range(a.link[L][x]) =
      IF From[L] = K /\ x \in S THEN {}
      ELSE IF To[L] = K /\ L # "scopeRule" THEN Range(m.link[L][x]) \ S
      ELSE Range(m.link[L][x])
PairsLeft(d, b, K, S) ==
  \A L \in LinkTable :
    b.link[L] = {l \in d.link[L] : /\ ~(From[L] = K /\ l[1] \in S)
                                   /\ ~(To[L] = K /\ l[2] \in S)}

\* The memory stays in order when a row goes with its links.
LEMMA CutMem ==
  ASSUME NEW m, MemFits(m), NEW K, NEW S, NEW a \in MemStore, Counts(a),
         a.next["rule"] = m.next["rule"], Left(m, a, K, S),
         ListsLeft(m, a, K, S)
  PROVE  MemFits(a)
<1>1. SUFFICES ASSUME NEW L \in LinkTable, NEW x \in Ids,
                      NEW y \in Range(a.link[L][x])
      PROVE  /\ Has(a, From[L], x)
             /\ Has(a, To[L], y) \/ (L = "scopeRule" /\ y < a.next["rule"])
  BY DEF MemFits, MemLive
<1>2. /\ y \in Range(m.link[L][x]) /\ ~(From[L] = K /\ x \in S)
      /\ To[L] = K /\ L # "scopeRule" => y \notin S
  BY <1>1 DEF ListsLeft
<1>3. y \in Ids
  BY <1>1 DEF MemStore, Range
<1>4. /\ Has(m, From[L], x)
      /\ Has(m, To[L], y) \/ (L = "scopeRule" /\ y < m.next["rule"])
  BY <1>2 DEF MemFits, MemLive
<1>5. Has(a, From[L], x)
  BY <1>2, <1>4, LinkEnds DEF Left
<1>6. Has(a, To[L], y) \/ (L = "scopeRule" /\ y < a.next["rule"])
  <2>1. CASE L # "scopeRule"
    BY <1>2, <1>3, <1>4, <2>1, LinkEnds DEF Left
  <2>2. CASE L = "scopeRule"
    <3>1. Has(m, "rule", y) => y < m.next["rule"]
      BY HasIs DEF MemFits, Counts
    <3> QED BY <1>4, <2>2, <3>1, LinkEnds
  <2> QED BY <2>1, <2>2
<1> QED BY <1>5, <1>6

\* As does the database.
LEMMA CutDb ==
  ASSUME NEW d, DbFits(d), NEW K, NEW S, NEW b \in DbStore, Counts(b),
         Left(d, b, K, S), PairsLeft(d, b, K, S)
  PROVE  DbFits(b)
<1>1. SUFFICES ASSUME NEW L \in LinkTable, NEW l \in b.link[L]
      PROVE  Has(b, From[L], l[1]) /\ Has(b, To[L], l[2])
  BY DEF DbFits, DbLive
<1>2. /\ l \in d.link[L] /\ ~(From[L] = K /\ l[1] \in S)
      /\ ~(To[L] = K /\ l[2] \in S)
  BY <1>1 DEF PairsLeft
<1>3. l[1] \in Ids /\ l[2] \in Ids
  BY <1>1 DEF DbStore
<1>4. Has(d, From[L], l[1]) /\ Has(d, To[L], l[2])
  BY <1>2 DEF DbFits, DbLive
<1> QED BY <1>2, <1>3, <1>4, LinkEnds DEF Left

\* And they stay alike.
LEMMA CutReady ==
  ASSUME NEW m, NEW d, Ready(m, d), NEW K, NEW S,
         NEW a \in MemStore, NEW b \in DbStore, Counts(a), Counts(b),
         a.next["rule"] = m.next["rule"], AlikeRows(a, b),
         Left(m, a, K, S), Left(d, b, K, S),
         ListsLeft(m, a, K, S), PairsLeft(d, b, K, S)
  PROVE  Ready(a, b)
<1>1. MemFits(m) /\ DbFits(d) /\ AlikeLinks(m, d) /\ m \in MemStore
  BY ReadyStores
<1>2. MemFits(a) /\ DbFits(b)
  BY <1>1, CutMem, CutDb
<1>3. ASSUME NEW L \in LinkTable, NEW x \in Ids
      PROVE  Names(a, L, x) = Linked(b, L, x)
  <2>1. Range(a.link[L][x]) \subseteq Ids /\ To[L] \in Table
    BY LinkEnds DEF MemStore, Range
  <2>2. Names(m, L, x) = Linked(d, L, x)
    BY <1>1 DEF AlikeLinks
  <2>3. Names(a, L, x) = {y \in Names(m, L, x) :
          ~(From[L] = K /\ x \in S) /\ ~(To[L] = K /\ y \in S)}
    <3>1. \A y \in Range(m.link[L][x]) : y \in Ids
      BY <1>1 DEF MemStore, Range
    <3>2. \A y \in Ids : Has(a, To[L], y) <=>
                           Has(m, To[L], y) /\ ~(To[L] = K /\ y \in S)
      BY <2>1 DEF Left
    <3> QED BY <2>1, <3>1, <3>2 DEF Names, ListsLeft
  <2>4. Linked(b, L, x) = {y \in Linked(d, L, x) :
          ~(From[L] = K /\ x \in S) /\ ~(To[L] = K /\ y \in S)}
    BY DEF Linked, PairsLeft
  <2> QED BY <2>2, <2>3, <2>4
<1> QED BY <1>2, <1>3 DEF Ready, Fits, Alike, AlikeLinks

\* Rows that are found and taken away.
LEMMA WithoutLeft ==
  ASSUME NEW s \in Stores, NEW K \in Table, NEW S, Counts(s)
  PROVE  LET w == Without(s, K, Find(s, K, S))
         IN  /\ Left(s, w, K, S) /\ Counts(w)
             /\ w.next = s.next /\ w.link = s.link
             /\ s \in MemStore => w \in MemStore
             /\ s \in DbStore => w \in DbStore
<1> DEFINE w == Without(s, K, Find(s, K, S))
<1>1. /\ w.tab[K] = s.tab[K] \ Find(s, K, S)
      /\ \A J \in Table \ {K} : w.tab[J] = s.tab[J]
      /\ w.next = s.next /\ w.link = s.link
  BY DEF Without, Stores, MemStore, DbStore
<1>2. (s \in MemStore => w \in MemStore) /\ (s \in DbStore => w \in DbStore)
  BY DEF Without, MemStore, DbStore
<1> HIDE DEF w
<1>3. Left(s, w, K, S)
  <2> SUFFICES ASSUME NEW J \in Table, NEW id \in Ids
               PROVE  Has(w, J, id) <=> Has(s, J, id) /\ ~(J = K /\ id \in S)
    BY DEF Left
  <2>1. CASE J = K
    BY <1>1, <2>1 DEF Has, Find
  <2>2. CASE J # K
    BY <1>1, <2>2 DEF Has, Find
  <2> QED BY <2>1, <2>2
<1>4. Counts(w)
  <2>1. \A J \in Table : w.tab[J] \subseteq s.tab[J]
    BY <1>1
  <2> QED BY <1>1, <2>1, TableNames DEF Counts
<1> QED BY <1>1, <1>2, <1>3, <1>4 DEF w

\* The same rows taken away from both.
LEMMA WithoutAlike ==
  ASSUME NEW m, NEW d, Ready(m, d), NEW K \in Plain, NEW S
  PROVE  /\ AlikeRows(Without(m, K, Find(m, K, S)), Without(d, K, Find(d, K, S)))
         /\ Find(m, K, S) = Find(d, K, S)
<1>1. /\ m \in Stores /\ d \in Stores /\ AlikeRows(m, d) /\ Alike(m, d)
      /\ K \in Table /\ K \in Table \ {"scene", "storage"}
  BY ReadyStores DEF Plain
<1>2. Find(m, K, S) = Find(d, K, S)
  BY <1>1, SameFind
<1> DEFINE T == m.tab[K] \ Find(m, K, S)
<1>3. m.tab[K] = d.tab[K] /\ m.next[K] = d.next[K]
  BY <1>1 DEF AlikeRows
<1>4. SameRows(K, T, T, m.next[K], d.next[K])
  BY <1>3 DEF SameRows, Plain
<1> HIDE DEF T
<1>5. AlikeRows(Place(m, K, T, m.next[K]), Place(d, K, T, d.next[K]))
  BY <1>1, <1>4, PlaceAlikeRows
<1> QED BY <1>1, <1>2, <1>3, <1>5, WithoutIs DEF T

-----------------------------------------------------------------------------
(* Deletions with links.                                                   *)

\* The memory takes ids from the lists of a table,
LEMMA UnlinkIs ==
  ASSUME NEW m \in MemStore, NEW L \in LinkTable, NEW S
  PROVE  LET a == MemUnlink(m, L, S)
         IN  /\ a \in MemStore /\ a.tab = m.tab /\ a.next = m.next
             /\ a.changed = m.changed
             /\ \A x \in Ids : Range(a.link[L][x]) = Range(m.link[L][x]) \ S
             /\ \A J \in LinkTable \ {L} : a.link[J] = m.link[J]
<1> DEFINE k(x) == Kept(m.link[L][x], {i \in DOMAIN m.link[L][x] :
                                         m.link[L][x][i] \notin S})
           f == [x \in Ids |-> k(x)]
           a == [m EXCEPT !.link[L] = f]
<1>1. MemUnlink(m, L, S) = a
  BY DEF MemUnlink
<1>2. \A x \in Ids : k(x) \in Seq(Ids) /\ Range(k(x)) = Range(m.link[L][x]) \ S
  <2> TAKE x \in Ids
  <2>1. m.link[L][x] \in Seq(Ids)
    BY DEF MemStore
  <2> QED BY <2>1, UnlinkedIs
<1> HIDE DEF k
<1>3. f \in [Ids -> Seq(Ids)] /\ \A x \in Ids : f[x] = k(x)
  BY <1>2
<1> HIDE DEF f
<1>4. /\ a \in MemStore /\ a.tab = m.tab /\ a.next = m.next
      /\ a.changed = m.changed /\ a.link[L] = f
      /\ \A J \in LinkTable \ {L} : a.link[J] = m.link[J]
  BY <1>3 DEF MemStore
<1> HIDE DEF a
<1> QED BY <1>1, <1>2, <1>3, <1>4

\* or forgets the lists of some.
LEMMA EmptiedIs ==
  ASSUME NEW m \in MemStore, NEW L \in LinkTable, NEW S
  PROVE  LET a == [m EXCEPT !.link[L] = Emptied(@, S)]
         IN  /\ a \in MemStore /\ a.tab = m.tab /\ a.next = m.next
             /\ a.changed = m.changed
             /\ \A x \in Ids : Range(a.link[L][x]) =
                                 IF x \in S THEN {} ELSE Range(m.link[L][x])
             /\ \A J \in LinkTable \ {L} : a.link[J] = m.link[J]
<1> DEFINE f == Emptied(m.link[L], S)
           a == [m EXCEPT !.link[L] = f]
<1>1. f \in [Ids -> Seq(Ids)]
      /\ \A x \in Ids : f[x] = IF x \in S THEN <<>> ELSE m.link[L][x]
  BY DEF Emptied, MemStore
<1> HIDE DEF f
<1>2. /\ a \in MemStore /\ a.tab = m.tab /\ a.next = m.next
      /\ a.changed = m.changed /\ a.link[L] = f
      /\ \A J \in LinkTable \ {L} : a.link[J] = m.link[J]
  BY <1>1 DEF MemStore
<1> HIDE DEF a
<1>3. Range(<<>>) = {}
  BY DEF Range
<1>4. \A x \in Ids : Range(a.link[L][x]) =
                       IF x \in S THEN {} ELSE Range(m.link[L][x])
  BY <1>1, <1>2, <1>3
<1> QED BY <1>2, <1>4 DEF a, f

\* The database deletes the pairs.
LEMMA PairsIs ==
  ASSUME NEW d \in DbStore, NEW L \in LinkTable, NEW P \in SUBSET d.link[L]
  PROVE  LET b == [d EXCEPT !.link[L] = P]
         IN  /\ b \in DbStore /\ b.tab = d.tab /\ b.next = d.next
             /\ b.changed = d.changed /\ b.link[L] = P
             /\ \A J \in LinkTable \ {L} : b.link[J] = d.link[J]
<1>1. P \in SUBSET (Ids \X Ids)
  BY DEF DbStore
<1> QED BY <1>1 DEF DbStore

\* A pair of stores with the same rows, whatever the links are.
LEMMA RowsAlike ==
  ASSUME NEW m, NEW d, AlikeRows(m, d), NEW a, NEW b,
         a.tab = m.tab, a.next = m.next, a.changed = m.changed,
         b.tab = d.tab, b.next = d.next, b.changed = d.changed
  PROVE  AlikeRows(a, b)
BY DEF AlikeRows

\* What there is does not depend on the links.
LEMMA LeftCounts ==
  ASSUME NEW s, NEW w, NEW e, NEW K, NEW S, Left(s, w, K, S), Counts(w),
         e.tab = w.tab, e.next = w.next
  PROVE  Left(s, e, K, S) /\ Counts(e)
<1>1. \A J, id : Has(e, J, id) <=> Has(w, J, id)
  BY DEF Has, Find
<1> QED BY <1>1 DEF Left, Counts

\* What there is once rows of a plain table have been taken away.
LEMMA CutRows ==
  ASSUME NEW m, NEW d, Ready(m, d), NEW K \in {"role", "menu", "rule", "scope"},
         NEW S, NEW a \in MemStore, NEW b \in DbStore,
         a.tab = Without(m, K, Find(m, K, S)).tab, a.next = m.next,
         a.changed = m.changed,
         b.tab = Without(d, K, Find(d, K, S)).tab, b.next = d.next,
         b.changed = d.changed,
         ListsLeft(m, a, K, S), PairsLeft(d, b, K, S)
  PROVE  Ready(a, b)
<1> DEFINE w == Without(m, K, Find(m, K, S))
           v == Without(d, K, Find(d, K, S))
<1>1. /\ K \in Plain /\ K \in Table /\ m \in Stores /\ d \in Stores
      /\ Counts(m) /\ Counts(d)
  BY ReadyStores DEF Plain, Table, MemFits, DbFits
<1>2. Left(m, w, K, S) /\ Counts(w) /\ w.next = m.next
  BY <1>1, WithoutLeft
<1>3. Left(d, v, K, S) /\ Counts(v) /\ v.next = d.next
  BY <1>1, WithoutLeft
<1>4. AlikeRows(w, v)
  BY <1>1, WithoutAlike
<1>5. w.changed = m.changed /\ v.changed = d.changed
  BY <1>1 DEF Without, Stores, MemStore, DbStore
<1>6. a.tab = w.tab /\ b.tab = v.tab
  OBVIOUS
<1> HIDE DEF w, v
<1>7. AlikeRows(a, b)
  BY <1>2, <1>3, <1>4, <1>5, <1>6, RowsAlike
<1>8. Left(m, a, K, S) /\ Counts(a)
  BY <1>2, <1>6, LeftCounts
<1>9. Left(d, b, K, S) /\ Counts(b)
  BY <1>3, <1>6, LeftCounts
<1> QED BY <1>7, <1>8, <1>9, CutReady

\* What is left of a store without some of its rows, but with its links.
LEMMA WithoutStores ==
  ASSUME NEW m, NEW d, Ready(m, d), NEW K \in {"role", "menu", "rule", "scope"},
         NEW S
  PROVE  LET w == Without(m, K, Find(m, K, S))
             v == Without(d, K, Find(d, K, S))
         IN  /\ w \in MemStore /\ w.next = m.next /\ w.changed = m.changed
             /\ w.link = m.link
             /\ v \in DbStore /\ v.next = d.next /\ v.changed = d.changed
             /\ v.link = d.link
             /\ Find(m, K, S) = {} <=> Find(d, K, S) = {}
             /\ d.link \in [LinkTable -> SUBSET (Ids \X Ids)]
<1>1. /\ K \in Plain /\ K \in Table /\ m \in Stores /\ d \in Stores
      /\ m \in MemStore /\ d \in DbStore
  BY ReadyStores DEF Plain, Table
<1>2. Find(m, K, S) = Find(d, K, S)
  BY <1>1, WithoutAlike
<1> QED BY <1>1, <1>2 DEF Without, MemStore, DbStore

\* Roles go with the links from them and to them.
LEMMA RoleDeletes ==
  ASSUME NEW m, NEW d, Ready(m, d), NEW S \in SUBSET Ids
  PROVE  Agree(MemDeleteRoles(m, S), DbDeleteRoles(d, S), S = {})
<1> DEFINE w == Without(m, "role", Find(m, "role", S))
           a1 == MemUnlink(w, "userRole", S)
           a2 == [a1 EXCEPT !.link["roleMenu"] = Emptied(@, S)]
           a == [a2 EXCEPT !.link["roleScope"] = Emptied(@, S)]
           v == Without(d, "role", Find(d, "role", S))
           P1 == {l \in v.link["roleMenu"] : l[1] \notin S}
           b1 == [v EXCEPT !.link["roleMenu"] = P1]
           P2 == {l \in b1.link["roleScope"] : l[1] \notin S}
           b2 == [b1 EXCEPT !.link["roleScope"] = P2]
           P3 == {l \in b2.link["userRole"] : l[2] \notin S}
           b == [b2 EXCEPT !.link["userRole"] = P3]
<1>1. /\ w \in MemStore /\ w.next = m.next /\ w.changed = m.changed
      /\ w.link = m.link
      /\ v \in DbStore /\ v.next = d.next /\ v.changed = d.changed
      /\ v.link = d.link
      /\ Find(m, "role", S) = {} <=> Find(d, "role", S) = {}
  BY WithoutStores
<1>0. /\ "userRole" \in LinkTable /\ "roleMenu" \in LinkTable
      /\ "roleScope" \in LinkTable
  BY LinkEnds
<1>2. MemDeleteRoles(m, S) =
        IF Find(m, "role", S) = {} THEN NotFound(m) ELSE Ok(a)
  <2>1. [a1 EXCEPT !.link["roleMenu"]  = Emptied(@, S),
                   !.link["roleScope"] = Emptied(@, S)] = a
    <3> HIDE DEF a1
    <3> QED OBVIOUS
  <2> HIDE DEF a
  <2> QED BY <2>1 DEF MemDeleteRoles
<1>3. DbDeleteRoles(d, S) =
        IF S = {} THEN Ok(d)
        ELSE IF Find(d, "role", S) # {} THEN Ok(b) ELSE NotFound(d)
  <2>1. [v EXCEPT !.link["roleMenu"]  = {l \in @ : l[1] \notin S},
                  !.link["roleScope"] = {l \in @ : l[1] \notin S},
                  !.link["userRole"]  = {l \in @ : l[2] \notin S}] = b
    <3> HIDE DEF v
    <3> QED OBVIOUS
  <2> HIDE DEF b
  <2> QED BY <2>1 DEF DbDeleteRoles, RowsError
<1> HIDE DEF w, v
<1>4. /\ a1 \in MemStore /\ a1.tab = w.tab /\ a1.next = w.next
      /\ a1.changed = w.changed
      /\ \A x \in Ids : Range(a1.link["userRole"][x]) =
                          Range(w.link["userRole"][x]) \ S
      /\ \A J \in LinkTable \ {"userRole"} : a1.link[J] = w.link[J]
  BY <1>0, <1>1, UnlinkIs
<1> HIDE DEF a1
<1>5. /\ a2 \in MemStore /\ a2.tab = a1.tab /\ a2.next = a1.next
      /\ a2.changed = a1.changed
      /\ \A x \in Ids : Range(a2.link["roleMenu"][x]) =
                          IF x \in S THEN {} ELSE Range(a1.link["roleMenu"][x])
      /\ \A J \in LinkTable \ {"roleMenu"} : a2.link[J] = a1.link[J]
  BY <1>0, <1>4, EmptiedIs
<1> HIDE DEF a2
<1>6. /\ a \in MemStore /\ a.tab = a2.tab /\ a.next = a2.next
      /\ a.changed = a2.changed
      /\ \A x \in Ids : Range(a.link["roleScope"][x]) =
                          IF x \in S THEN {} ELSE Range(a2.link["roleScope"][x])
      /\ \A J \in LinkTable \ {"roleScope"} : a.link[J] = a2.link[J]
  BY <1>0, <1>5, EmptiedIs
<1>7. ListsLeft(m, a, "role", S)
  <2> HIDE DEF a
  <2> SUFFICES ASSUME NEW L \in LinkTable, NEW x \in Ids
      PROVE  Range(a.link[L][x]) =
               IF From[L] = "role" /\ x \in S THEN {}
               ELSE IF To[L] = "role" /\ L # "scopeRule"
                    THEN Range(m.link[L][x]) \ S ELSE Range(m.link[L][x])
    BY DEF ListsLeft
  <2>1. CASE L = "userRole"
    BY <1>1, <1>4, <1>5, <1>6, <2>1, LinkEnds
  <2>2. CASE L = "roleMenu"
    BY <1>1, <1>4, <1>5, <1>6, <2>2, LinkEnds
  <2>3. CASE L = "roleScope"
    BY <1>1, <1>4, <1>5, <1>6, <2>3, LinkEnds
  <2>4. CASE L = "scopeRule"
    BY <1>1, <1>4, <1>5, <1>6, <2>4, LinkEnds
  <2> QED BY <2>1, <2>2, <2>3, <2>4 DEF LinkTable
<1>8. /\ b1 \in DbStore /\ b1.tab = v.tab /\ b1.next = v.next
      /\ b1.changed = v.changed /\ b1.link["roleMenu"] = P1
      /\ \A J \in LinkTable \ {"roleMenu"} : b1.link[J] = v.link[J]
  <2>1. P1 \in SUBSET v.link["roleMenu"]
    OBVIOUS
  <2> HIDE DEF P1
  <2>2. v \in DbStore
    BY <1>1
  <2> QED BY <1>0, <2>1, <2>2, PairsIs
<1> HIDE DEF b1
<1>9. /\ b2 \in DbStore /\ b2.tab = b1.tab /\ b2.next = b1.next
      /\ b2.changed = b1.changed /\ b2.link["roleScope"] = P2
      /\ \A J \in LinkTable \ {"roleScope"} : b2.link[J] = b1.link[J]
  <2>1. P2 \in SUBSET b1.link["roleScope"]
    OBVIOUS
  <2> HIDE DEF P2
  <2>2. b1 \in DbStore
    BY <1>8
  <2> QED BY <1>0, <2>1, <2>2, PairsIs
<1> HIDE DEF b2
<1>10. /\ b \in DbStore /\ b.tab = b2.tab /\ b.next = b2.next
       /\ b.changed = b2.changed /\ b.link["userRole"] = P3
       /\ \A J \in LinkTable \ {"userRole"} : b.link[J] = b2.link[J]
  <2>1. P3 \in SUBSET b2.link["userRole"]
    OBVIOUS
  <2> HIDE DEF P3
  <2>2. b2 \in DbStore
    BY <1>9
  <2> QED BY <1>0, <2>1, <2>2, PairsIs
<1>11. PairsLeft(d, b, "role", S)
  <2> HIDE DEF b
  <2> SUFFICES ASSUME NEW L \in LinkTable
      PROVE  b.link[L] = {l \in d.link[L] : /\ ~(From[L] = "role" /\ l[1] \in S)
                                            /\ ~(To[L] = "role" /\ l[2] \in S)}
    BY DEF PairsLeft
  <2>1. CASE L = "userRole"
    BY <1>1, <1>8, <1>9, <1>10, <2>1, LinkEnds
  <2>2. CASE L = "roleMenu"
    BY <1>1, <1>8, <1>9, <1>10, <2>2, LinkEnds
  <2>3. CASE L = "roleScope"
    BY <1>1, <1>8, <1>9, <1>10, <2>3, LinkEnds
  <2>4. CASE L = "scopeRule"
    BY <1>1, <1>8, <1>9, <1>10, <2>4, LinkEnds
  <2> QED BY <2>1, <2>2, <2>3, <2>4 DEF LinkTable
<1> HIDE DEF a, b
<1>12. Ready(a, b)
  BY <1>1, <1>4, <1>5, <1>6, <1>7, <1>8, <1>9, <1>10, <1>11, CutRows DEF w, v
<1>13. Find(m, "role", {}) = {}
  BY DEF Find
<1>14. CASE S = {}
  <2>1. MemDeleteRoles(m, S) = NotFound(m) /\ DbDeleteRoles(d, S) = Ok(d)
    BY <1>2, <1>3, <1>13, <1>14
  <2>2. Agree(NotFound(m), Ok(d), TRUE)
    BY SameAgree, RefuseAgree
  <2> QED BY <1>14, <2>1, <2>2
<1>15. CASE S # {}
  BY <1>1, <1>2, <1>3, <1>12, <1>15, SameAgree
<1> QED BY <1>14, <1>15

\* A menu goes with the links to it.
LEMMA MenuDeletes ==
  ASSUME NEW m, NEW d, Ready(m, d), NEW id \in Ids
  PROVE  Agree(MemDeleteMenu(m, id), DbDeleteMenu(d, id), FALSE)
<1> DEFINE S == {id}
           w == Without(m, "menu", Find(m, "menu", S))
           a == MemUnlink(w, "roleMenu", S)
           v == Without(d, "menu", Find(d, "menu", S))
           P == {l \in v.link["roleMenu"] : l[2] # id}
           b == [v EXCEPT !.link["roleMenu"] = P]
<1>0. "roleMenu" \in LinkTable
  BY LinkEnds
<1>1. /\ w \in MemStore /\ w.next = m.next /\ w.changed = m.changed
      /\ w.link = m.link
      /\ v \in DbStore /\ v.next = d.next /\ v.changed = d.changed
      /\ v.link = d.link
      /\ Find(m, "menu", S) = {} <=> Find(d, "menu", S) = {}
  <2> HIDE DEF S
  <2> QED BY WithoutStores
<1>2. MemDeleteMenu(m, id) =
        IF Find(m, "menu", S) = {} THEN NotFound(m) ELSE Ok(a)
  BY DEF MemDeleteMenu, MemHas, Has
<1>3. DbDeleteMenu(d, id) =
        IF Find(d, "menu", S) # {} THEN Ok(b) ELSE NotFound(d)
  BY DEF DbDeleteMenu, RowsError, Has
<1> HIDE DEF w, v
<1>4. /\ a \in MemStore /\ a.tab = w.tab /\ a.next = w.next
      /\ a.changed = w.changed
      /\ \A x \in Ids : Range(a.link["roleMenu"][x]) =
                          Range(w.link["roleMenu"][x]) \ S
      /\ \A J \in LinkTable \ {"roleMenu"} : a.link[J] = w.link[J]
  <2> HIDE DEF S
  <2> QED BY <1>0, <1>1, UnlinkIs
<1>5. /\ b \in DbStore /\ b.tab = v.tab /\ b.next = v.next
      /\ b.changed = v.changed /\ b.link["roleMenu"] = P
      /\ \A J \in LinkTable \ {"roleMenu"} : b.link[J] = v.link[J]
  <2>1. P \in SUBSET v.link["roleMenu"]
    OBVIOUS
  <2> HIDE DEF P
  <2>2. v \in DbStore
    BY <1>1
  <2> QED BY <1>0, <2>1, <2>2, PairsIs
<1> HIDE DEF a, b
<1>6. ListsLeft(m, a, "menu", S)
  <2> SUFFICES ASSUME NEW L \in LinkTable, NEW x \in Ids
      PROVE  Range(a.link[L][x]) =
               IF From[L] = "menu" /\ x \in S THEN {}
               ELSE IF To[L] = "menu" /\ L # "scopeRule"
                    THEN Range(m.link[L][x]) \ S ELSE Range(m.link[L][x])
    BY DEF ListsLeft
  <2>1. CASE L = "roleMenu"
    BY <1>1, <1>4, <2>1, LinkEnds
  <2>2. CASE L # "roleMenu"
    <3>1. a.link[L] = m.link[L]
      BY <1>1, <1>4, <2>2
    <3> QED BY <2>2, <3>1, LinkEnds DEF LinkTable
  <2> QED BY <2>1, <2>2
<1>7. PairsLeft(d, b, "menu", S)
  <2> SUFFICES ASSUME NEW L \in LinkTable
      PROVE  b.link[L] = {l \in d.link[L] : /\ ~(From[L] = "menu" /\ l[1] \in S)
                                            /\ ~(To[L] = "menu" /\ l[2] \in S)}
    BY DEF PairsLeft
  <2>1. CASE L = "roleMenu"
    BY <1>1, <1>5, <2>1, LinkEnds
  <2>2. CASE L # "roleMenu"
    <3>1. b.link[L] = d.link[L]
      BY <1>1, <1>5, <2>2
    <3> QED BY <2>2, <3>1, LinkEnds DEF LinkTable
  <2> QED BY <2>1, <2>2
<1>8. Ready(a, b)
  BY <1>1, <1>4, <1>5, <1>6, <1>7, CutRows DEF w, v
<1> QED BY <1>1, <1>2, <1>3, <1>8, SameAgree

\* Rules go; the memory leaves them in the lists of the scopes.
LEMMA RuleDeletes ==
  ASSUME NEW m, NEW d, Ready(m, d), NEW S \in SUBSET Ids
  PROVE  Agree(MemDeleteDataRules(m, S), DbDeleteDataRules(d, S), S = {})
<1> DEFINE a == Without(m, "rule", Find(m, "rule", S))
           v == Without(d, "rule", Find(d, "rule", S))
           P == {l \in v.link["scopeRule"] : l[2] \notin S}
           b == [v EXCEPT !.link["scopeRule"] = P]
<1>0. "scopeRule" \in LinkTable
  BY LinkEnds
<1>1. /\ a \in MemStore /\ a.next = m.next /\ a.changed = m.changed
      /\ a.link = m.link
      /\ v \in DbStore /\ v.next = d.next /\ v.changed = d.changed
      /\ v.link = d.link
      /\ Find(m, "rule", S) = {} <=> Find(d, "rule", S) = {}
  BY WithoutStores
<1>2. MemDeleteDataRules(m, S) =
        IF Find(m, "rule", S) = {} THEN NotFound(m) ELSE Ok(a)
  BY DEF MemDeleteDataRules
<1>3. DbDeleteDataRules(d, S) =
        IF S = {} THEN Ok(d)
        ELSE IF Find(d, "rule", S) # {} THEN Ok(b) ELSE NotFound(d)
  BY DEF DbDeleteDataRules, RowsError
<1> HIDE DEF a, v
<1>4. /\ b \in DbStore /\ b.tab = v.tab /\ b.next = v.next
      /\ b.changed = v.changed /\ b.link["scopeRule"] = P
      /\ \A J \in LinkTable \ {"scopeRule"} : b.link[J] = v.link[J]
  <2>1. P \in SUBSET v.link["scopeRule"]
    OBVIOUS
  <2> HIDE DEF P
  <2> QED BY <1>0, <1>1, <2>1, PairsIs
<1> HIDE DEF b
<1>5. \A L \in LinkTable : /\ From[L] # "rule"
                           /\ To[L] = "rule" <=> L = "scopeRule"
  BY DEF LinkTable, From, To
<1>6. ListsLeft(m, a, "rule", S)
  BY <1>1, <1>5 DEF ListsLeft
<1>7. PairsLeft(d, b, "rule", S)
  <2> SUFFICES ASSUME NEW L \in LinkTable
      PROVE  b.link[L] = {l \in d.link[L] : /\ ~(From[L] = "rule" /\ l[1] \in S)
                                            /\ ~(To[L] = "rule" /\ l[2] \in S)}
    BY DEF PairsLeft
  <2>1. CASE L = "scopeRule"
    BY <1>1, <1>4, <1>5, <2>1
  <2>2. CASE L # "scopeRule"
    <3>1. b.link[L] = d.link[L]
      BY <1>1, <1>4, <2>2
    <3> QED BY <1>5, <2>2, <3>1
  <2> QED BY <2>1, <2>2
<1>8. Ready(a, b)
  BY <1>1, <1>4, <1>6, <1>7, CutRows DEF a, v
<1>9. Find(m, "rule", {}) = {}
  BY DEF Find
<1>10. CASE S = {}
  <2>1. /\ MemDeleteDataRules(m, S) = NotFound(m)
        /\ DbDeleteDataRules(d, S) = Ok(d)
    BY <1>2, <1>3, <1>9, <1>10
  <2>2. Agree(NotFound(m), Ok(d), TRUE)
    BY SameAgree, RefuseAgree
  <2> QED BY <1>10, <2>1, <2>2
<1>11. CASE S # {}
  BY <1>1, <1>2, <1>3, <1>8, <1>11, SameAgree
<1> QED BY <1>10, <1>11

\* Scopes go with the links from them and to them.
LEMMA ScopeDeletes ==
  ASSUME NEW m, NEW d, Ready(m, d), NEW S \in SUBSET Ids
  PROVE  Agree(MemDeleteDataScopes(m, S), DbDeleteDataScopes(d, S), S = {})
<1> DEFINE w == Without(m, "scope", Find(m, "scope", S))
           a1 == MemUnlink(w, "roleScope", S)
           a == [a1 EXCEPT !.link["scopeRule"] = Emptied(@, S)]
           v == Without(d, "scope", Find(d, "scope", S))
           P1 == {l \in v.link["scopeRule"] : l[1] \notin S}
           b1 == [v EXCEPT !.link["scopeRule"] = P1]
           P2 == {l \in b1.link["roleScope"] : l[2] \notin S}
           b == [b1 EXCEPT !.link["roleScope"] = P2]
<1>0. "roleScope" \in LinkTable /\ "scopeRule" \in LinkTable
  BY LinkEnds
<1>1. /\ w \in MemStore /\ w.next = m.next /\ w.changed = m.changed
      /\ w.link = m.link
      /\ v \in DbStore /\ v.next = d.next /\ v.changed = d.changed
      /\ v.link = d.link
      /\ Find(m, "scope", S) = {} <=> Find(d, "scope", S) = {}
  BY WithoutStores
<1>2. MemDeleteDataScopes(m, S) =
        IF Find(m, "scope", S) = {} THEN NotFound(m) ELSE Ok(a)
  BY DEF MemDeleteDataScopes
<1>3. DbDeleteDataScopes(d, S) =
        IF S = {} THEN Ok(d)
        ELSE IF Find(d, "scope", S) # {} THEN Ok(b) ELSE NotFound(d)
  <2>1. [v EXCEPT !.link["scopeRule"] = {l \in @ : l[1] \notin S},
                  !.link["roleScope"] = {l \in @ : l[2] \notin S}] = b
    <3> HIDE DEF v
    <3> QED OBVIOUS
  <2> HIDE DEF b
  <2> QED BY <2>1 DEF DbDeleteDataScopes, RowsError
<1> HIDE DEF w, v
<1>4. /\ a1 \in MemStore /\ a1.tab = w.tab /\ a1.next = w.next
      /\ a1.changed = w.changed
      /\ \A x \in Ids : Range(a1.link["roleScope"][x]) =
                          Range(w.link["roleScope"][x]) \ S
      /\ \A J \in LinkTable \ {"roleScope"} : a1.link[J] = w.link[J]
  BY <1>0, <1>1, UnlinkIs
<1> HIDE DEF a1
<1>5. /\ a \in MemStore /\ a.tab = a1.tab /\ a.next = a1.next
      /\ a.changed = a1.changed
      /\ \A x \in Ids : Range(a.link["scopeRule"][x]) =
                          IF x \in S THEN {} ELSE Range(a1.link["scopeRule"][x])
      /\ \A J \in LinkTable \ {"scopeRule"} : a.link[J] = a1.link[J]
  BY <1>0, <1>4, EmptiedIs
<1>6. /\ b1 \in DbStore /\ b1.tab = v.tab /\ b1.next = v.next
      /\ b1.changed = v.changed /\ b1.link["scopeRule"] = P1
      /\ \A J \in LinkTable \ {"scopeRule"} : b1.link[J] = v.link[J]
  <2>1. P1 \in SUBSET v.link["scopeRule"]
    OBVIOUS
  <2> HIDE DEF P1
  <2> QED BY <1>0, <1>1, <2>1, PairsIs
<1> HIDE DEF b1
<1>7. /\ b \in DbStore /\ b.tab = b1.tab /\ b.next = b1.next
      /\ b.changed = b1.changed /\ b.link["roleScope"] = P2
      /\ \A J \in LinkTable \ {"roleScope"} : b.link[J] = b1.link[J]
  <2>1. P2 \in SUBSET b1.link["roleScope"]
    OBVIOUS
  <2> HIDE DEF P2
  <2> QED BY <1>0, <1>6, <2>1, PairsIs
<1> HIDE DEF a, b
<1>8. \A L \in LinkTable : /\ From[L] = "scope" <=> L = "scopeRule"
                           /\ To[L] = "scope" <=> L = "roleScope"
  BY DEF LinkTable, From, To
<1>9. ListsLeft(m, a, "scope", S)
  <2> SUFFICES ASSUME NEW L \in LinkTable, NEW x \in Ids
      PROVE  Range(a.link[L][x]) =
               IF From[L] = "scope" /\ x \in S THEN {}
               ELSE IF To[L] = "scope" /\ L # "scopeRule"
                    THEN Range(m.link[L][x]) \ S ELSE Range(m.link[L][x])
    BY DEF ListsLeft
  <2>1. CASE L = "roleScope"
    <3>1. From[L] # "scope" /\ To[L] = "scope" /\ L # "scopeRule"
      BY <1>8, <2>1
    <3>2. a.link[L] = a1.link[L] /\ w.link[L] = m.link[L]
      BY <1>1, <1>5, <3>1
    <3>3. Range(a1.link[L][x]) = Range(w.link[L][x]) \ S
      BY <1>4, <2>1
    <3> QED BY <3>1, <3>2, <3>3
  <2>2. CASE L = "scopeRule"
    BY <1>1, <1>4, <1>5, <1>8, <2>2
  <2>3. CASE L \notin {"roleScope", "scopeRule"}
    <3>1. a.link[L] = m.link[L]
      BY <1>1, <1>4, <1>5, <2>3
    <3> QED BY <1>8, <2>3, <3>1
  <2> QED BY <2>1, <2>2, <2>3
<1>10. PairsLeft(d, b, "scope", S)
  <2> SUFFICES ASSUME NEW L \in LinkTable
      PROVE  b.link[L] = {l \in d.link[L] : /\ ~(From[L] = "scope" /\ l[1] \in S)
                                            /\ ~(To[L] = "scope" /\ l[2] \in S)}
    BY DEF PairsLeft
  <2>1. CASE L = "roleScope"
    BY <1>1, <1>6, <1>7, <1>8, <2>1
  <2>2. CASE L = "scopeRule"
    BY <1>1, <1>6, <1>7, <1>8, <2>2
  <2>3. CASE L \notin {"roleScope", "scopeRule"}
    <3>1. b.link[L] = d.link[L]
      BY <1>1, <1>6, <1>7, <2>3
    <3> QED BY <1>8, <2>3, <3>1
  <2> QED BY <2>1, <2>2, <2>3
<1>11. Ready(a, b)
  BY <1>1, <1>4, <1>5, <1>6, <1>7, <1>9, <1>10, CutRows DEF w, v
<1>12. Find(m, "scope", {}) = {}
  BY DEF Find
<1>13. CASE S = {}
  <2>1. /\ MemDeleteDataScopes(m, S) = NotFound(m)
        /\ DbDeleteDataScopes(d, S) = Ok(d)
    BY <1>2, <1>3, <1>12, <1>13
  <2>2. Agree(NotFound(m), Ok(d), TRUE)
    BY SameAgree, RefuseAgree
  <2> QED BY <1>13, <2>1, <2>2
<1>14. CASE S # {}
  BY <1>1, <1>2, <1>3, <1>11, <1>14, SameAgree
<1> QED BY <1>13, <1>14

\* Users that are marked are no longer there.
LEMMA MarkLeft ==
  ASSUME NEW s \in Stores, NEW S, Counts(s)
  PROVE  LET w == Place(s, "user", Marked(s.tab["user"], Find(s, "user", S)),
                        s.next["user"])
         IN  /\ Left(s, w, "user", S) /\ Counts(w)
             /\ w.next = s.next /\ w.link = s.link /\ w.changed = s.changed
             /\ s \in MemStore => w \in MemStore
             /\ s \in DbStore => w \in DbStore
<1> DEFINE T == Marked(s.tab["user"], Find(s, "user", S))
           w == Place(s, "user", T, s.next["user"])
<1>0. /\ "user" \in Table
      /\ "role" \in Table \ {"user"}
      /\ "rule" \in Table \ {"user"}
  BY DEF Table
<1>1. s.tab["user"] \in SUBSET Row /\ s.next["user"] \in 1 .. MaxId + 1
  BY <1>0, StoreFields
<1>2. /\ T \in SUBSET Row
      /\ {x \in T : ~x.deleted}
           = {x \in s.tab["user"] : ~x.deleted} \ Find(s, "user", S)
  BY <1>1, MarkedRows
<1> HIDE DEF T
<1>3. /\ w.link = s.link /\ w.changed = s.changed
      /\ w.tab["user"] = T /\ w.next["user"] = s.next["user"]
      /\ \A J \in Table \ {"user"} : w.tab[J] = s.tab[J] /\ w.next[J] = s.next[J]
      /\ s \in MemStore => w \in MemStore
      /\ s \in DbStore => w \in DbStore
  BY <1>0, <1>1, <1>2, PlaceFields
<1>4. w.next = s.next
  BY <1>0 DEF Place, Stores, MemStore, DbStore
<1> HIDE DEF w
<1>5. Left(s, w, "user", S)
  <2> SUFFICES ASSUME NEW J \in Table, NEW id \in Ids
               PROVE  Has(w, J, id) <=> Has(s, J, id) /\ ~(J = "user" /\ id \in S)
    BY DEF Left
  <2>1. CASE J = "user"
    <3>1. Has(w, J, id) <=> \E r \in {x \in T : ~x.deleted} : r.id = id
      BY <1>3, <2>1, HasIs
    <3>2. (\E r \in {x \in T : ~x.deleted} : r.id = id)
            <=> \E r \in s.tab["user"] : r.id = id /\ ~r.deleted /\ id \notin S
      BY <1>2 DEF Find
    <3>3. Has(s, J, id) <=> \E r \in s.tab["user"] : r.id = id /\ ~r.deleted
      BY <2>1, HasIs
    <3> QED BY <2>1, <3>1, <3>2, <3>3
  <2>2. CASE J # "user"
    BY <1>3, <2>2 DEF Has, Find
  <2> QED BY <2>1, <2>2
<1>6. Counts(w)
  <2>1. w.tab["role"] = s.tab["role"] /\ w.tab["rule"] = s.tab["rule"]
    BY <1>0, <1>3
  <2> QED BY <1>4, <2>1 DEF Counts
<1> QED BY <1>3, <1>4, <1>5, <1>6 DEF T, w

\* A user is marked, and loses the roles.
LEMMA UserDeletes ==
  ASSUME NEW m, NEW d, Ready(m, d), NEW id \in Ids
  PROVE  Agree(MemDeleteUser(m, id), DbDeleteUser(d, id), FALSE)
<1> DEFINE S == {id}
           K == "user"
           F == Find(m, K, S)
           w == Place(m, K, Marked(m.tab[K], F), m.next[K])
           a == SetList(w, "userRole", id, <<>>)
           P == {l \in d.link["userRole"] : l[1] # id}
           s == [d EXCEPT !.link["userRole"] = P]
           v == Place(d, K, Marked(d.tab[K], F), d.next[K])
           b == Place(s, K, Marked(s.tab[K], F), s.next[K])
<1>0. /\ "userRole" \in LinkTable /\ K \in Table /\ K \in Plain
      /\ K \in Table \ {"scene", "storage"}
      /\ m \in MemStore /\ d \in DbStore /\ m \in Stores /\ d \in Stores
      /\ Counts(m) /\ Counts(d) /\ Alike(m, d) /\ AlikeRows(m, d)
  BY LinkEnds, TableNames, ReadyStores DEF MemFits, DbFits, Plain
<1>1. Find(d, K, S) = F /\ m.tab[K] = d.tab[K] /\ m.next[K] = d.next[K]
  BY <1>0, SameFind DEF AlikeRows
<1>2. /\ Left(m, w, K, S) /\ Counts(w)
      /\ w.next = m.next /\ w.link = m.link /\ w.changed = m.changed
      /\ w \in MemStore
  <2> HIDE DEF S
  <2> QED BY <1>0, MarkLeft
<1>3. /\ Left(d, v, K, S) /\ Counts(v)
      /\ v.next = d.next /\ v.link = d.link /\ v.changed = d.changed
      /\ v \in DbStore
  <2>1. LET x == Place(d, K, Marked(d.tab[K], Find(d, K, S)), d.next[K])
        IN  /\ Left(d, x, K, S) /\ Counts(x)
            /\ x.next = d.next /\ x.link = d.link /\ x.changed = d.changed
            /\ x \in DbStore
    <3> HIDE DEF S
    <3> QED BY <1>0, MarkLeft
  <2> HIDE DEF F
  <2> QED BY <1>1, <2>1
<1>4. AlikeRows(w, v)
  <2> DEFINE T == Marked(m.tab[K], F)
  <2>1. SameRows(K, T, T, m.next[K], d.next[K])
    BY <1>1 DEF SameRows, Plain
  <2> HIDE DEF T
  <2>2. AlikeRows(Place(m, K, T, m.next[K]), Place(d, K, T, d.next[K]))
    BY <1>0, <2>1, PlaceAlikeRows
  <2> QED BY <1>1, <2>2 DEF T
<1>5. MemDeleteUser(m, id) = IF Has(m, K, id) THEN Ok(a) ELSE NotFound(m)
  <2>1. Change(m, K, F, LAMBDA u : [u EXCEPT !.deleted = TRUE]) = w
    BY <1>0, PlaceRows DEF Change, Marked
  <2> HIDE DEF w
  <2> QED BY <2>1 DEF MemDeleteUser, MemHas, SetList
<1>6. s \in DbStore /\ s.tab = d.tab /\ s.next = d.next /\ s.changed = d.changed
      /\ s.link["userRole"] = P
      /\ \A J \in LinkTable \ {"userRole"} : s.link[J] = d.link[J]
  <2>1. P \in SUBSET d.link["userRole"]
    OBVIOUS
  <2> HIDE DEF P
  <2> QED BY <1>0, <2>1, PairsIs
<1>7. DbDeleteUser(d, id) = IF Has(d, K, id) THEN Ok(b) ELSE NotFound(d)
  <2>1. s \in Stores
    BY <1>6 DEF Stores
  <2>2. Find(s, K, S) = F
    BY <1>1, <1>6 DEF Find
  <2>3. Change(s, K, F, LAMBDA u : [u EXCEPT !.deleted = TRUE]) = b
    <3> HIDE DEF s, F
    <3> QED BY <1>0, <2>1, PlaceRows DEF Change, Marked
  <2> HIDE DEF b, F
  <2> QED BY <2>2, <2>3 DEF DbDeleteUser, RowsError
<1>8. /\ a \in MemStore /\ a.tab = w.tab /\ a.next = w.next
      /\ a.changed = w.changed
      /\ \A J \in LinkTable, i \in Ids :
           a.link[J][i] = IF J = "userRole" /\ i = id THEN <<>>
                          ELSE w.link[J][i]
  <2> DEFINE e == <<>>
             L == "userRole"
  <2>1. e \in Seq(Ids) /\ L \in LinkTable /\ w \in MemStore
    BY <1>0, <1>2
  <2> HIDE DEF w, e, L
  <2>2. LET c == SetList(w, L, id, e)
        IN  /\ c \in MemStore /\ c.tab = w.tab /\ c.next = w.next
            /\ c.changed = w.changed
            /\ \A J \in LinkTable, i \in Ids :
                 c.link[J][i] = IF J = L /\ i = id THEN e ELSE w.link[J][i]
    BY <2>1, SetListIs
  <2> QED BY <2>2 DEF e, L
<1>9. /\ b.tab = v.tab
      /\ b.next = v.next
      /\ b.link = s.link
      /\ b.changed = s.changed
      /\ b \in DbStore
  <2>1. b.tab = v.tab /\ b.next = v.next
    <3> HIDE DEF s, F
    <3> QED BY <1>0, <1>6 DEF Place, DbStore
  <2>2. Marked(s.tab[K], F) \in SUBSET Row /\ s.next[K] \in 1 .. MaxId + 1
    <3> HIDE DEF s, F
    <3> QED BY <1>0, <1>6, StoreFields, MarkedRows
  <2> HIDE DEF s, F
  <2> QED BY <1>0, <1>6, <2>1, <2>2, PlaceFields DEF Stores
<1> HIDE DEF a, b, v, w, s
<1>10. AlikeRows(a, b)
  BY <1>2, <1>3, <1>4, <1>6, <1>8, <1>9, RowsAlike
<1>11. Left(m, a, K, S) /\ Counts(a)
  <2> HIDE DEF S
  <2> QED BY <1>2, <1>8, LeftCounts
<1>12. Left(d, b, K, S) /\ Counts(b)
  <2> HIDE DEF S
  <2> QED BY <1>3, <1>9, LeftCounts
<1>13. \A L \in LinkTable : /\ From[L] = K <=> L = "userRole"
                            /\ To[L] # K
  BY DEF LinkTable, From, To
<1>14. ListsLeft(m, a, K, S)
  <2>1. Range(<<>>) = {}
    BY DEF Range
  <2> SUFFICES ASSUME NEW L \in LinkTable, NEW x \in Ids
      PROVE  Range(a.link[L][x]) = IF From[L] = K /\ x \in S THEN {}
                                   ELSE Range(m.link[L][x])
    BY <1>13 DEF ListsLeft
  <2>2. CASE L = "userRole" /\ x = id
    BY <1>8, <1>13, <2>1, <2>2
  <2>3. CASE ~(L = "userRole" /\ x = id)
    <3>1. a.link[L][x] = m.link[L][x]
      BY <1>2, <1>8, <2>3
    <3> QED BY <1>13, <2>3, <3>1
  <2> QED BY <2>2, <2>3
<1>15. PairsLeft(d, b, K, S)
  <2> SUFFICES ASSUME NEW L \in LinkTable
      PROVE  b.link[L] = {l \in d.link[L] : ~(From[L] = K /\ l[1] \in S)}
    BY <1>13 DEF PairsLeft
  <2>1. CASE L = "userRole"
    BY <1>6, <1>9, <1>13, <2>1
  <2>2. CASE L # "userRole"
    <3>1. b.link[L] = d.link[L]
      BY <1>6, <1>9, <2>2
    <3> QED BY <1>13, <2>2, <3>1
  <2> QED BY <2>1, <2>2
<1>16. Ready(a, b)
  <2>1. a.next["rule"] = m.next["rule"]
    BY <1>2, <1>8
  <2> HIDE DEF S, K
  <2> QED BY <1>8, <1>9, <1>10, <1>11, <1>12, <1>14, <1>15, <2>1, CutReady
<1>17. Has(m, K, id) <=> Has(d, K, id)
  BY <1>0, SameHas
<1> QED BY <1>5, <1>7, <1>16, <1>17, SameAgree

-----------------------------------------------------------------------------
(* Every step keeps the invariant.                                         *)

\* A call to both, when the stores are ready for it.
LEMMA CallKeeps ==
  ASSUME StoresInv, NEW tables, NEW m, NEW d, NEW odd, Both(tables, m, d, odd),
         Ready(mem, db) => Agree(m, d, odd)
  PROVE  StoresInv'
<1>1. ~parted => Ready(mem, db)
  BY DEF StoresInv, Ready
<1> QED BY <1>1, BothKeeps

\* Where a table can grow, both stores can.
LEMMA Room ==
  ASSUME NEW K, CanAdd(K)
  PROVE  mem.next[K] <= MaxId /\ db.next[K] <= MaxId
BY DEF CanAdd

\* Departments of the requests.
LEMMA DeptsAre == Depts \subseteq 0 .. MaxId
BY BoundAssumption DEF Depts

\* A call about users keeps the stores in order and alike.
LEMMA UserCallsKeep ==
  ASSUME StoresInv, UserCalls
  PROVE  StoresInv'
<1>1. CASE \E v \in Val, dept \in Depts \ {0}, L \in Lists("role") :
              /\ CanAdd("user")
              /\ Both({"user"}, MemCreateUser(mem, v, dept, L),
                      DbCreateUser(db, v, dept, L), Repeats(L))
  <2>1. PICK v \in Val, dept \in Depts \ {0}, L \in Lists("role") :
          /\ CanAdd("user")
          /\ Both({"user"}, MemCreateUser(mem, v, dept, L),
                  DbCreateUser(db, v, dept, L), Repeats(L))
    BY <1>1
  <2>2. L \in Seq(Ids)
    BY ListsAre
  <2>3. dept \in 0 .. MaxId
    BY DeptsAre
  <2>4. mem.next["user"] <= MaxId /\ db.next["user"] <= MaxId
    BY <2>1, Room
  <2>5. Ready(mem, db) =>
          Agree(MemCreateUser(mem, v, dept, L),
                DbCreateUser(db, v, dept, L), Repeats(L))
    BY <2>2, <2>3, <2>4, UserCreates
  <2> QED BY <2>1, <2>5, CallKeeps
<1>2. CASE \E id \in Ids, v \in Val, dept \in Depts, L \in Lists("role") :
              Both({"user"}, MemUpdateUser(mem, id, v, dept, L),
                   DbUpdateUser(db, id, v, dept, L), Repeats(L))
  <2>1. PICK id \in Ids, v \in Val, dept \in Depts, L \in Lists("role") :
          Both({"user"}, MemUpdateUser(mem, id, v, dept, L),
               DbUpdateUser(db, id, v, dept, L), Repeats(L))
    BY <1>2
  <2>2. L \in Seq(Ids)
    BY ListsAre
  <2>3. dept \in 0 .. MaxId
    BY DeptsAre
  <2>4. Ready(mem, db) =>
          Agree(MemUpdateUser(mem, id, v, dept, L),
                DbUpdateUser(db, id, v, dept, L), Repeats(L))
    BY <2>2, <2>3, AccountUpdates
  <2> QED BY <2>1, <2>4, CallKeeps
<1>3. CASE \E id \in Ids, v \in Val :
              Both({"user"}, MemUpdateUserColumns(mem, id, v),
                   DbUpdateUserColumns(db, id, v), FALSE)
  <2>1. PICK id \in Ids, v \in Val :
          Both({"user"}, MemUpdateUserColumns(mem, id, v),
               DbUpdateUserColumns(db, id, v), FALSE)
    BY <1>3
  <2>2. Ready(mem, db) =>
          Agree(MemUpdateUserColumns(mem, id, v),
                DbUpdateUserColumns(db, id, v), FALSE)
    BY UserUpdates
  <2> QED BY <2>1, <2>2, CallKeeps
<1>4. CASE \E id \in Ids :
              Both({"user"}, MemUpdateUserPermission(mem, id),
                   DbUpdateUserPermission(db, id), FALSE)
  <2>1. PICK id \in Ids :
          Both({"user"}, MemUpdateUserPermission(mem, id),
               DbUpdateUserPermission(db, id), FALSE)
    BY <1>4
  <2>2. 1 \in Val
    BY DEF Val
  <2>3. Ready(mem, db) =>
          Agree(MemUpdateUserPermission(mem, id),
                DbUpdateUserPermission(db, id), FALSE)
    BY <2>2, UserUpdates
  <2> QED BY <2>1, <2>3, CallKeeps
<1>5. CASE \E id \in Ids :
              Both({"user"}, MemDeleteUser(mem, id),
                   DbDeleteUser(db, id), FALSE)
  <2>1. PICK id \in Ids :
          Both({"user"}, MemDeleteUser(mem, id), DbDeleteUser(db, id), FALSE)
    BY <1>5
  <2>2. Ready(mem, db) =>
          Agree(MemDeleteUser(mem, id), DbDeleteUser(db, id), FALSE)
    BY UserDeletes
  <2> QED BY <2>1, <2>2, CallKeeps
<1>6. CASE \E id \in Ids :
              /\ CanAdd("history")
              /\ Both({"user", "history"}, MemCreateHistory(mem, id),
                      DbCreateHistory(db, id), ~Has(db, "user", id))
  <2>1. PICK id \in Ids :
          /\ CanAdd("history")
          /\ Both({"user", "history"}, MemCreateHistory(mem, id),
                  DbCreateHistory(db, id), ~Has(db, "user", id))
    BY <1>6
  <2>2. mem.next["history"] <= MaxId /\ db.next["history"] <= MaxId
    BY <2>1, Room
  <2>3. Ready(mem, db) =>
          Agree(MemCreateHistory(mem, id),
                DbCreateHistory(db, id), ~Has(db, "user", id))
    BY <2>2, HistoryCreates
  <2> QED BY <2>1, <2>3, CallKeeps
<1> QED BY <1>1, <1>2, <1>3, <1>4, <1>5, <1>6 DEF UserCalls

\* So does a call about roles,
LEMMA RoleCallsKeep ==
  ASSUME StoresInv, RoleCalls
  PROVE  StoresInv'
<1>1. CASE \E v \in Val :
              /\ CanAdd("role")
              /\ Both({"role"}, MemCreateRole(mem, v),
                      DbCreateRole(db, v), FALSE)
  <2>1. PICK v \in Val :
          /\ CanAdd("role")
          /\ Both({"role"}, MemCreateRole(mem, v), DbCreateRole(db, v), FALSE)
    BY <1>1
  <2>2. mem.next["role"] <= MaxId /\ db.next["role"] <= MaxId
    BY <2>1, Room
  <2>3. 0 \in 0 .. MaxId
    BY BoundAssumption
  <2>4. Ready(mem, db) =>
          Agree(MemCreateRole(mem, v), DbCreateRole(db, v), FALSE)
    BY <2>2, <2>3, SimpleCreates
  <2> QED BY <2>1, <2>4, CallKeeps
<1>2. CASE \E id \in Ids, v \in Val :
              Both({"role"}, MemUpdateRole(mem, id, v),
                   DbUpdateRole(db, id, v), FALSE)
  <2>1. PICK id \in Ids, v \in Val :
          Both({"role"}, MemUpdateRole(mem, id, v),
               DbUpdateRole(db, id, v), FALSE)
    BY <1>2
  <2>2. Ready(mem, db) =>
          Agree(MemUpdateRole(mem, id, v), DbUpdateRole(db, id, v), FALSE)
    BY RoleUpdates
  <2> QED BY <2>1, <2>2, CallKeeps
<1>3. CASE \E id \in Ids, L \in Lists("menu") :
              Both({"role", "menu"}, MemUpdateRoleMenus(mem, id, L),
                   DbUpdateRoleMenus(db, id, L), FALSE)
  <2>1. PICK id \in Ids, L \in Lists("menu") :
          Both({"role", "menu"}, MemUpdateRoleMenus(mem, id, L),
               DbUpdateRoleMenus(db, id, L), FALSE)
    BY <1>3
  <2>2. L \in Seq(Ids)
    BY ListsAre
  <2>3. Ready(mem, db) =>
          Agree(MemUpdateRoleMenus(mem, id, L),
                DbUpdateRoleMenus(db, id, L), FALSE)
    BY <2>2, MenuLinks
  <2> QED BY <2>1, <2>3, CallKeeps
<1>4. CASE \E id \in Ids, L \in Lists("scope") :
              Both({"role", "scope"}, MemUpdateRoleScopes(mem, id, L),
                   DbUpdateRoleScopes(db, id, L), FALSE)
  <2>1. PICK id \in Ids, L \in Lists("scope") :
          Both({"role", "scope"}, MemUpdateRoleScopes(mem, id, L),
               DbUpdateRoleScopes(db, id, L), FALSE)
    BY <1>4
  <2>2. L \in Seq(Ids)
    BY ListsAre
  <2>3. Ready(mem, db) =>
          Agree(MemUpdateRoleScopes(mem, id, L),
                DbUpdateRoleScopes(db, id, L), FALSE)
    BY <2>2, ScopeLinks
  <2> QED BY <2>1, <2>3, CallKeeps
<1>5. CASE \E S \in SUBSET Ids :
              Both({"role"}, MemDeleteRoles(mem, S),
                   DbDeleteRoles(db, S), S = {})
  <2>1. PICK S \in SUBSET Ids :
          Both({"role"}, MemDeleteRoles(mem, S), DbDeleteRoles(db, S), S = {})
    BY <1>5
  <2>2. Ready(mem, db) =>
          Agree(MemDeleteRoles(mem, S), DbDeleteRoles(db, S), S = {})
    BY RoleDeletes
  <2> QED BY <2>1, <2>2, CallKeeps
<1> QED BY <1>1, <1>2, <1>3, <1>4, <1>5 DEF RoleCalls

\* about menus and departments,
LEMMA TreeCallsKeep ==
  ASSUME StoresInv, TreeCalls
  PROVE  StoresInv'
<1>1. CASE \E v \in Val, p \in 0 .. MaxId :
              /\ CanAdd("menu")
              /\ Both({"menu"}, MemCreateMenu(mem, v, p),
                      DbCreateMenu(db, v, p), FALSE)
  <2>1. PICK v \in Val, p \in 0 .. MaxId :
          /\ CanAdd("menu")
          /\ Both({"menu"}, MemCreateMenu(mem, v, p),
                  DbCreateMenu(db, v, p), FALSE)
    BY <1>1
  <2>2. mem.next["menu"] <= MaxId /\ db.next["menu"] <= MaxId
    BY <2>1, Room
  <2>3. Ready(mem, db) =>
          Agree(MemCreateMenu(mem, v, p), DbCreateMenu(db, v, p), FALSE)
    BY <2>2, SimpleCreates
  <2> QED BY <2>1, <2>3, CallKeeps
<1>2. CASE \E v \in Val, p \in 0 .. MaxId :
              /\ CanAdd("dept")
              /\ Both({"dept"}, MemCreateDept(mem, v, p),
                      DbCreateDept(db, v, p), FALSE)
  <2>1. PICK v \in Val, p \in 0 .. MaxId :
          /\ CanAdd("dept")
          /\ Both({"dept"}, MemCreateDept(mem, v, p),
                  DbCreateDept(db, v, p), FALSE)
    BY <1>2
  <2>2. mem.next["dept"] <= MaxId /\ db.next["dept"] <= MaxId
    BY <2>1, Room
  <2>3. Ready(mem, db) =>
          Agree(MemCreateDept(mem, v, p), DbCreateDept(db, v, p), FALSE)
    BY <2>2, SimpleCreates
  <2> QED BY <2>1, <2>3, CallKeeps
<1>3. CASE \E v \in Val, p \in 0 .. MaxId, id \in Ids :
              Both({"menu"}, MemUpdateMenu(mem, id, v, p),
                   DbUpdateMenu(db, id, v, p), FALSE)
  <2>1. PICK v \in Val, p \in 0 .. MaxId, id \in Ids :
          Both({"menu"}, MemUpdateMenu(mem, id, v, p),
               DbUpdateMenu(db, id, v, p), FALSE)
    BY <1>3
  <2>2. Ready(mem, db) =>
          Agree(MemUpdateMenu(mem, id, v, p), DbUpdateMenu(db, id, v, p), FALSE)
    BY MenuUpdates
  <2> QED BY <2>1, <2>2, CallKeeps
<1>4. CASE \E v \in Val, p \in 0 .. MaxId, id \in Ids :
              Both({"dept"}, MemUpdateDept(mem, id, v, p),
                   DbUpdateDept(db, id, v, p), FALSE)
  <2>1. PICK v \in Val, p \in 0 .. MaxId, id \in Ids :
          Both({"dept"}, MemUpdateDept(mem, id, v, p),
               DbUpdateDept(db, id, v, p), FALSE)
    BY <1>4
  <2>2. Ready(mem, db) =>
          Agree(MemUpdateDept(mem, id, v, p), DbUpdateDept(db, id, v, p), FALSE)
    BY DeptUpdates
  <2> QED BY <2>1, <2>2, CallKeeps
<1>5. CASE \E id \in Ids :
              Both({"menu"}, MemDeleteMenu(mem, id),
                   DbDeleteMenu(db, id), FALSE)
  <2>1. PICK id \in Ids :
          Both({"menu"}, MemDeleteMenu(mem, id), DbDeleteMenu(db, id), FALSE)
    BY <1>5
  <2>2. Ready(mem, db) =>
          Agree(MemDeleteMenu(mem, id), DbDeleteMenu(db, id), FALSE)
    BY MenuDeletes
  <2> QED BY <2>1, <2>2, CallKeeps
<1>6. CASE \E id \in Ids :
              Both({"dept"}, MemDeleteDept(mem, id),
                   DbDeleteDept(db, id), FALSE)
  <2>1. PICK id \in Ids :
          Both({"dept"}, MemDeleteDept(mem, id), DbDeleteDept(db, id), FALSE)
    BY <1>6
  <2>2. Ready(mem, db) =>
          Agree(MemDeleteDept(mem, id), DbDeleteDept(db, id), FALSE)
    BY DeptDeletes
  <2> QED BY <2>1, <2>2, CallKeeps
<1> QED BY <1>1, <1>2, <1>3, <1>4, <1>5, <1>6 DEF TreeCalls

\* about rules and scopes,
LEMMA DataCallsKeep ==
  ASSUME StoresInv, DataCalls
  PROVE  StoresInv'
<1>1. CASE \E v \in Val :
              /\ CanAdd("rule")
              /\ Both({"rule"}, MemCreateDataRule(mem, v),
                      DbCreateDataRule(db, v), FALSE)
  <2>1. PICK v \in Val :
          /\ CanAdd("rule")
          /\ Both({"rule"}, MemCreateDataRule(mem, v),
                  DbCreateDataRule(db, v), FALSE)
    BY <1>1
  <2>2. mem.next["rule"] <= MaxId /\ db.next["rule"] <= MaxId
    BY <2>1, Room
  <2>3. 0 \in 0 .. MaxId
    BY BoundAssumption
  <2>4. Ready(mem, db) =>
          Agree(MemCreateDataRule(mem, v), DbCreateDataRule(db, v), FALSE)
    BY <2>2, <2>3, SimpleCreates
  <2> QED BY <2>1, <2>4, CallKeeps
<1>2. CASE \E v \in Val :
              /\ CanAdd("scope")
              /\ Both({"scope"}, MemCreateDataScope(mem, v),
                      DbCreateDataScope(db, v), FALSE)
  <2>1. PICK v \in Val :
          /\ CanAdd("scope")
          /\ Both({"scope"}, MemCreateDataScope(mem, v),
                  DbCreateDataScope(db, v), FALSE)
    BY <1>2
  <2>2. mem.next["scope"] <= MaxId /\ db.next["scope"] <= MaxId
    BY <2>1, Room
  <2>3. 0 \in 0 .. MaxId
    BY BoundAssumption
  <2>4. Ready(mem, db) =>
          Agree(MemCreateDataScope(mem, v), DbCreateDataScope(db, v), FALSE)
    BY <2>2, <2>3, SimpleCreates
  <2> QED BY <2>1, <2>4, CallKeeps
<1>3. CASE \E id \in Ids, v \in Val :
              Both({"rule"}, MemUpdateDataRule(mem, id, v),
                   DbUpdateDataRule(db, id, v), FALSE)
  <2>1. PICK id \in Ids, v \in Val :
          Both({"rule"}, MemUpdateDataRule(mem, id, v),
               DbUpdateDataRule(db, id, v), FALSE)
    BY <1>3
  <2>2. Ready(mem, db) =>
          Agree(MemUpdateDataRule(mem, id, v),
                DbUpdateDataRule(db, id, v), FALSE)
    BY DataUpdates
  <2> QED BY <2>1, <2>2, CallKeeps
<1>4. CASE \E id \in Ids, v \in Val :
              Both({"scope"}, MemUpdateDataScope(mem, id, v),
                   DbUpdateDataScope(db, id, v), FALSE)
  <2>1. PICK id \in Ids, v \in Val :
          Both({"scope"}, MemUpdateDataScope(mem, id, v),
               DbUpdateDataScope(db, id, v), FALSE)
    BY <1>4
  <2>2. Ready(mem, db) =>
          Agree(MemUpdateDataScope(mem, id, v),
                DbUpdateDataScope(db, id, v), FALSE)
    BY DataUpdates
  <2> QED BY <2>1, <2>2, CallKeeps
<1>5. CASE \E id \in Ids, L \in Lists("rule") :
              Both({"scope", "rule"}, MemUpdateDataScopeRules(mem, id, L),
                   DbUpdateDataScopeRules(db, id, L), Repeats(L))
  <2>1. PICK id \in Ids, L \in Lists("rule") :
          Both({"scope", "rule"}, MemUpdateDataScopeRules(mem, id, L),
               DbUpdateDataScopeRules(db, id, L), Repeats(L))
    BY <1>5
  <2>2. L \in Seq(Ids)
    BY ListsAre
  <2>3. Ready(mem, db) =>
          Agree(MemUpdateDataScopeRules(mem, id, L),
                DbUpdateDataScopeRules(db, id, L), Repeats(L))
    BY <2>2, RuleLinks
  <2> QED BY <2>1, <2>3, CallKeeps
<1>6. CASE \E S \in SUBSET Ids :
              Both({"rule"}, MemDeleteDataRules(mem, S),
                   DbDeleteDataRules(db, S), S = {})
  <2>1. PICK S \in SUBSET Ids :
          Both({"rule"}, MemDeleteDataRules(mem, S),
               DbDeleteDataRules(db, S), S = {})
    BY <1>6
  <2>2. Ready(mem, db) =>
          Agree(MemDeleteDataRules(mem, S), DbDeleteDataRules(db, S), S = {})
    BY RuleDeletes
  <2> QED BY <2>1, <2>2, CallKeeps
<1>7. CASE \E S \in SUBSET Ids :
              Both({"scope"}, MemDeleteDataScopes(mem, S),
                   DbDeleteDataScopes(db, S), S = {})
  <2>1. PICK S \in SUBSET Ids :
          Both({"scope"}, MemDeleteDataScopes(mem, S),
               DbDeleteDataScopes(db, S), S = {})
    BY <1>7
  <2>2. Ready(mem, db) =>
          Agree(MemDeleteDataScopes(mem, S), DbDeleteDataScopes(db, S), S = {})
    BY ScopeDeletes
  <2> QED BY <2>1, <2>2, CallKeeps
<1> QED BY <1>1, <1>2, <1>3, <1>4, <1>5, <1>6, <1>7 DEF DataCalls

\* about the plugins,
LEMMA PluginCallsKeep ==
  ASSUME StoresInv, PluginCalls
  PROVE  StoresInv'
<1>1. CASE \E id \in Ids :
              Both({"plugin"}, MemInstallPlugin(mem, id),
                   DbInstallPlugin(db, id), FALSE)
  <2>1. PICK id \in Ids :
          Both({"plugin"}, MemInstallPlugin(mem, id),
               DbInstallPlugin(db, id), FALSE)
    BY <1>1
  <2>2. Ready(mem, db) =>
          Agree(MemInstallPlugin(mem, id), DbInstallPlugin(db, id), FALSE)
    BY PluginInstalls
  <2> QED BY <2>1, <2>2, CallKeeps
<1>2. CASE \E id \in Ids :
              Both({"plugin"}, MemUninstallPlugin(mem, id),
                   DbUninstallPlugin(db, id), FALSE)
  <2>1. PICK id \in Ids :
          Both({"plugin"}, MemUninstallPlugin(mem, id),
               DbUninstallPlugin(db, id), FALSE)
    BY <1>2
  <2>2. Ready(mem, db) =>
          Agree(MemUninstallPlugin(mem, id), DbUninstallPlugin(db, id), FALSE)
    BY PluginUninstalls
  <2> QED BY <2>1, <2>2, CallKeeps
<1>3. CASE \E id \in Ids :
              Both({"plugin"}, MemTogglePluginStatus(mem, id),
                   DbTogglePluginStatus(db, id), FALSE)
  <2>1. PICK id \in Ids :
          Both({"plugin"}, MemTogglePluginStatus(mem, id),
               DbTogglePluginStatus(db, id), FALSE)
    BY <1>3
  <2>2. Ready(mem, db) =>
          Agree(MemTogglePluginStatus(mem, id),
                DbTogglePluginStatus(db, id), FALSE)
    BY PluginToggles
  <2> QED BY <2>1, <2>2, CallKeeps
<1> QED BY <1>1, <1>2, <1>3 DEF PluginCalls

\* about logs and sessions,
LEMMA LogCallsKeep ==
  ASSUME StoresInv, LogCalls
  PROVE  StoresInv'
<1>1. CASE \E v \in Val :
              /\ CanAdd("loginLog")
              /\ Both({"loginLog"}, MemCreateLoginLog(mem, v),
                      DbCreateLoginLog(db, v), FALSE)
  <2>1. PICK v \in Val :
          /\ CanAdd("loginLog")
          /\ Both({"loginLog"}, MemCreateLoginLog(mem, v),
                  DbCreateLoginLog(db, v), FALSE)
    BY <1>1
  <2>2. mem.next["loginLog"] <= MaxId /\ db.next["loginLog"] <= MaxId
    BY <2>1, Room
  <2>3. 0 \in 0 .. MaxId
    BY BoundAssumption
  <2>4. Ready(mem, db) =>
          Agree(MemCreateLoginLog(mem, v), DbCreateLoginLog(db, v), FALSE)
    BY <2>2, <2>3, SimpleCreates
  <2> QED BY <2>1, <2>4, CallKeeps
<1>2. CASE \E v \in Val :
              /\ CanAdd("operaLog")
              /\ Both({"operaLog"}, MemCreateOperaLog(mem, v),
                      DbCreateOperaLog(db, v), FALSE)
  <2>1. PICK v \in Val :
          /\ CanAdd("operaLog")
          /\ Both({"operaLog"}, MemCreateOperaLog(mem, v),
                  DbCreateOperaLog(db, v), FALSE)
    BY <1>2
  <2>2. mem.next["operaLog"] <= MaxId /\ db.next["operaLog"] <= MaxId
    BY <2>1, Room
  <2>3. 0 \in 0 .. MaxId
    BY BoundAssumption
  <2>4. Ready(mem, db) =>
          Agree(MemCreateOperaLog(mem, v), DbCreateOperaLog(db, v), FALSE)
    BY <2>2, <2>3, SimpleCreates
  <2> QED BY <2>1, <2>4, CallKeeps
<1>3. CASE \E v \in Val, id \in Ids :
              Both({"session"}, MemUpsertSession(mem, id, v),
                   DbUpsertSession(db, id, v), FALSE)
  <2>1. PICK v \in Val, id \in Ids :
          Both({"session"}, MemUpsertSession(mem, id, v),
               DbUpsertSession(db, id, v), FALSE)
    BY <1>3
  <2>2. Ready(mem, db) =>
          Agree(MemUpsertSession(mem, id, v), DbUpsertSession(db, id, v), FALSE)
    BY SessionCalls
  <2> QED BY <2>1, <2>2, CallKeeps
<1>4. CASE \E S \in SUBSET Ids :
              Both({"loginLog"}, MemDeleteLoginLogs(mem, S),
                   DbDeleteLoginLogs(db, S), FALSE)
  <2>1. PICK S \in SUBSET Ids :
          Both({"loginLog"}, MemDeleteLoginLogs(mem, S),
               DbDeleteLoginLogs(db, S), FALSE)
    BY <1>4
  <2>2. Ready(mem, db) =>
          Agree(MemDeleteLoginLogs(mem, S), DbDeleteLoginLogs(db, S), FALSE)
    BY LogDeletes
  <2> QED BY <2>1, <2>2, CallKeeps
<1>5. CASE \E S \in SUBSET Ids :
              Both({"operaLog"}, MemDeleteOperaLogs(mem, S),
                   DbDeleteOperaLogs(db, S), FALSE)
  <2>1. PICK S \in SUBSET Ids :
          Both({"operaLog"}, MemDeleteOperaLogs(mem, S),
               DbDeleteOperaLogs(db, S), FALSE)
    BY <1>5
  <2>2. Ready(mem, db) =>
          Agree(MemDeleteOperaLogs(mem, S), DbDeleteOperaLogs(db, S), FALSE)
    BY LogDeletes
  <2> QED BY <2>1, <2>2, CallKeeps
<1>6. CASE Both({"loginLog"}, MemDeleteAllLoginLogs(mem),
                DbDeleteAllLoginLogs(db), FALSE)
  <2>2. Ready(mem, db) =>
          Agree(MemDeleteAllLoginLogs(mem), DbDeleteAllLoginLogs(db), FALSE)
    BY LogDeletes
  <2> QED BY <1>6, <2>2, CallKeeps
<1>7. CASE Both({"operaLog"}, MemDeleteAllOperaLogs(mem),
                DbDeleteAllOperaLogs(db), FALSE)
  <2>2. Ready(mem, db) =>
          Agree(MemDeleteAllOperaLogs(mem), DbDeleteAllOperaLogs(db), FALSE)
    BY LogDeletes
  <2> QED BY <1>7, <2>2, CallKeeps
<1>8. CASE \E id \in Ids :
              Both({"session"}, MemDeleteSession(mem, id),
                   DbDeleteSession(db, id), FALSE)
  <2>1. PICK id \in Ids :
          Both({"session"}, MemDeleteSession(mem, id),
               DbDeleteSession(db, id), FALSE)
    BY <1>8
  <2>2. 1 \in Val
    BY DEF Val
  <2>3. Ready(mem, db) =>
          Agree(MemDeleteSession(mem, id), DbDeleteSession(db, id), FALSE)
    BY <2>2, SessionCalls
  <2> QED BY <2>1, <2>3, CallKeeps
<1> QED BY <1>1, <1>2, <1>3, <1>4, <1>5, <1>6, <1>7, <1>8 DEF LogCalls

\* about the dictionary,
LEMMA DictCallsKeep ==
  ASSUME StoresInv, DictCalls
  PROVE  StoresInv'
<1>1. CASE \E v \in Val :
              /\ CanAdd("dictType")
              /\ CanAdd("dictData")
              /\ Both({"dictType"}, MemCreateType(mem, v),
                      DbCreateType(db, v), DictIdsDiffer("dictType"))
  <2>1. PICK v \in Val :
          /\ CanAdd("dictType")
          /\ CanAdd("dictData")
          /\ Both({"dictType"}, MemCreateType(mem, v),
                  DbCreateType(db, v), DictIdsDiffer("dictType"))
    BY <1>1
  <2>2. /\ mem.next["dictType"] <= MaxId
        /\ db.next["dictType"] <= MaxId
        /\ mem.next["dictData"] <= MaxId
        /\ db.next["dictData"] <= MaxId
    BY <2>1, Room
  <2>3. 1 \in Ids /\ TRUE \in BOOLEAN
    BY BoundAssumption DEF Ids
  <2>4. Ready(mem, db) =>
          Agree(MemCreateType(mem, v),
                DbCreateType(db, v), DictIdsDiffer("dictType"))
    BY <2>2, <2>3, DictCreates DEF DictIdsDiffer
  <2> QED BY <2>1, <2>4, CallKeeps
<1>2. CASE \E v \in Val, id \in Ids :
              Both({"dictType"}, MemUpdateType(mem, id, v),
                   DbUpdateType(db, id, v), FALSE)
  <2>1. PICK v \in Val, id \in Ids :
          Both({"dictType"}, MemUpdateType(mem, id, v),
               DbUpdateType(db, id, v), FALSE)
    BY <1>2
  <2>2. Ready(mem, db) =>
          Agree(MemUpdateType(mem, id, v), DbUpdateType(db, id, v), FALSE)
    BY TypeUpdates
  <2> QED BY <2>1, <2>2, CallKeeps
<1>3. CASE \E t \in Ids, on \in BOOLEAN :
              /\ CanAdd("dictType")
              /\ CanAdd("dictData")
              /\ Both({"dictData"}, MemCreateData(mem, t, on),
                      DbCreateData(db, t, on), DictIdsDiffer("dictData"))
  <2>1. PICK t \in Ids, on \in BOOLEAN :
          /\ CanAdd("dictType")
          /\ CanAdd("dictData")
          /\ Both({"dictData"}, MemCreateData(mem, t, on),
                  DbCreateData(db, t, on), DictIdsDiffer("dictData"))
    BY <1>3
  <2>2. /\ mem.next["dictType"] <= MaxId
        /\ db.next["dictType"] <= MaxId
        /\ mem.next["dictData"] <= MaxId
        /\ db.next["dictData"] <= MaxId
    BY <2>1, Room
  <2>3. 1 \in Val
    BY DEF Val
  <2>4. Ready(mem, db) =>
          Agree(MemCreateData(mem, t, on),
                DbCreateData(db, t, on), DictIdsDiffer("dictData"))
    BY <2>2, <2>3, DictCreates DEF DictIdsDiffer
  <2> QED BY <2>1, <2>4, CallKeeps
<1>4. CASE \E t \in Ids, on \in BOOLEAN, id \in Ids :
              Both({"dictData"}, MemUpdateData(mem, id, t, on),
                   DbUpdateData(db, id, t, on), FALSE)
  <2>1. PICK t \in Ids, on \in BOOLEAN, id \in Ids :
          Both({"dictData"}, MemUpdateData(mem, id, t, on),
               DbUpdateData(db, id, t, on), FALSE)
    BY <1>4
  <2>2. Ready(mem, db) =>
          Agree(MemUpdateData(mem, id, t, on),
                DbUpdateData(db, id, t, on), FALSE)
    BY EntryUpdates
  <2> QED BY <2>1, <2>2, CallKeeps
<1>5. CASE \E S \in SUBSET Ids :
              Both({"dictType"}, MemDeleteTypes(mem, S),
                   DbDeleteTypes(db, S), FALSE)
  <2>1. PICK S \in SUBSET Ids :
          Both({"dictType"}, MemDeleteTypes(mem, S),
               DbDeleteTypes(db, S), FALSE)
    BY <1>5
  <2>2. Ready(mem, db) =>
          Agree(MemDeleteTypes(mem, S), DbDeleteTypes(db, S), FALSE)
    BY SimpleDeletes
  <2> QED BY <2>1, <2>2, CallKeeps
<1>6. CASE \E S \in SUBSET Ids :
              Both({"dictData"}, MemDeleteData(mem, S),
                   DbDeleteData(db, S), FALSE)
  <2>1. PICK S \in SUBSET Ids :
          Both({"dictData"}, MemDeleteData(mem, S), DbDeleteData(db, S), FALSE)
    BY <1>6
  <2>2. Ready(mem, db) =>
          Agree(MemDeleteData(mem, S), DbDeleteData(db, S), FALSE)
    BY SimpleDeletes
  <2> QED BY <2>1, <2>2, CallKeeps
<1> QED BY <1>1, <1>2, <1>3, <1>4, <1>5, <1>6 DEF DictCalls

\* about the configuration,
LEMMA ConfigCallsKeep ==
  ASSUME StoresInv, ConfigCalls
  PROVE  StoresInv'
<1>1. CASE \E v \in Val, on \in BOOLEAN :
              /\ CanAdd("config")
              /\ Both({"config"}, MemCreateConfig(mem, v, on),
                      DbCreateConfig(db, v, on), Taken(db, "config", v, 0))
  <2>1. PICK v \in Val, on \in BOOLEAN :
          /\ CanAdd("config")
          /\ Both({"config"}, MemCreateConfig(mem, v, on),
                  DbCreateConfig(db, v, on), Taken(db, "config", v, 0))
    BY <1>1
  <2>2. mem.next["config"] <= MaxId /\ db.next["config"] <= MaxId
    BY <2>1, Room
  <2>3. Ready(mem, db) =>
          Agree(MemCreateConfig(mem, v, on),
                DbCreateConfig(db, v, on), Taken(db, "config", v, 0))
    BY <2>2, UniqueCreates
  <2> QED BY <2>1, <2>3, CallKeeps
<1>2. CASE \E v \in Val, on \in BOOLEAN, id \in Ids :
              Both({"config"}, MemUpdateConfig(mem, id, v, on),
                   DbUpdateConfig(db, id, v, on), Taken(db, "config", v, id))
  <2>1. PICK v \in Val, on \in BOOLEAN, id \in Ids :
          Both({"config"}, MemUpdateConfig(mem, id, v, on),
               DbUpdateConfig(db, id, v, on), Taken(db, "config", v, id))
    BY <1>2
  <2>2. Ready(mem, db) =>
          Agree(MemUpdateConfig(mem, id, v, on),
                DbUpdateConfig(db, id, v, on), Taken(db, "config", v, id))
    BY ConfigUpdates
  <2> QED BY <2>1, <2>2, CallKeeps
<1>3. CASE \E ps \in Params :
              Both({"config"}, MemBulkUpdate(mem, ps),
                   DbBulkUpdate(db, ps), Refused(ps))
  <2>1. PICK ps \in Params :
          Both({"config"}, MemBulkUpdate(mem, ps),
               DbBulkUpdate(db, ps), Refused(ps))
    BY <1>3
  <2>2. Ready(mem, db) =>
          Agree(MemBulkUpdate(mem, ps), DbBulkUpdate(db, ps), Refused(ps))
    BY BulkUpdates DEF Refused
  <2> QED BY <2>1, <2>2, CallKeeps
<1>4. CASE \E S \in SUBSET Ids :
              Both({"config"}, MemDeleteConfigs(mem, S),
                   DbDeleteConfigs(db, S), FALSE)
  <2>1. PICK S \in SUBSET Ids :
          Both({"config"}, MemDeleteConfigs(mem, S),
               DbDeleteConfigs(db, S), FALSE)
    BY <1>4
  <2>2. Ready(mem, db) =>
          Agree(MemDeleteConfigs(mem, S), DbDeleteConfigs(db, S), FALSE)
    BY ConfigDeletes
  <2> QED BY <2>1, <2>2, CallKeeps
<1> QED BY <1>1, <1>2, <1>3, <1>4 DEF ConfigCalls

\* about notices,
LEMMA NoticeCallsKeep ==
  ASSUME StoresInv, NoticeCalls
  PROVE  StoresInv'
<1>1. CASE \E v \in Val :
              /\ CanAdd("notice")
              /\ Both({"notice"}, MemCreateNotice(mem, v),
                      DbCreateNotice(db, v), FALSE)
  <2>1. PICK v \in Val :
          /\ CanAdd("notice")
          /\ Both({"notice"}, MemCreateNotice(mem, v),
                  DbCreateNotice(db, v), FALSE)
    BY <1>1
  <2>2. mem.next["notice"] <= MaxId /\ db.next["notice"] <= MaxId
    BY <2>1, Room
  <2>3. 0 \in 0 .. MaxId
    BY BoundAssumption
  <2>4. Ready(mem, db) =>
          Agree(MemCreateNotice(mem, v), DbCreateNotice(db, v), FALSE)
    BY <2>2, <2>3, SimpleCreates
  <2> QED BY <2>1, <2>4, CallKeeps
<1>2. CASE \E v \in Val, id \in Ids :
              Both({"notice"}, MemUpdateNotice(mem, id, v),
                   DbUpdateNotice(db, id, v), FALSE)
  <2>1. PICK v \in Val, id \in Ids :
          Both({"notice"}, MemUpdateNotice(mem, id, v),
               DbUpdateNotice(db, id, v), FALSE)
    BY <1>2
  <2>2. Ready(mem, db) =>
          Agree(MemUpdateNotice(mem, id, v), DbUpdateNotice(db, id, v), FALSE)
    BY NoticeUpdates
  <2> QED BY <2>1, <2>2, CallKeeps
<1>3. CASE \E S \in SUBSET Ids :
              Both({"notice"}, MemDeleteNotices(mem, S),
                   DbDeleteNotices(db, S), FALSE)
  <2>1. PICK S \in SUBSET Ids :
          Both({"notice"}, MemDeleteNotices(mem, S),
               DbDeleteNotices(db, S), FALSE)
    BY <1>3
  <2>2. Ready(mem, db) =>
          Agree(MemDeleteNotices(mem, S), DbDeleteNotices(db, S), FALSE)
    BY SimpleDeletes
  <2> QED BY <2>1, <2>2, CallKeeps
<1> QED BY <1>1, <1>2, <1>3 DEF NoticeCalls

\* about schedulers and results,
LEMMA TaskCallsKeep ==
  ASSUME StoresInv, TaskCalls
  PROVE  StoresInv'
<1>1. CASE \E v \in Val :
              /\ CanAdd("scheduler")
              /\ Both({"scheduler"}, MemCreateScheduler(mem, v),
                      DbCreateScheduler(db, v), Taken(db, "scheduler", v, 0))
  <2>1. PICK v \in Val :
          /\ CanAdd("scheduler")
          /\ Both({"scheduler"}, MemCreateScheduler(mem, v),
                  DbCreateScheduler(db, v), Taken(db, "scheduler", v, 0))
    BY <1>1
  <2>2. mem.next["scheduler"] <= MaxId /\ db.next["scheduler"] <= MaxId
    BY <2>1, Room
  <2>3. TRUE \in BOOLEAN
    OBVIOUS
  <2>4. Ready(mem, db) =>
          Agree(MemCreateScheduler(mem, v),
                DbCreateScheduler(db, v), Taken(db, "scheduler", v, 0))
    BY <2>2, <2>3, UniqueCreates
  <2> QED BY <2>1, <2>4, CallKeeps
<1>2. CASE \E v \in Val, id \in Ids :
              Both({"scheduler"}, MemUpdateScheduler(mem, id, v),
                   DbUpdateScheduler(db, id, v), Taken(db, "scheduler", v, id))
  <2>1. PICK v \in Val, id \in Ids :
          Both({"scheduler"}, MemUpdateScheduler(mem, id, v),
               DbUpdateScheduler(db, id, v), Taken(db, "scheduler", v, id))
    BY <1>2
  <2>2. Ready(mem, db) =>
          Agree(MemUpdateScheduler(mem, id, v),
                DbUpdateScheduler(db, id, v), Taken(db, "scheduler", v, id))
    BY SchedulerUpdates
  <2> QED BY <2>1, <2>2, CallKeeps
<1>3. CASE \E id \in Ids :
              Both({"scheduler"}, MemToggleSchedulerStatus(mem, id),
                   DbToggleSchedulerStatus(db, id), FALSE)
  <2>1. PICK id \in Ids :
          Both({"scheduler"}, MemToggleSchedulerStatus(mem, id),
               DbToggleSchedulerStatus(db, id), FALSE)
    BY <1>3
  <2>2. Ready(mem, db) =>
          Agree(MemToggleSchedulerStatus(mem, id),
                DbToggleSchedulerStatus(db, id), FALSE)
    BY SchedulerToggles
  <2> QED BY <2>1, <2>2, CallKeeps
<1>4. CASE \E id \in Ids :
              Both({"scheduler"}, MemDeleteScheduler(mem, id),
                   DbDeleteScheduler(db, id), FALSE)
  <2>1. PICK id \in Ids :
          Both({"scheduler"}, MemDeleteScheduler(mem, id),
               DbDeleteScheduler(db, id), FALSE)
    BY <1>4
  <2>2. Ready(mem, db) =>
          Agree(MemDeleteScheduler(mem, id), DbDeleteScheduler(db, id), FALSE)
    BY SimpleDeletes
  <2> QED BY <2>1, <2>2, CallKeeps
<1>5. CASE \E S \in SUBSET Ids :
              Both({"result"}, MemDeleteTaskResults(mem, S),
                   DbDeleteTaskResults(db, S), FALSE)
  <2>1. PICK S \in SUBSET Ids :
          Both({"result"}, MemDeleteTaskResults(mem, S),
               DbDeleteTaskResults(db, S), FALSE)
    BY <1>5
  <2>2. Ready(mem, db) =>
          Agree(MemDeleteTaskResults(mem, S), DbDeleteTaskResults(db, S), FALSE)
    BY SimpleDeletes
  <2> QED BY <2>1, <2>2, CallKeeps
<1> QED BY <1>1, <1>2, <1>3, <1>4, <1>5 DEF TaskCalls

\* and about scenes and storages.
LEMMA CatalogCallsKeep ==
  ASSUME StoresInv, CatalogCalls
  PROVE  StoresInv'
<1>1. CASE \E c \in Val, on \in BOOLEAN, st \in {0} \cup Val :
              /\ CanAdd("scene")
              /\ Both({"scene"}, MemCreateScene(mem, c, st, on),
                      DbCreateScene(db, c, st, on),
                      ByCode(db, "scene", c) # {})
  <2>1. PICK c \in Val, on \in BOOLEAN, st \in {0} \cup Val :
          /\ CanAdd("scene")
          /\ Both({"scene"}, MemCreateScene(mem, c, st, on),
                  DbCreateScene(db, c, st, on), ByCode(db, "scene", c) # {})
    BY <1>1
  <2>2. mem.next["scene"] <= MaxId /\ db.next["scene"] <= MaxId
    BY <2>1, Room
  <2>3. st \in Refs
    BY BoundAssumption DEF Refs
  <2>4. Ready(mem, db) =>
          Agree(MemCreateScene(mem, c, st, on),
                DbCreateScene(db, c, st, on), ByCode(db, "scene", c) # {})
    BY <2>2, <2>3, SceneCreates
  <2> QED BY <2>1, <2>4, CallKeeps
<1>2. CASE \E c \in Val, on \in BOOLEAN, st \in {0} \cup Val, e \in Val :
              Both({"scene"}, MemUpdateScene(mem, c, e, st, on),
                   DbUpdateScene(db, c, e, st, on),
                   e # c /\ ByCode(db, "scene", e) # {})
  <2>1. PICK c \in Val, on \in BOOLEAN, st \in {0} \cup Val, e \in Val :
          Both({"scene"}, MemUpdateScene(mem, c, e, st, on),
               DbUpdateScene(db, c, e, st, on),
               e # c /\ ByCode(db, "scene", e) # {})
    BY <1>2
  <2>2. st \in Refs
    BY BoundAssumption DEF Refs
  <2>3. Ready(mem, db) =>
          Agree(MemUpdateScene(mem, c, e, st, on),
                DbUpdateScene(db, c, e, st, on),
                e # c /\ ByCode(db, "scene", e) # {})
    BY <2>2, SceneUpdates
  <2> QED BY <2>1, <2>3, CallKeeps
<1>3. CASE \E c \in Val, on \in BOOLEAN, enabled \in {0, 1} :
              /\ CanAdd("storage")
              /\ Both({"storage"}, MemCreateStorage(mem, c, enabled, on),
                      DbCreateStorage(db, c, enabled, on),
                      ByCode(db, "storage", c) # {})
  <2>1. PICK c \in Val, on \in BOOLEAN, enabled \in {0, 1} :
          /\ CanAdd("storage")
          /\ Both({"storage"}, MemCreateStorage(mem, c, enabled, on),
                  DbCreateStorage(db, c, enabled, on),
                  ByCode(db, "storage", c) # {})
    BY <1>3
  <2>2. mem.next["storage"] <= MaxId /\ db.next["storage"] <= MaxId
    BY <2>1, Room
  <2>3. Ready(mem, db) =>
          Agree(MemCreateStorage(mem, c, enabled, on),
                DbCreateStorage(db, c, enabled, on),
                ByCode(db, "storage", c) # {})
    BY <2>2, StorageCreates
  <2> QED BY <2>1, <2>3, CallKeeps
<1>4. CASE \E c \in Val, on \in BOOLEAN, enabled \in {0, 1}, e \in Val :
              Both({"storage"}, MemUpdateStorage(mem, c, e, enabled, on),
                   DbUpdateStorage(db, c, e, enabled, on),
                   e # c /\ ByCode(db, "storage", e) # {})
  <2>1. PICK c \in Val, on \in BOOLEAN, enabled \in {0, 1}, e \in Val :
          Both({"storage"}, MemUpdateStorage(mem, c, e, enabled, on),
               DbUpdateStorage(db, c, e, enabled, on),
               e # c /\ ByCode(db, "storage", e) # {})
    BY <1>4
  <2>2. Ready(mem, db) =>
          Agree(MemUpdateStorage(mem, c, e, enabled, on),
                DbUpdateStorage(db, c, e, enabled, on),
                e # c /\ ByCode(db, "storage", e) # {})
    BY StorageUpdates
  <2> QED BY <2>1, <2>2, CallKeeps
<1>5. CASE \E c \in Val :
              Both({"scene"}, MemDeleteScene(mem, c),
                   DbDeleteScene(db, c), FALSE)
  <2>1. PICK c \in Val :
          Both({"scene"}, MemDeleteScene(mem, c), DbDeleteScene(db, c), FALSE)
    BY <1>5
  <2>2. Ready(mem, db) =>
          Agree(MemDeleteScene(mem, c), DbDeleteScene(db, c), FALSE)
    BY CatalogDeletes
  <2> QED BY <2>1, <2>2, CallKeeps
<1>6. CASE \E c \in Val :
              Both({"storage"}, MemDeleteStorage(mem, c),
                   DbDeleteStorage(db, c), FALSE)
  <2>1. PICK c \in Val :
          Both({"storage"}, MemDeleteStorage(mem, c),
               DbDeleteStorage(db, c), FALSE)
    BY <1>6
  <2>2. Ready(mem, db) =>
          Agree(MemDeleteStorage(mem, c), DbDeleteStorage(db, c), FALSE)
    BY CatalogDeletes
  <2> QED BY <2>1, <2>2, CallKeeps
<1>7. PICK c \in Val, on \in BOOLEAN :
        \/ \E st \in {0} \cup Val :
             \/ /\ CanAdd("scene")
                /\ Both({"scene"}, MemCreateScene(mem, c, st, on),
                        DbCreateScene(db, c, st, on), ByCode(db, "scene", c) # {})
             \/ \E e \in Val :
                  Both({"scene"}, MemUpdateScene(mem, c, e, st, on),
                       DbUpdateScene(db, c, e, st, on),
                       e # c /\ ByCode(db, "scene", e) # {})
        \/ \E enabled \in {0, 1} :
             \/ /\ CanAdd("storage")
                /\ Both({"storage"}, MemCreateStorage(mem, c, enabled, on),
                        DbCreateStorage(db, c, enabled, on),
                        ByCode(db, "storage", c) # {})
             \/ \E e \in Val :
                  Both({"storage"}, MemUpdateStorage(mem, c, e, enabled, on),
                       DbUpdateStorage(db, c, e, enabled, on),
                       e # c /\ ByCode(db, "storage", e) # {})
        \/ Both({"scene"}, MemDeleteScene(mem, c), DbDeleteScene(db, c), FALSE)
        \/ Both({"storage"}, MemDeleteStorage(mem, c), DbDeleteStorage(db, c),
                FALSE)
  BY Zenon DEF CatalogCalls
<1> QED BY <1>1, <1>2, <1>3, <1>4, <1>5, <1>6, <1>7

-----------------------------------------------------------------------------
(* The theorems.                                                           *)

\* Two new stores with the same seeds.
LEMMA StoresInit == Init => StoresInv
<1> SUFFICES ASSUME Init PROVE StoresInv
  OBVIOUS
<1> DEFINE X == area.seeded
           ll == [L \in LinkTable |-> [x \in Ids |-> <<>>]]
           dd == [L \in LinkTable |-> {}]
<1>1. /\ area \in Areas /\ said = "alike" /\ parted = FALSE
      /\ mem = NewStore(X, ll) /\ db = NewStore(X, dd)
  BY DEF Init, NewMemoryRepository, NewGormRepository
<1>2. /\ WithId(1, NewRow(1, 0, TRUE)) \in Row
      /\ WithId(1, NewRow(1, 0, TRUE)).id = 1
      /\ ~WithId(1, NewRow(1, 0, TRUE)).deleted
  BY BoundAssumption DEF WithId, NewRow, Row, Ids, Val
<1> DEFINE seed == WithId(1, NewRow(1, 0, TRUE))
<1>0. seed \in Row /\ seed.id = 1 /\ ~seed.deleted
  BY <1>2
<1> HIDE DEF seed, X, ll, dd
<1>3. /\ mem.tab = [K \in Table |-> IF K \in X THEN {seed} ELSE {}]
      /\ mem.next = [K \in Table |-> IF K \in X THEN 2 ELSE 1]
      /\ mem.link = ll /\ mem.changed = FALSE
  BY <1>1 DEF NewStore, seed
<1>4. /\ db.tab = mem.tab /\ db.next = mem.next
      /\ db.link = dd /\ db.changed = FALSE
  BY <1>1, <1>3 DEF NewStore, seed
<1>5. mem \in MemStore
  <2>1. /\ mem = [tab |-> mem.tab, next |-> mem.next, link |-> mem.link,
                  changed |-> mem.changed]
        /\ mem.tab \in [Table -> SUBSET Row]
        /\ mem.next \in [Table -> 1 .. MaxId + 1]
    <3>1. mem = [tab |-> mem.tab, next |-> mem.next, link |-> mem.link,
                 changed |-> mem.changed]
      BY <1>1 DEF NewStore
    <3>2. mem.tab \in [Table -> SUBSET Row]
      BY <1>3, <1>0
    <3>3. mem.next \in [Table -> 1 .. MaxId + 1]
      <4>1. 1 \in 1 .. MaxId + 1 /\ 2 \in 1 .. MaxId + 1
        BY BoundAssumption
      <4> QED BY <1>3, <4>1
    <3> QED BY <3>1, <3>2, <3>3
  <2>2. ll \in [LinkTable -> [Ids -> Seq(Ids)]]
    BY DEF ll
  <2> QED BY <1>3, <2>1, <2>2 DEF MemStore
<1>6. db \in DbStore
  <2>1. db = [tab |-> db.tab, next |-> db.next, link |-> db.link,
              changed |-> db.changed]
    BY <1>1 DEF NewStore
  <2>2. dd \in [LinkTable -> SUBSET (Ids \X Ids)]
    BY DEF dd
  <2>3. /\ db.tab \in [Table -> SUBSET Row]
        /\ db.next \in [Table -> 1 .. MaxId + 1]
    BY <1>4, <1>5 DEF MemStore
  <2> QED BY <1>4, <2>1, <2>2, <2>3 DEF DbStore
<1>7. \A K \in Table : \A r \in mem.tab[K] :
        r = seed /\ r.id < mem.next[K] /\ ~r.deleted
  <2> SUFFICES ASSUME NEW K \in Table, NEW r \in mem.tab[K]
               PROVE  r = seed /\ r.id < mem.next[K] /\ ~r.deleted
    OBVIOUS
  <2>1. K \in X /\ r = seed /\ mem.next[K] = 2
    BY <1>3
  <2> QED BY <1>0, <2>1
<1>8. Counts(mem) /\ Counts(db)
  BY <1>4, <1>7, TableNames DEF Counts
<1>9. \A L \in LinkTable, x \in Ids : Range(mem.link[L][x]) = {}
  BY <1>3 DEF ll, Range
<1>10. \A L \in LinkTable : db.link[L] = {}
  BY <1>4 DEF dd
<1>11. Fits(mem, db)
  BY <1>5, <1>6, <1>8, <1>9, <1>10 DEF Fits, MemFits, DbFits, MemLive, DbLive
<1>12. AlikeRows(mem, db)
  <2>1. mem.tab["dept"] = {x \in db.tab["dept"] : ~x.deleted}
    BY <1>4, <1>7, TableNames
  <2>2. \A K \in {"scene", "storage"} : \A r \in mem.tab[K] : r.id < db.next[K]
    BY <1>4, <1>7, TableNames
  <2> QED BY <1>3, <1>4, <2>1, <2>2 DEF AlikeRows
<1>13. AlikeLinks(mem, db)
  BY <1>9, <1>10 DEF AlikeLinks, Names, Linked
<1> QED BY <1>1, <1>11, <1>12, <1>13 DEF StoresInv, Alike

\* And every step.
LEMMA StoresStep == StoresInv /\ [Next]_vars => StoresInv'
<1> SUFFICES ASSUME StoresInv, [Next]_vars PROVE StoresInv'
  OBVIOUS
<1>1. CASE UNCHANGED vars
  <2>1. /\ mem' = mem
        /\ db' = db
        /\ said' = said
        /\ parted' = parted
        /\ area' = area
    BY <1>1 DEF vars
  <2>2. (Fits(mem, db))' /\ (~parted' => (Alike(mem, db))')
    BY <2>1 DEF StoresInv
  <2> QED BY <2>1, <2>2 DEF StoresInv
<1>2. CASE AdminNext
  BY <1>2, UserCallsKeep, RoleCallsKeep, TreeCallsKeep, DataCallsKeep,
     PluginCallsKeep, LogCallsKeep DEF AdminNext
<1>3. CASE PluginsNext
  BY <1>3, DictCallsKeep, ConfigCallsKeep, NoticeCallsKeep, TaskCallsKeep,
     CatalogCallsKeep DEF PluginsNext
<1> QED BY <1>1, <1>2, <1>3 DEF Next

\* Whatever calls are made, in any order and with any lists and ids, both
\* stores stay in order, and alike until a call parts them.
THEOREM StoresHold == Spec => []StoresInv
<1> QED BY StoresInit, StoresStep, PTL DEF Spec

\* What a list of the memory names is what the pairs name; of the rules, what
\* is still there.
LEMMA LinksSame ==
  ASSUME NEW m, NEW d, Ready(m, d), NEW L \in LinkTable, NEW x \in Ids
  PROVE  /\ L # "scopeRule" => Range(m.link[L][x]) = Linked(d, L, x)
         /\ Linked(d, L, x) = {y \in Range(m.link[L][x]) : Has(m, To[L], y)}
<1>1. AlikeLinks(m, d) /\ MemLive(m)
  BY ReadyStores DEF MemFits
<1> QED BY <1>1 DEF AlikeLinks, Names, MemLive

\* Stores that are ready read alike, for the admin plugin
LEMMA ReadyAdminReads == Ready(mem, db) => SameAdminReads
<1> SUFFICES ASSUME Ready(mem, db) PROVE SameAdminReads
  OBVIOUS
<1>0. AlikeRows(mem, db) /\ Alike(mem, db) /\ Counts(mem)
  BY ReadyStores DEF MemFits
<1>1. \A K \in Plain : mem.tab[K] = db.tab[K]
  BY <1>0 DEF AlikeRows
<1>2. /\ mem.tab["user"] = db.tab["user"] /\ mem.tab["role"] = db.tab["role"]
      /\ mem.tab["menu"] = db.tab["menu"] /\ mem.tab["rule"] = db.tab["rule"]
      /\ mem.tab["scope"] = db.tab["scope"]
      /\ mem.tab["plugin"] = db.tab["plugin"]
      /\ mem.tab["loginLog"] = db.tab["loginLog"]
      /\ mem.tab["operaLog"] = db.tab["operaLog"]
      /\ mem.tab["session"] = db.tab["session"]
      /\ mem.tab["history"] = db.tab["history"]
  BY <1>1 DEF Plain, Table
<1>3. mem.changed = db.changed
      /\ mem.tab["dept"] = {x \in db.tab["dept"] : ~x.deleted}
  BY <1>0 DEF AlikeRows
<1>4. /\ MemUsers(mem) = DbUsers(db) /\ MemRoles(mem) = DbRoles(db)
      /\ MemMenus(mem) = DbMenus(db) /\ MemDepts(mem) = DbDepts(db)
      /\ MemDataRules(mem) = DbDataRules(db)
      /\ MemDataScopes(mem) = DbDataScopes(db)
      /\ MemPlugins(mem) = DbPlugins(db)
      /\ MemLoginLogs(mem) = DbLoginLogs(db)
      /\ MemOperaLogs(mem) = DbOperaLogs(db)
      /\ MemSessions(mem) = DbSessions(db)
  BY <1>2, <1>3 DEF MemUsers, DbUsers, MemRoles, DbRoles, MemMenus, DbMenus,
     MemDepts, DbDepts, MemDataRules, DbDataRules, MemDataScopes, DbDataScopes,
     MemPlugins, DbPlugins, MemLoginLogs, DbLoginLogs, MemOperaLogs,
     DbOperaLogs, MemSessions, DbSessions
<1>5. ASSUME NEW id \in Ids
      PROVE  /\ MemHistories(mem, id) = DbHistories(db, id)
             /\ MemMenuHasChildren(mem, id) = DbMenuHasChildren(db, id)
             /\ MemDeptHasChildren(mem, id) = DbDeptHasChildren(db, id)
             /\ MemDeptHasUsers(mem, id) = DbDeptHasUsers(db, id)
  BY <1>2, <1>3 DEF MemHistories, DbHistories, MemMenuHasChildren,
     DbMenuHasChildren, MemDeptHasChildren, DbDeptHasChildren, MemDeptHasUsers,
     DbDeptHasUsers
<1>6. ASSUME NEW id \in Ids
      PROVE  /\ MemRoleMenus(mem, id) = DbRoleMenus(db, id)
             /\ MemRoleScopes(mem, id) = DbRoleScopes(db, id)
  <2>1. /\ Range(mem.link["roleMenu"][id]) = Linked(db, "roleMenu", id)
        /\ Range(mem.link["roleScope"][id]) = Linked(db, "roleScope", id)
    BY LinkEnds, LinksSame
  <2>2. MemHas(mem, "role", id) = Has(db, "role", id)
    BY <1>2 DEF MemHas, Has, Find
  <2>3. /\ MemByIDs(mem, "menu", mem.link["roleMenu"][id])
             = DbByIDs(db, "menu", Linked(db, "roleMenu", id))
        /\ MemByIDs(mem, "scope", mem.link["roleScope"][id])
             = DbByIDs(db, "scope", Linked(db, "roleScope", id))
    BY <1>2, <2>1 DEF MemByIDs, DbByIDs
  <2> QED BY <2>1, <2>2, <2>3 DEF MemRoleMenus, DbRoleMenus, MemRoleScopes,
             DbRoleScopes
<1>7. ASSUME NEW id \in Ids
      PROVE  MemUserRoles(mem, id) = DbUserRoles(db, id)
  <2>1. Range(mem.link["userRole"][id]) = Linked(db, "userRole", id)
    BY LinkEnds, LinksSame
  <2>2. MemHas(mem, "user", id) = Has(db, "user", id)
    BY <1>2 DEF MemHas, Has, Find
  <2>3. MemByIDs(mem, "role", mem.link["userRole"][id])
          = DbByIDs(db, "role", Linked(db, "userRole", id))
    BY <1>2, <2>1 DEF MemByIDs, DbByIDs
  <2> QED BY <2>2, <2>3 DEF MemUserRoles, DbUserRoles
<1>8. ASSUME NEW id \in Ids
      PROVE  MemDataScopeRules(mem, id) = DbDataScopeRules(db, id)
  <2>1. Linked(db, "scopeRule", id)
          = {y \in Range(mem.link["scopeRule"][id]) : Has(mem, "rule", y)}
    BY LinkEnds, LinksSame
  <2>2. \A r \in mem.tab["rule"] : Has(mem, "rule", r.id)
    BY <1>0, HasIs DEF Counts
  <2>3. MemByIDs(mem, "rule", mem.link["scopeRule"][id])
          = DbByIDs(db, "rule", Linked(db, "scopeRule", id))
    BY <1>2, <2>1, <2>2 DEF MemByIDs, DbByIDs
  <2>4. MemHas(mem, "scope", id) = Has(db, "scope", id)
    BY <1>2 DEF MemHas, Has, Find
  <2> QED BY <2>3, <2>4 DEF MemDataScopeRules, DbDataScopeRules
<1> QED BY <1>4, <1>5, <1>6, <1>7, <1>8 DEF SameAdminReads

\* and for the others.
LEMMA ReadyPluginReads == Ready(mem, db) => SamePluginReads
<1> SUFFICES ASSUME Ready(mem, db) PROVE SamePluginReads
  OBVIOUS
<1>0. AlikeRows(mem, db)
  BY ReadyStores
<1>1. \A K \in Plain : mem.tab[K] = db.tab[K]
  BY <1>0 DEF AlikeRows
<1>2. /\ mem.tab["config"] = db.tab["config"]
      /\ mem.tab["notice"] = db.tab["notice"]
      /\ mem.tab["scheduler"] = db.tab["scheduler"]
      /\ mem.tab["result"] = db.tab["result"]
  BY <1>1 DEF Plain, Table
<1>3. /\ mem.tab["dictType"] = db.tab["dictType"]
      /\ mem.tab["dictData"] = db.tab["dictData"]
      /\ Coded(mem.tab["scene"]) = Coded(db.tab["scene"])
      /\ Coded(mem.tab["storage"]) = Coded(db.tab["storage"])
  BY <1>0 DEF AlikeRows
<1>4. /\ MemTypes(mem) = DbTypes(db) /\ MemData(mem) = DbData(db)
      /\ \A v \in Val : MemDataByTypeCode(mem, v) = DbDataByTypeCode(db, v)
      /\ MemConfigs(mem) = DbConfigs(db) /\ MemNotices(mem) = DbNotices(db)
      /\ MemSchedulers(mem) = DbSchedulers(db)
      /\ MemResults(mem) = DbResults(db)
  BY <1>2, <1>3 DEF MemTypes, DbTypes, MemData, DbData, MemDataByTypeCode,
     DbDataByTypeCode, MemConfigs, DbConfigs, MemNotices, DbNotices,
     MemSchedulers, DbSchedulers, MemResults, DbResults
<1>5. /\ MemScenes(mem) = DbScenes(db) /\ MemStorages(mem) = DbStorages(db)
      /\ MemDefaultStorages(mem) = DbDefaultStorages(db)
  BY <1>3 DEF MemScenes, DbScenes, MemStorages, DbStorages,
     MemDefaultStorages, DbDefaultStorages
<1>6. \A st \in Val : MemScenesOf(mem, st) = {} <=> DbScenesOf(db, st) = {}
  <2>1. /\ Mirrors(mem.tab["scene"], db.tab["scene"])
        /\ Mirrors(db.tab["scene"], mem.tab["scene"])
    BY <1>3, CodedMirrors
  <2> QED BY <2>1 DEF Mirrors, MemScenesOf, DbScenesOf
<1> QED BY <1>4, <1>5, <1>6 DEF SamePluginReads

\* SameAnswers: memory and database answer every call alike but for the known
\* differences, so what a test sees of the memory the database would say too.
THEOREM AnswersAlike == Spec => []SameAnswers
<1>1. StoresInv => SameAnswers
  BY DEF StoresInv, SameAnswers
<1> QED BY <1>1, StoresHold, PTL

\* SameReads: until a call that is known to differ has changed a store, every
\* read of every plugin gives the same in both.
THEOREM ReadsAlike == Spec => []SameReads
<1>1. StoresInv => SameReads
  <2>1. ~parted /\ StoresInv => Ready(mem, db)
    BY DEF StoresInv, Ready
  <2> QED BY <2>1, ReadyAdminReads, ReadyPluginReads DEF SameReads
<1> QED BY <1>1, StoresHold, PTL

\* LinksAreLive: no link is left behind by a deletion in either store, but for
\* those of the memory to rules, whose ids are never given again.
THEOREM LinksLive == Spec => []LinksAreLive
<1>1. ASSUME StoresInv PROVE LinksAreLive
  <2>1. MemLive(mem) /\ DbLive(db) /\ mem \in MemStore
    BY <1>1 DEF StoresInv, Fits, MemFits, DbFits
  <2>2. ASSUME NEW L \in LinkTable
        PROVE  /\ \A l \in db.link[L] : Has(db, From[L], l[1]) /\ Has(db, To[L], l[2])
               /\ \A x \in Ids : mem.link[L][x] # <<>> => Has(mem, From[L], x)
               /\ \A x \in Ids : \A y \in Range(mem.link[L][x]) :
                    Has(mem, To[L], y)
                    \/ (To[L] = "rule" /\ y < mem.next["rule"])
    <3>1. \A l \in db.link[L] : Has(db, From[L], l[1]) /\ Has(db, To[L], l[2])
      BY <2>1 DEF DbLive
    <3>2. ASSUME NEW x \in Ids, mem.link[L][x] # <<>>
          PROVE  Has(mem, From[L], x)
      <4>1. mem.link[L][x] \in Seq(Ids)
        BY <2>1 DEF MemStore
      <4>2. 1 \in DOMAIN mem.link[L][x]
        BY <3>2, <4>1
      <4>3. mem.link[L][x][1] \in Range(mem.link[L][x])
        BY <4>2 DEF Range
      <4> QED BY <2>1, <4>3 DEF MemLive
    <3>3. ASSUME NEW x \in Ids, NEW y \in Range(mem.link[L][x])
          PROVE  Has(mem, To[L], y) \/ (To[L] = "rule" /\ y < mem.next["rule"])
      <4>1. Has(mem, To[L], y) \/ (L = "scopeRule" /\ y < mem.next["rule"])
        BY <2>1 DEF MemLive
      <4> QED BY <4>1, LinkEnds
    <3> QED BY <3>1, <3>2, <3>3
  <2>3. \A p \in {<<"userRole", "user", "role">>, <<"roleMenu", "role", "menu">>,
                  <<"roleScope", "role", "scope">>,
                  <<"scopeRule", "scope", "rule">>} :
          p[1] \in LinkTable /\ p[2] = From[p[1]] /\ p[3] = To[p[1]]
    BY DEF LinkTable, From, To
  <2> QED BY <2>2, <2>3 DEF LinksAreLive
<1> QED BY <1>1, StoresHold, PTL

\* And every store has its type.
THEOREM RepositoriesTypeOK == Spec => []TypeOK
<1>1. StoresInv => TypeOK
  BY DEF StoresInv, TypeOK, Fits, MemFits, DbFits, MemStore, DbStore
<1> QED BY <1>1, StoresHold, PTL
===============================================================================
