----------------------------- MODULE Repositories -----------------------------
(***************************************************************************)
(* The repositories of all the plugins, in memory and in the database, one *)
(* call at a time to both.  The tests of the services run over the memory, *)
(* so what they show holds of the database as far as the two are alike.    *)
(***************************************************************************)
EXTENDS AdminRepository, PluginRepositories

Next == AdminNext \/ PluginsNext

Spec == Init /\ [][Next]_vars

-----------------------------------------------------------------------------
TypeOK ==
  /\ area \in Areas
  /\ \A K \in Table :
       /\ mem.tab[K] \subseteq Row /\ mem.next[K] \in 1 .. MaxId + 1
       /\ db.tab[K] \subseteq Row /\ db.next[K] \in 1 .. MaxId + 1
  /\ \A L \in LinkTable, x \in Ids : mem.link[L][x] \in Seq(Ids)
  /\ \A L \in LinkTable : db.link[L] \subseteq Ids \X Ids
  /\ said \in {"alike", "odd", "different"}
  /\ parted \in BOOLEAN

\* Both answer every call alike, whatever calls came before, but for these:
\* nothing to delete, an id given twice to a list that is not sifted, a
\* history for a user who is not there, a name or key or code the database
\* holds unique, a batch that fails, and a dictionary's ids.
SameAnswers == said # "different"

\* And every read gives the same in both until such a call has changed one.
SameReads == parted \/ (SameAdminReads /\ SamePluginReads)

\* What a link names is there, on both sides, but for the rules in memory,
\* which stay in the lists of the scopes; as no id is given twice they never
\* name another rule.
LinksAreLive ==
  \A p \in {<<"userRole", "user", "role">>,
            <<"roleMenu", "role", "menu">>,
            <<"roleScope", "role", "scope">>,
            <<"scopeRule", "scope", "rule">>} :
    LET L == p[1]  K == p[2]  T == p[3] IN
    /\ \A l \in db.link[L] : Has(db, K, l[1]) /\ Has(db, T, l[2])
    /\ \A x \in Ids : mem.link[L][x] # <<>> => Has(mem, K, x)
    /\ \A x \in Ids : \A y \in Range(mem.link[L][x]) :
         Has(mem, T, y) \/ (T = "rule" /\ y < mem.next["rule"])
=============================================================================
