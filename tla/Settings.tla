------------------------------- MODULE Settings -------------------------------
(***************************************************************************)
(* The services of the configuration and of the dictionary                 *)
(* (internal/app/config/service/service.go and                             *)
(* internal/app/dict/service/service.go) over their repositories, in       *)
(* memory or in the database.                                              *)
(*                                                                         *)
(* The configuration looks whether a key is in use, then writes; the       *)
(* dictionary's data keep a copy of the code of their type.                *)
(***************************************************************************)
EXTENDS Naturals, Sequences, FiniteSets

CONSTANTS
  Key,            \* keys of configurations
  NoneYet,        \* not a code
  Code,           \* codes of dictionary types
  SettingRequest, \* request handlers that may run at the same time
  MaxSettings,    \* bound: rows of each table created over time
  MaxEdits        \* bound: requests over time

ASSUME SettingAssumption == MaxSettings \in Nat \ {0} /\ MaxEdits \in Nat

VARIABLES
  subject,   \* which service and repository it is, from the start
  configs,   \* configurations that are not deleted
  types,     \* dictionary types
  entries,   \* dictionary data
  given,     \* the last id given in each table
  setting,   \* where each handler is, with its local variables
  edits,     \* requests so far
  contended, \* history: two requests that write keys have overlapped
  behind     \* history: data written before their type's code was changed, or
             \* while it was

settingVars == <<subject, configs, types, entries, given, setting, edits,
                 contended, behind>>

-----------------------------------------------------------------------------
\* Only the database has an index on keys.
Subject  == {"configsInMemory", "configsInDatabase", "dictionary"}
inMemory == subject = "configsInMemory"

RowId  == 1 .. MaxSettings
Config == [id: RowId, key: Key]
Type   == [id: RowId, code: Code]
Entry  == [id: RowId, type: RowId, code: Code]

Param         == [id: RowId, key: Key]
SettingIdle   == [pc |-> "idle"]
SettingHandler ==
  [pc: {"createKey", "insert"}, key: Key]
    \cup [pc: {"updateKeys", "update"}, params: Seq(Param), next: Nat]
    \cup [pc: {"typeOf", "writeData"}, id: 0 .. MaxSettings, type: RowId,
          code: Code \cup {NoneYet}, late: BOOLEAN]

SettingAt(q, pc)  == setting[q].pc = pc
SettingReturn(q)  == setting' = [setting EXCEPT ![q] = SettingIdle]
SettingStart(q, h) ==
  /\ setting[q] = SettingIdle
  /\ edits < MaxEdits
  /\ edits' = edits + 1
  /\ setting' = [setting EXCEPT ![q] = h]
\* A request of one step.
SettingOnce(q) ==
  /\ setting[q] = SettingIdle
  /\ edits < MaxEdits
  /\ edits' = edits + 1
  /\ UNCHANGED setting

New(table) == given[table] + 1
Gives(table) ==
  /\ given[table] < MaxSettings
  /\ given' = [given EXCEPT ![table] = @ + 1]

WritesKeys(h) == h.pc \in {"createKey", "insert", "updateKeys", "update"}

SettingInit ==
  /\ subject \in Subject
  /\ configs = {} /\ types = {} /\ entries = {}
  /\ given = [table \in {"config", "type", "data"} |-> 0]
  /\ setting = [q \in SettingRequest |-> SettingIdle]
  /\ edits = 0
  /\ contended = FALSE /\ behind = {}

-----------------------------------------------------------------------------
(* Configuration.                                                          *)

ByKey(key) == {c \in configs : c.key = key}

\* Mutant: only a new configuration is looked for.
EnsureKeyAvailableOnce(id, key) == id = 0 => ByKey(key) = {}

\* The first row with the key, if there is one, is the row itself.
EnsureKeyAvailable(id, key) ==
  \A c \in ByKey(key) : (\A d \in ByKey(key) : c.id <= d.id) => c.id = id

\* The index of the database on key and deleted.
Admits(S) == inMemory \/ \A c, d \in S : c.key = d.key => c.id = d.id

BeginConfig(q) ==
  /\ \/ \E key \in Key :
          SettingStart(q, [pc |-> "createKey", key |-> key])
     \/ \E n \in 1 .. 2 : \E ps \in [1 .. n -> Param] :
          SettingStart(q, [pc |-> "updateKeys", params |-> ps, next |-> 1])
  /\ UNCHANGED <<configs, types, entries, given, behind>>

CreateKey(q) ==
  /\ SettingAt(q, "createKey")
  /\ IF EnsureKeyAvailable(0, setting[q].key)
     THEN setting' = [setting EXCEPT ![q].pc = "insert"]
     ELSE SettingReturn(q)
  /\ UNCHANGED <<configs, types, entries, given, edits, behind>>

InsertConfig(q) ==
  LET c == [id |-> New("config"), key |-> setting[q].key] IN
  /\ SettingAt(q, "insert")
  /\ IF Admits(configs \cup {c})
     THEN configs' = configs \cup {c} /\ Gives("config")
     ELSE UNCHANGED <<configs, given>>
  /\ SettingReturn(q)
  /\ UNCHANGED <<types, entries, edits, behind>>

\* seenKeys.
Unseen(ps, n) ==
  \A i \in 1 .. n - 1 : ps[i].key = ps[n].key => ps[i].id = ps[n].id

\* An update is a batch of one.  Row and key are looked up for each.
UpdateKeys(q) ==
  LET ps == setting[q].params  n == setting[q].next IN
  /\ SettingAt(q, "updateKeys")
  /\ IF n > Len(ps) THEN setting' = [setting EXCEPT ![q].pc = "update"]
     ELSE IF /\ \E c \in configs : c.id = ps[n].id
             /\ Unseen(ps, n)
             /\ EnsureKeyAvailable(ps[n].id, ps[n].key)
     THEN setting' = [setting EXCEPT ![q].next = n + 1]
     ELSE SettingReturn(q)
  /\ UNCHANGED <<configs, types, entries, given, edits, behind>>

\* The batch up to its n-th row; "ok" says that no row was missing or refused.
After(ps) ==
  LET upTo[n \in 0 .. Len(ps)] ==
        IF n = 0 THEN [ok |-> TRUE, rows |-> configs]
        ELSE LET b == upTo[n - 1]
                 written ==
                   {IF c.id = ps[n].id THEN ps[n] ELSE c : c \in b.rows}
             IN  IF /\ b.ok
                    /\ \E c \in b.rows : c.id = ps[n].id
                    /\ Admits(written)
                 THEN [ok |-> TRUE, rows |-> written]
                 ELSE [b EXCEPT !.ok = FALSE]
  IN  upTo[Len(ps)]

\* In memory the rows before the one that fails stay written.
UpdateConfigs(q) ==
  LET b == After(setting[q].params) IN
  /\ SettingAt(q, "update")
  /\ configs' = IF b.ok \/ inMemory THEN b.rows ELSE configs
  /\ SettingReturn(q)
  /\ UNCHANGED <<types, entries, given, edits, behind>>

DeleteConfigs(q) ==
  \E S \in SUBSET RowId :
    /\ SettingOnce(q)
    /\ configs' = {c \in configs : c.id \notin S}
    /\ UNCHANGED <<types, entries, given, behind>>

-----------------------------------------------------------------------------
(* Dictionary.  What follows every write, that others are told to forget   *)
(* what they keep, changes nothing here.                                   *)

CodesOf(type) == {t.code : t \in {u \in types : u.id = type}}
Entries(T)    == {d.id : d \in {e \in entries : e.type \in T}}

\* Who has read the code of a type that is changed writes it late.
Late(T) ==
  [q \in SettingRequest |->
     IF SettingAt(q, "writeData") /\ setting[q].type \in T
     THEN [setting[q] EXCEPT !.late = TRUE] ELSE setting[q]]

CreateType(q) ==
  \E code \in Code :
    /\ SettingOnce(q)
    /\ types' = types \cup {[id |-> New("type"), code |-> code]}
    /\ Gives("type")
    /\ UNCHANGED <<configs, entries, behind>>

EditTypes(q, T) ==
  /\ setting[q] = SettingIdle
  /\ edits < MaxEdits
  /\ edits' = edits + 1
  /\ setting' = Late(T)
  /\ behind' = behind \cup Entries(T)
  /\ UNCHANGED <<configs, entries, given>>

\* The data of the type keep the code they have.
UpdateType(q) ==
  \E t \in types, code \in Code :
    /\ EditTypes(q, {t.id})
    /\ types' = (types \ {t}) \cup {[t EXCEPT !.code = code]}

\* The data of the type stay.
DeleteTypes(q) ==
  \E T \in SUBSET {t.id : t \in types} :
    /\ EditTypes(q, T)
    /\ types' = {t \in types : t.id \notin T}

\* Id 0 is a new entry.
BeginData(q) ==
  \E id \in {0} \cup {d.id : d \in entries}, type \in RowId :
    /\ SettingStart(q, [pc |-> "typeOf", id |-> id, type |-> type,
                        code |-> NoneYet, late |-> FALSE])
    /\ UNCHANGED <<configs, types, entries, given, behind>>

\* In memory the code is read and written under one lock.
TypeOf(q) ==
  /\ SettingAt(q, "typeOf")
  /\ \/ CodesOf(setting[q].type) = {} /\ SettingReturn(q)
     \/ \E code \in CodesOf(setting[q].type) :
          setting' = [setting EXCEPT ![q].pc = "writeData", ![q].code = code]
  /\ UNCHANGED <<configs, types, entries, given, edits, behind>>

\* Mutant: an update writes the type, and leaves the code.
DataOfTypeOnly(h, id) ==
  [id |-> id, type |-> h.type,
   code |-> IF h.id = 0 THEN h.code
            ELSE (CHOOSE d \in entries : d.id = id).code]

\* The type and its code, as read.
DataOf(h, id) == [id |-> id, type |-> h.type, code |-> h.code]

WriteData(q) ==
  LET h == setting[q]
      id == IF h.id = 0 THEN New("data") ELSE h.id
      Later == IF h.late THEN behind \cup {id} ELSE behind \ {id}
  IN
  /\ SettingAt(q, "writeData")
  /\ \/ h.id = 0 /\ Gives("data")
        /\ entries' = entries \cup {DataOf(h, id)} /\ behind' = Later
     \/ /\ h.id \in {d.id : d \in entries}
        /\ entries' = {IF d.id = id THEN DataOf(h, id) ELSE d : d \in entries}
        /\ behind' = Later /\ UNCHANGED given
     \/ /\ h.id \notin {0} \cup {d.id : d \in entries}
        /\ UNCHANGED <<entries, given, behind>>
  /\ SettingReturn(q)
  /\ UNCHANGED <<configs, types, edits>>

DeleteData(q) ==
  \E d \in entries :
    /\ SettingOnce(q)
    /\ entries' = entries \ {d}
    /\ UNCHANGED <<configs, types, given, behind>>

-----------------------------------------------------------------------------
ConfigStep(q) ==
  BeginConfig(q) \/ CreateKey(q) \/ InsertConfig(q) \/ UpdateKeys(q)
    \/ UpdateConfigs(q) \/ DeleteConfigs(q)
DictStep(q) ==
  CreateType(q) \/ UpdateType(q) \/ DeleteTypes(q) \/ BeginData(q)
    \/ TypeOf(q) \/ WriteData(q) \/ DeleteData(q)

Contention ==
  \E q, p \in SettingRequest :
    q # p /\ WritesKeys(setting[q]) /\ WritesKeys(setting[p])

SettingNext ==
  /\ \E q \in SettingRequest :
       \/ subject # "dictionary" /\ ConfigStep(q)
       \/ subject = "dictionary" /\ DictStep(q)
  /\ contended' = (contended \/ Contention')
  /\ UNCHANGED subject

-----------------------------------------------------------------------------
SettingTypeOK ==
  /\ subject \in Subject
  /\ configs \subseteq Config /\ types \subseteq Type
  /\ entries \subseteq Entry
  /\ given \in [{"config", "type", "data"} -> 0 .. MaxSettings]
  /\ \A q \in SettingRequest :
       setting[q] = SettingIdle \/ setting[q] \in SettingHandler
  /\ edits \in 0 .. MaxEdits
  /\ contended \in BOOLEAN /\ behind \subseteq RowId

\* No two configurations have one key, so a sign-in reads one value for it:
\* in the database whatever happens, in memory unless two requests that
\* write keys have overlapped.
KeysAreUnique ==
  \/ \A c, d \in configs : c.key = d.key => c = d
  \/ inMemory /\ contended

\* Data are found under the code of their type, unless the type was changed
\* or deleted after they were written, or while they were.
DataFollowTheirType ==
  \A d \in entries :
    d.id \in behind \/ [id |-> d.type, code |-> d.code] \in types
=============================================================================
