----------------------------- MODULE QueueStore -----------------------------
(***************************************************************************)
(* Where the daemon keeps its queues: JSONL files or a SQLite database.    *)
(* createQueueStore takes SQLite when better-sqlite3 loads, importing the  *)
(* JSONL files once, and falls back to the files when it does not; every   *)
(* start then merges the active rows of CHECKBACK.jsonl into the store.    *)
(* The import is several transactions, and the daemon can die between them.*)
(***************************************************************************)
EXTENDS Naturals, FiniteSets

CONSTANTS
    PRow,           \* rows of the peer queue
    Held,           \* those posted with a notBefore in the future
    Cb,             \* check-backs
    MaxBreaks,      \* bound on the times better-sqlite3 stops loading
    MaxStoreFaults  \* bound on deaths of the daemon and on failing imports

ASSUME StoreAssumption ==
    /\ Held \subseteq PRow
    /\ MaxBreaks \in Nat /\ MaxStoreFaults \in Nat

VARIABLES
    backend,      \* "off", the step of an import, "jsonl" or "sqlite"
    native,       \* better-sqlite3 loads, and opens the database
    file, table,  \* the peer rows in PEER.jsonl and in the peer table
    fileCb, tableCb, \* the check-backs in CHECKBACK.jsonl and in the table
    marked,       \* meta.migrated_from_jsonl is set
    due,          \* held rows whose hour has come
    queued,       \* history: rows a sender was told are queued
    pasted,       \* history: how often each row was pasted
    breaks, storeFaults  \* what MaxBreaks and MaxStoreFaults bound

storeVars == <<backend, native, file, table, fileCb, tableCb, marked, due,
               queued, pasted, breaks, storeFaults>>

Import == <<"peers", "checks", "mark">>
ImportStep == {Import[i] : i \in DOMAIN Import}

(* The files exist once a daemon without SQLite has written a row.         *)
HasFiles ==
    \/ \E r \in PRow : file[r] # "none"
    \/ \E c \in Cb : fileCb[c] # "none"

(* The rows of the store that is open.                                     *)
Rows == IF backend = "jsonl" THEN file ELSE table

StoreInit ==
    /\ backend = "off" /\ native \in BOOLEAN /\ marked = FALSE
    /\ file = [r \in PRow |-> "none"] /\ table = file
    /\ fileCb = [c \in Cb |-> "none"] /\ tableCb = fileCb
    /\ due = {} /\ queued = {} /\ pasted = [r \in PRow |-> 0]
    /\ breaks = 0 /\ storeFaults = 0

(***************************************************************************)
(* A start of the daemon.                                                  *)
(***************************************************************************)
(* reconcileCheckbacksFromJsonl: active in the file, not active in the     *)
(* store: made active there.                                               *)
Reconciled(cbs) ==
    [c \in Cb |-> IF fileCb[c] = "active" THEN "active" ELSE cbs[c]]

OpenSqlite(cbs) ==
    /\ backend' = "sqlite" /\ tableCb' = Reconciled(cbs)

NeedsImport == ~marked /\ HasFiles

Start ==
    /\ backend = "off"
    /\ \/ /\ native /\ NeedsImport
          /\ backend' = Import[1] /\ UNCHANGED tableCb
       \/ native /\ ~NeedsImport /\ OpenSqlite(tableCb)
       \/ ~native /\ backend' = "jsonl" /\ UNCHANGED tableCb
    /\ UNCHANGED <<native, file, table, fileCb, marked, due, queued, pasted,
                   breaks, storeFaults>>

(* Mutated form of Imported, for PostedKept: rows already there are left alone.  *)
ImportedOnce(rows, old) == IF \E k \in DOMAIN old : old[k] # "none"
                           THEN old ELSE rows

(* Mutated form of Imported, for StorePastesOnce: every row comes unsent.  *)
ImportedUnsent(rows, old) ==
    [k \in DOMAIN rows |-> IF rows[k] = "sent" THEN "pending" ELSE rows[k]]

(* writePeer and writeCheckbacks replace the whole table, each in one      *)
(* transaction, and only when the file holds a row.                        *)
Imported(rows, old) == IF \E k \in DOMAIN rows : rows[k] # "none"
                       THEN rows ELSE old

ImportPeers ==
    /\ backend = "peers"
    /\ table' = Imported(file, table) /\ backend' = "checks"
    /\ UNCHANGED <<tableCb, marked>>

ImportChecks ==
    /\ backend = "checks"
    /\ tableCb' = Imported(fileCb, tableCb) /\ backend' = "mark"
    /\ UNCHANGED <<table, marked>>

SetMeta ==
    /\ backend = "mark"
    /\ marked' = TRUE /\ OpenSqlite(tableCb)
    /\ UNCHANGED table

ImportNext ==
    /\ ImportPeers \/ ImportChecks \/ SetMeta
    /\ UNCHANGED <<native, file, fileCb, due, queued, pasted, breaks,
                   storeFaults>>

(* A statement of the import throws: createQueueStore opens the files.     *)
ImportFails ==
    /\ backend \in ImportStep /\ storeFaults < MaxStoreFaults
    /\ backend' = "jsonl" /\ storeFaults' = storeFaults + 1
    /\ UNCHANGED <<native, file, table, fileCb, tableCb, marked, due, queued,
                   pasted, breaks>>

StoreDies ==
    /\ backend # "off" /\ storeFaults < MaxStoreFaults
    /\ backend' = "off" /\ storeFaults' = storeFaults + 1
    /\ UNCHANGED <<native, file, table, fileCb, tableCb, marked, due, queued,
                   pasted, breaks>>

(* The native module is built, or stops matching the node it runs under.   *)
NativeChanges ==
    /\ \/ ~native /\ UNCHANGED breaks
       \/ native /\ breaks < MaxBreaks /\ breaks' = breaks + 1
    /\ native' = ~native
    /\ UNCHANGED <<backend, file, table, fileCb, tableCb, marked, due, queued,
                   pasted, storeFaults>>

(***************************************************************************)
(* What the daemon does with the store that is open.                       *)
(***************************************************************************)
Put(r, s) ==
    \/ backend = "jsonl" /\ file' = [file EXCEPT ![r] = s] /\ UNCHANGED table
    \/ backend = "sqlite" /\ table' = [table EXCEPT ![r] = s] /\ UNCHANGED file

PostRow(r) ==
    /\ r \notin queued
    /\ Put(r, "pending") /\ queued' = queued \cup {r}
    /\ UNCHANGED <<backend, native, fileCb, tableCb, marked, due, pasted,
                   breaks, storeFaults>>

HourComes(r) ==
    /\ r \in (Held \cap queued) \ due /\ due' = due \cup {r}
    /\ UNCHANGED <<backend, native, file, table, fileCb, tableCb, marked,
                   queued, pasted, breaks, storeFaults>>

(* pendingPeerRows keeps a row back while its notBefore lies ahead: the    *)
(* file has the field, the peer table has no column for it.                *)
KeptBack(r) == backend = "jsonl" /\ r \in Held \ due

Drain(r) ==
    /\ backend \in {"jsonl", "sqlite"}
    /\ Rows[r] = "pending" /\ ~KeptBack(r)
    /\ Put(r, "sent") /\ pasted' = [pasted EXCEPT ![r] = @ + 1]
    /\ UNCHANGED <<backend, native, fileCb, tableCb, marked, due, queued,
                   breaks, storeFaults>>

(* A check-back is armed, or cancelled while it is active.                 *)
SetCb(c, from, to) ==
    /\ \/ /\ backend = "jsonl" /\ fileCb[c] = from
          /\ fileCb' = [fileCb EXCEPT ![c] = to] /\ UNCHANGED tableCb
       \/ /\ backend = "sqlite" /\ tableCb[c] = from
          /\ tableCb' = [tableCb EXCEPT ![c] = to] /\ UNCHANGED fileCb
    /\ UNCHANGED <<backend, native, file, table, marked, due, queued, pasted,
                   breaks, storeFaults>>

Arm(c) == SetCb(c, "none", "active")
CancelCb(c) == SetCb(c, "active", "cancelled")

StoreNext ==
    \/ Start \/ ImportNext \/ ImportFails \/ StoreDies \/ NativeChanges
    \/ \E r \in PRow : PostRow(r) \/ HourComes(r) \/ Drain(r)
    \/ \E c \in Cb : Arm(c) \/ CancelCb(c)

StoreSpec == StoreInit /\ [][StoreNext]_storeVars

(***************************************************************************)
(* Properties.                                                             *)
(***************************************************************************)
RowState == {"none", "pending", "sent"}
CbState == {"none", "active", "cancelled"}

(* The type invariant of the store.                                        *)
StoreTypeOK ==
    /\ backend \in {"off", "jsonl", "sqlite"} \cup ImportStep
    /\ native \in BOOLEAN /\ marked \in BOOLEAN
    /\ file \in [PRow -> RowState] /\ table \in [PRow -> RowState]
    /\ fileCb \in [Cb -> CbState] /\ tableCb \in [Cb -> CbState]
    /\ due \subseteq Held /\ queued \subseteq PRow
    /\ pasted \in [PRow -> Nat] /\ breaks \in Nat /\ storeFaults \in Nat

(* While better-sqlite3 keeps loading once it does (MaxBreaks = 0), every  *)
(* row a sender was told is queued is in the store that is open, whatever  *)
(* step the daemon died or failed at on the way from the files to SQLite.  *)
PostedKept ==
    backend \in {"jsonl", "sqlite"} => \A r \in queued : Rows[r] # "none"

(* And no row is pasted twice on that way: an import that is repeated      *)
(* brings over what was sent in between as sent.                           *)
StorePastesOnce == \A r \in PRow : pasted[r] <= 1
=============================================================================
