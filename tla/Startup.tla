------------------------------ MODULE Startup ------------------------------
(***************************************************************************)
(* The life of the process around its SQLite file: the schema is created   *)
(* and upgraded statement by statement before anything is served, and the  *)
(* process may fail or be killed between any two statements.               *)
(*                                                                         *)
(* The driver opens a transaction before the first INSERT, not before DDL: *)
(* every statement up to the copy of the fraud table is durable at once,   *)
(* from the copy on nothing is until the commit.                           *)
(***************************************************************************)
EXTENDS Naturals, FiniteSets

CONSTANTS
    Events,     \* fraud events
    Anonymous,  \* those recorded for no user
    Nothing,    \* no open transaction; no table
    MaxFaults   \* bound on failed and killed runs of the process

Tables == {"pending_transactions", "fraud_events"}
Cols == {"verification_attempts", "max_verification_attempts"}

\* The file: its tables, those whose unique index exists, the attempt columns
\* of pending_transactions, whether fraud_events.user_id is NOT NULL, and the
\* rows of fraud_events and of its copy.
Files ==
    [made : SUBSET (Tables \cup {"fraud_events_new"}),
     unique : SUBSET Tables,
     cols : SUBSET Cols,
     strict : BOOLEAN,
     events : SUBSET Events,
     copy : SUBSET Events]

ASSUME ConstantsAssumption ==
    /\ Anonymous \subseteq Events
    /\ MaxFaults \in Nat
    /\ Nothing \notin Tables \cup Files

VARIABLES
    db,      \* the file
    tx,      \* the open transaction's view of it, or Nothing
    fresh,   \* the table created last, until its indexes are
    phase,   \* the statement the process is at
    faults,
    cut      \* history: tables whose creation stopped short of their indexes

startupVars == <<db, tx, fresh, phase, faults, cut>>

Upgrading == {"tables", "columns", "inspect", "drop_copy", "create_copy", "copy",
              "drop", "rename", "reindex", "commit", "open"}

\* A transaction is open exactly from the copy to its commit.
StartupTypeOK ==
    /\ db \in Files
    /\ tx \in Files \cup {Nothing}
    /\ fresh \in Tables \cup {Nothing}
    /\ phase \in Upgrading \cup {"down", "serving"}
    /\ faults \in 0..MaxFaults
    /\ cut \subseteq Tables
    /\ tx # Nothing <=> phase \in {"drop", "rename", "reindex", "commit"}
    /\ fresh # Nothing => phase = "tables"

\* No file at all, or one left by an earlier version.
StartupInit ==
    /\ \E made \in {{}, Tables}, cols \in {{}, Cols}, strict \in BOOLEAN, events \in SUBSET Events :
         /\ made = {} => cols = {} /\ ~strict /\ events = {}
         /\ strict => events \cap Anonymous = {}
         /\ db = [made |-> made, unique |-> made, cols |-> cols, strict |-> strict,
                  events |-> events, copy |-> {}]
    /\ tx = Nothing
    /\ fresh = Nothing
    /\ phase = "down"
    /\ faults = 0
    /\ cut = {}

-----------------------------------------------------------------------------
(* Statements                                                              *)

Goto(p) == phase' = p /\ UNCHANGED <<fresh, faults, cut>>

\* Faulty variant: DDL is committed as it runs, inside the transaction or not.
WriteThrough(f) ==
    IF tx = Nothing THEN db' = f /\ UNCHANGED tx
                    ELSE db' = f /\ tx' = f

View == IF tx = Nothing THEN db ELSE tx

Write(f) ==
    IF tx = Nothing THEN db' = f /\ UNCHANGED tx
                    ELSE tx' = f /\ UNCHANGED db

Start == phase = "down" /\ Goto("tables") /\ UNCHANGED <<db, tx>>

\* Base.metadata.create_all: a missing table is created with today's columns...
CreateTable(t) ==
    /\ phase = "tables"
    /\ fresh = Nothing
    /\ t \notin db.made
    /\ Write([db EXCEPT !.made = @ \cup {t},
                        !.cols = IF t = "pending_transactions" THEN Cols ELSE @])
    /\ fresh' = t
    /\ UNCHANGED <<phase, faults, cut>>

\* ...then its indexes are.  An existing table gets none.
CreateIndexes ==
    /\ phase = "tables"
    /\ fresh # Nothing
    /\ Write([db EXCEPT !.unique = @ \cup {fresh}])
    /\ fresh' = Nothing
    /\ UNCHANGED <<phase, faults, cut>>

TablesDone ==
    /\ phase = "tables"
    /\ fresh = Nothing
    /\ Tables \subseteq db.made
    /\ Goto("columns")
    /\ UNCHANGED <<db, tx>>

\* _ensure_pending_attempt_columns
AddColumn(c) ==
    /\ phase = "columns"
    /\ c \notin db.cols
    /\ c = "max_verification_attempts" => "verification_attempts" \in db.cols
    /\ Write([db EXCEPT !.cols = @ \cup {c}])
    /\ Goto(phase)

\* Faulty variant: a file with one of the columns is taken to have both.
SomeColumn == db.cols # {}

AllColumns == db.cols = Cols

ColumnsDone ==
    /\ phase = "columns"
    /\ AllColumns
    /\ Goto("inspect")
    /\ UNCHANGED <<db, tx>>

\* _ensure_nullable_fraud_user, from here to Commit.
Inspect ==
    /\ phase = "inspect"
    /\ Goto(IF db.strict THEN "drop_copy" ELSE "open")
    /\ UNCHANGED <<db, tx>>

\* DROP TABLE IF EXISTS: what a killed upgrade left behind.
DropCopy ==
    /\ phase = "drop_copy"
    /\ Write([db EXCEPT !.made = @ \ {"fraud_events_new"}, !.copy = {}])
    /\ Goto("create_copy")

CreateCopy ==
    /\ phase = "create_copy"
    /\ Write([db EXCEPT !.made = @ \cup {"fraud_events_new"}])
    /\ Goto("copy")

\* INSERT INTO ... SELECT: the driver begins a transaction.
Copy ==
    /\ phase = "copy"
    /\ tx' = [db EXCEPT !.copy = @ \cup db.events]
    /\ Goto("drop")
    /\ UNCHANGED db

DropOld ==
    /\ phase = "drop"
    /\ Write([View EXCEPT !.made = @ \ {"fraud_events"}, !.unique = @ \ {"fraud_events"},
                          !.events = {}])
    /\ Goto("rename")

Rename ==
    /\ phase = "rename"
    /\ Write([View EXCEPT !.made = (@ \ {"fraud_events_new"}) \cup {"fraud_events"},
                          !.strict = FALSE, !.events = View.copy, !.copy = {}])
    /\ Goto("reindex")

Reindex ==
    /\ phase = "reindex"
    /\ Write([View EXCEPT !.unique = @ \cup {"fraud_events"}])
    /\ Goto("commit")

Commit ==
    /\ phase = "commit"
    /\ db' = View
    /\ tx' = Nothing
    /\ Goto("open")

\* Foreign keys on, the voice index built from the users: requests are taken.
Open == phase = "open" /\ Goto("serving") /\ UNCHANGED <<db, tx>>

-----------------------------------------------------------------------------
(* The end of a run                                                        *)

\* Faulty variant: a killed run is not known to have been inside a transaction.
KeepTransaction == UNCHANGED tx

DropTransaction == tx' = Nothing

\* A statement raises and the lifespan ends, or the process is killed: an open
\* transaction is rolled back, everything before it stays.
Die ==
    /\ phase # "down"
    /\ faults < MaxFaults
    /\ DropTransaction
    /\ phase' = "down"
    /\ fresh' = Nothing
    /\ faults' = faults + 1
    /\ cut' = cut \cup ({fresh} \cap Tables)
    /\ UNCHANGED db

Stop == phase = "serving" /\ Goto("down") /\ UNCHANGED <<db, tx>>

\* A request served records a fraud event; a strict table refuses one without
\* a user, and the handler swallows the error.
Record(e) ==
    /\ phase = "serving"
    /\ e \notin db.events
    /\ db.strict => e \notin Anonymous
    /\ Write([db EXCEPT !.events = @ \cup {e}])
    /\ Goto(phase)

Run ==
    \/ Start \/ CreateIndexes \/ TablesDone \/ ColumnsDone \/ Inspect
    \/ (\E t \in Tables : CreateTable(t))
    \/ (\E c \in Cols : AddColumn(c))
    \/ DropCopy \/ CreateCopy \/ Copy \/ DropOld \/ Rename \/ Reindex \/ Commit \/ Open

StartupNext == Run \/ Die \/ Stop \/ \E e \in Events : Record(e)

StartupSpec == StartupInit /\ [][StartupNext]_startupVars

-----------------------------------------------------------------------------
(* Correctness                                                             *)

\* Whatever ran or was cut short before, the application serves only on today's
\* schema: both columns, no NOT NULL left to refuse an anonymous event, no copy
\* left behind; a unique index can be missing only from a table whose creation
\* was cut, and then no later start puts it back.
ServesCurrent ==
    phase = "serving" =>
        /\ db.made = Tables
        /\ db.cols = Cols
        /\ ~db.strict
        /\ db.unique \cup cut = Tables

\* Through every crash and restart the file keeps the promise of Upgrade: no
\* fraud event a reader could find is lost, and the schema never goes back.
Contract == INSTANCE Upgrade WITH log <- db.events, strict <- db.strict, cols <- db.cols

ImplementsUpgrade == Contract!Spec
=============================================================================
