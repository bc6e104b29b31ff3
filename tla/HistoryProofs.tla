--------------------------- MODULE HistoryProofs ---------------------------
(***************************************************************************)
(* That the application serves only on today's schema, and that crashes    *)
(* and upgrades lose no event, for any events and any number of failures;  *)
(* and that a walk over the history misses nothing it has passed, for any  *)
(* number of rows, users and clients and any page sizes.                   *)
(***************************************************************************)
EXTENDS History, FiniteSetTheorems, TLAPS

-----------------------------------------------------------------------------
(* The start                                                               *)

New == "fraud_events_new"

Upgraded == {"inspect", "drop_copy", "create_copy", "copy", "drop", "rename", "reindex",
             "commit", "open", "serving"}

\* What is durable: a copy left by a killed upgrade is empty and belongs to a
\* strict table; each table has its index, was cut short of it, or is at it now.
FileInv ==
    /\ db.copy = {}
    /\ New \in db.made => db.strict
    /\ db.unique \subseteq db.made
    /\ db.made \cap Tables \subseteq db.unique \cup cut \cup {fresh}
    /\ fresh # Nothing => fresh \in db.made

\* What each statement finds done by those before it.
PhaseInv ==
    /\ phase \notin {"down", "tables"} => Tables \subseteq db.made
    /\ phase \in Upgraded => db.cols = Cols
    /\ phase \in {"open", "serving"} => ~db.strict
    /\ phase \in {"drop_copy", "create_copy", "copy", "drop", "rename", "reindex", "commit"}
         => db.strict
    /\ phase \in {"copy", "drop", "rename", "reindex", "commit"} => New \in db.made

\* What the open transaction holds after each of its statements.
TxInv ==
    /\ phase \in {"drop", "rename", "reindex", "commit"} => tx.cols = Cols
    /\ phase = "drop" =>
         /\ tx.made = Tables \cup {New} /\ tx.unique = db.unique /\ tx.copy = db.events
    /\ phase = "rename" =>
         /\ tx.made = {"pending_transactions", New}
         /\ tx.unique = db.unique \ {"fraud_events"}
         /\ tx.copy = db.events
    /\ phase \in {"reindex", "commit"} =>
         /\ tx.made = Tables
         /\ tx.events = db.events /\ tx.copy = {} /\ ~tx.strict
    /\ phase = "reindex" => tx.unique = db.unique \ {"fraud_events"}
    /\ phase = "commit" => tx.unique = db.unique \cup {"fraud_events"}

IInv == StartupTypeOK /\ FileInv /\ PhaseInv /\ TxInv

LEMMA FileFields ==
    ASSUME NEW f \in Files
    PROVE  /\ f.made \subseteq Tables \cup {New}
           /\ f.unique \subseteq Tables
           /\ f.cols \subseteq Cols
           /\ f.strict \in BOOLEAN
           /\ f.events \subseteq Events
           /\ f.copy \subseteq Events
  BY DEF Files, New

LEMMA InitIInv == StartupInit => IInv
  BY ConstantsAssumption
  DEF StartupInit, IInv, StartupTypeOK, FileInv, PhaseInv, TxInv, Files, Tables, Cols,
      Upgrading, Upgraded, New

\* The statements before the copy, and whatever leaves the schema alone.
LEMMA PlainSteps ==
    ASSUME IInv, Start \/ TablesDone \/ ColumnsDone \/ Inspect \/ Open \/ Stop
    PROVE  IInv'
  BY ConstantsAssumption
  DEF Start, TablesDone, ColumnsDone, AllColumns, Inspect, Open, Stop, Goto, IInv,
      StartupTypeOK, FileInv, PhaseInv, TxInv, Tables, Cols, Upgrading, Upgraded, New

\* A table, its indexes, and the columns of the one that older files lack.
LEMMA TableSteps ==
    ASSUME IInv, \/ CreateIndexes
                 \/ \E t \in Tables : CreateTable(t)
                 \/ \E c \in Cols : AddColumn(c)
    PROVE  IInv'
<1>1. CASE CreateIndexes
  BY <1>1, ConstantsAssumption
  DEF CreateIndexes, Write, IInv, StartupTypeOK, FileInv, PhaseInv, TxInv, Files, Tables, Cols,
      Upgrading, Upgraded, New
<1>2. ASSUME NEW t \in Tables, CreateTable(t)
      PROVE  IInv'
  <2>1. PICK cols \in SUBSET Cols :
          /\ db' = [db EXCEPT !.made = @ \cup {t}, !.cols = cols]
          /\ UNCHANGED tx
    BY <1>2, FileFields DEF CreateTable, Write, IInv, StartupTypeOK
  <2> QED
    BY <1>2, <2>1, FileFields, ConstantsAssumption
    DEF CreateTable, IInv, StartupTypeOK, FileInv, PhaseInv, TxInv, Files, Tables,
        Upgrading, Upgraded, New
<1>3. ASSUME NEW c \in Cols, AddColumn(c)
      PROVE  IInv'
  BY <1>3, ConstantsAssumption
  DEF AddColumn, Goto, Write, IInv, StartupTypeOK, FileInv, PhaseInv, TxInv, Files, Tables,
      Cols, Upgrading, Upgraded, New
<1> QED BY <1>1, <1>2, <1>3

\* The rebuild of the fraud table, up to the statement that opens a transaction.
LEMMA DurableSteps ==
    ASSUME IInv, DropCopy \/ CreateCopy \/ Copy
    PROVE  IInv'
<1>1. CASE DropCopy
  <2>1. db' = [db EXCEPT !.made = @ \ {New}, !.copy = {}] /\ UNCHANGED tx
    BY <1>1 DEF DropCopy, Write, IInv, StartupTypeOK, New
  <2> QED
    BY <1>1, <2>1, FileFields, ConstantsAssumption
    DEF DropCopy, Goto, IInv, StartupTypeOK, FileInv, PhaseInv, TxInv, Files, Tables,
        Upgrading, Upgraded, New
<1>2. CASE CreateCopy
  BY <1>2, ConstantsAssumption
  DEF CreateCopy, Goto, Write, IInv, StartupTypeOK, FileInv, PhaseInv, TxInv, Files, Tables,
      Cols, Upgrading, Upgraded, New
<1>3. CASE Copy
  BY <1>3, ConstantsAssumption
  DEF Copy, Goto, IInv, StartupTypeOK, FileInv, PhaseInv, TxInv, Files, Tables,
      Cols, Upgrading, Upgraded, New
<1> QED BY <1>1, <1>2, <1>3

\* The rest of it, inside the transaction, and its commit.
LEMMA TransactionSteps ==
    ASSUME IInv, DropOld \/ Rename \/ Reindex \/ Commit
    PROVE  IInv'
<1>1. CASE DropOld
  <2>1. /\ tx' = [tx EXCEPT !.made = @ \ {"fraud_events"}, !.unique = @ \ {"fraud_events"},
                            !.events = {}]
        /\ UNCHANGED db
    BY <1>1 DEF DropOld, Write, View, IInv, StartupTypeOK
  <2>2. tx \in Files
    BY <1>1 DEF DropOld, IInv, StartupTypeOK
  <2>3. tx' \in Files
    BY <2>1, <2>2 DEF Files
  <2> QED
    BY <1>1, <2>1, <2>2, <2>3, FileFields, ConstantsAssumption
    DEF DropOld, Goto, IInv, StartupTypeOK, FileInv, PhaseInv, TxInv, Tables, Files,
        Upgrading, Upgraded, New
<1>2. CASE Rename
  <2>1. /\ tx' = [tx EXCEPT !.made = (@ \ {New}) \cup {"fraud_events"}, !.strict = FALSE,
                            !.events = tx.copy, !.copy = {}]
        /\ UNCHANGED db
    BY <1>2 DEF Rename, Write, View, IInv, StartupTypeOK, New
  <2>2. tx \in Files
    BY <1>2 DEF Rename, IInv, StartupTypeOK
  <2>3. tx' \in Files
    BY <2>1, <2>2 DEF Files, Tables, New
  <2>4. StartupTypeOK'
    BY <1>2, <2>1, <2>3, ConstantsAssumption
    DEF Rename, Goto, IInv, StartupTypeOK, Upgrading
  <2>5. FileInv' /\ PhaseInv'
    BY <1>2, <2>1 DEF Rename, Goto, IInv, FileInv, PhaseInv, Upgraded
  <2>6. /\ tx'.made = Tables /\ tx'.unique = tx.unique /\ tx'.cols = tx.cols
        /\ tx'.events = tx.copy /\ tx'.copy = {} /\ ~tx'.strict
    BY <1>2, <2>1, <2>2 DEF Rename, IInv, TxInv, Tables, Files, New
  <2>7. TxInv'
    BY <1>2, <2>1, <2>6 DEF Rename, Goto, IInv, TxInv
  <2> QED BY <2>4, <2>5, <2>7 DEF IInv
<1>3. CASE Reindex
  BY <1>3, ConstantsAssumption
  DEF Reindex, Goto, Write, View, IInv, StartupTypeOK, FileInv, PhaseInv, TxInv, Files, Tables,
      Cols, Upgrading, Upgraded, New
<1>4. CASE Commit
  BY <1>4, ConstantsAssumption
  DEF Commit, Goto, View, IInv, StartupTypeOK, FileInv, PhaseInv, TxInv, Files, Tables,
      Cols, Upgrading, Upgraded, New
<1> QED BY <1>1, <1>2, <1>3, <1>4

\* A failure or kill anywhere, and what is recorded while serving.
LEMMA ServiceSteps ==
    ASSUME IInv, Die \/ \E e \in Events : Record(e)
    PROVE  IInv'
<1>1. CASE Die
  <2>1. StartupTypeOK'
    BY <1>1, ConstantsAssumption DEF Die, DropTransaction, IInv, StartupTypeOK, Tables, Upgrading
  <2>2. FileInv'
    BY <1>1, ConstantsAssumption
    DEF Die, IInv, StartupTypeOK, FileInv, PhaseInv, Tables
  <2>3. PhaseInv' /\ TxInv'
    BY <1>1 DEF Die, PhaseInv, TxInv, Upgraded
  <2> QED BY <2>1, <2>2, <2>3 DEF IInv
<1>2. ASSUME NEW e \in Events, Record(e)
      PROVE  IInv'
  BY <1>2, ConstantsAssumption
  DEF Record, Goto, Write, IInv, StartupTypeOK, FileInv, PhaseInv, TxInv, Files, Tables,
      Cols, Upgrading, Upgraded, New
<1> QED BY <1>1, <1>2

LEMMA NextIInv == IInv /\ [StartupNext]_startupVars => IInv'
<1> SUFFICES ASSUME IInv, [StartupNext]_startupVars
             PROVE  IInv'
  OBVIOUS
<1>1. CASE StartupNext
  BY <1>1, PlainSteps, TableSteps, DurableSteps, TransactionSteps, ServiceSteps
  DEF StartupNext, Run
<1>2. CASE UNCHANGED startupVars
  BY <1>2 DEF startupVars, IInv, StartupTypeOK, FileInv, PhaseInv, TxInv
<1> QED BY <1>1, <1>2

\* The inductive invariant: what the file and the open transaction hold at each
\* statement of a start, after any earlier runs.
THEOREM Invariance == StartupSpec => []IInv
  BY InitIInv, NextIInv, PTL DEF StartupSpec

\* Type correctness: a transaction is open exactly from the copy to the commit.
THEOREM TypeCorrect == StartupSpec => []StartupTypeOK
  BY Invariance, PTL DEF IInv

\* The application serves only on today's schema, whatever was cut short before.
THEOREM ServesOnCurrent == StartupSpec => []ServesCurrent
<1>1. ASSUME IInv, phase = "serving"
      PROVE  /\ db.made = Tables
             /\ db.cols = Cols
             /\ ~db.strict
             /\ db.unique \cup cut = Tables
  <2>1. db \in Files /\ cut \subseteq Tables /\ fresh = Nothing
    BY <1>1 DEF IInv, StartupTypeOK
  <2>2. Tables \subseteq db.made /\ db.cols = Cols /\ ~db.strict
    BY <1>1 DEF IInv, PhaseInv, Upgraded
  <2>3. New \notin db.made /\ db.unique \subseteq Tables /\ db.made \subseteq Tables \cup {New}
    BY <1>1, <2>1, <2>2, FileFields DEF IInv, FileInv
  <2>4. Tables \subseteq db.unique \cup cut
    BY <1>1, <2>1, <2>2, ConstantsAssumption DEF IInv, FileInv
  <2> QED BY <2>1, <2>2, <2>3, <2>4
<1>2. IInv => ServesCurrent
  BY <1>1 DEF ServesCurrent
<1> QED BY <1>2, Invariance, PTL

-----------------------------------------------------------------------------
(* The promise of Upgrade                                                  *)

LEMMA RefineInit == StartupInit => Contract!Init
  BY DEF StartupInit, Contract!Init, Tables

\* Every statement is invisible to a reader of the file but these: new columns,
\* a recorded event, and the commit that relaxes the fraud table with its rows.
LEMMA RefineStep ==
    ASSUME IInv, IInv', [StartupNext]_startupVars
    PROVE  [Contract!Next]_<<db.events, db.strict, db.cols>>
<1> USE DEF IInv
<1>1. db \in Files /\ db' \in Files
  BY DEF StartupTypeOK
<1>2. CASE \/ Start \/ TablesDone \/ ColumnsDone \/ Inspect \/ Open \/ Stop \/ Die
           \/ DropOld \/ Rename \/ Reindex \/ Copy \/ UNCHANGED startupVars
  <2>1. CASE DropOld \/ Rename \/ Reindex
    BY <2>1 DEF DropOld, Rename, Reindex, Write, StartupTypeOK
  <2> QED
    BY <1>2, <2>1 DEF Start, TablesDone, ColumnsDone, Inspect, Open, Stop, Die, Copy, startupVars
<1>3. CASE CreateIndexes \/ DropCopy \/ CreateCopy
  BY <1>1, <1>3 DEF CreateIndexes, DropCopy, CreateCopy, Write, StartupTypeOK, Files
<1>4. ASSUME NEW t \in Tables, CreateTable(t)
      PROVE  Contract!AddColumns
  <2>1. db'.events = db.events /\ db'.strict = db.strict /\ db'.cols \in {db.cols, Cols}
    BY <1>1, <1>4 DEF CreateTable, Write, StartupTypeOK, Files
  <2> QED BY <1>1, <2>1, FileFields DEF Contract!AddColumns
<1>5. ASSUME NEW c \in Cols, AddColumn(c)
      PROVE  Contract!AddColumns
  <2>1. db'.events = db.events /\ db'.strict = db.strict /\ db'.cols = db.cols \cup {c}
    BY <1>1, <1>5 DEF AddColumn, Write, StartupTypeOK, Files
  <2> QED BY <1>1, <2>1, FileFields DEF Contract!AddColumns
<1>6. ASSUME NEW e \in Events, Record(e)
      PROVE  Contract!Append(e)
  BY <1>1, <1>6 DEF Record, Write, StartupTypeOK, Upgrading, Files, Contract!Append
<1>7. CASE Commit
  <2>1. db' = tx /\ tx.events = db.events /\ ~tx.strict /\ tx.cols = Cols
    BY <1>7 DEF Commit, View, StartupTypeOK, TxInv
  <2>2. db.strict /\ db.cols = Cols
    BY <1>7 DEF Commit, PhaseInv, Upgraded
  <2> QED BY <2>1, <2>2 DEF Contract!Next, Contract!Relax
<1> QED
  BY <1>2, <1>3, <1>4, <1>5, <1>6, <1>7 DEF StartupNext, Run, Contract!Next

\* Through any failures and restarts the file keeps the promise of Upgrade.
THEOREM Refinement == StartupSpec => ImplementsUpgrade
<1>1. IInv /\ IInv' /\ [StartupNext]_startupVars
        => [Contract!Next]_<<db.events, db.strict, db.cols>>
  BY RefineStep
<1> QED
  BY <1>1, RefineInit, Invariance, PTL DEF StartupSpec, ImplementsUpgrade, Contract!Spec

-----------------------------------------------------------------------------
(* The start underneath the history                                        *)

\* What the steps of the service and of History add up to.
Walks == \A c \in Clients : walk[c].from \subseteq ledger

WalkInv == TypeOK /\ IsFiniteSet(ledger) /\ Walks /\ PagesMissNothing

\* The service's own steps are those of Startup.
LEMMA ServiceSpec == Spec => StartupSpec
<1>1. Init => StartupInit
  BY DEF Init
<1>2. [Next]_vars => [StartupNext]_startupVars
  BY DEF Next, vars, Lifecycle, Tick, CommitRow, Flush, BeginWalk, GetPage
<1> QED BY <1>1, <1>2, PTL DEF Spec, StartupSpec

\* Today's schema is served to every client of the history as well.
THEOREM HistoryServesCurrent == Spec => []ServesCurrent
  BY ServiceSpec, ServesOnCurrent, PTL

\* Nor does the traffic of the history disturb the upgrade: each start is still all
\* or nothing to whoever reads the file.
THEOREM HistoryUpgrades == Spec => ImplementsUpgrade
  BY ServiceSpec, Refinement, PTL

-----------------------------------------------------------------------------
(* The order of the pages                                                  *)

LEMMA RowsFinite ==
    ASSUME IsFiniteSet(ledger), NEW r
    PROVE  /\ IsFiniteSet({x \in RowsOf(row[r].user) : Before(x, r)})
           /\ Rank(r) \in Nat
<1>1. {x \in RowsOf(row[r].user) : Before(x, r)} \subseteq ledger
  BY DEF RowsOf
<1>2. IsFiniteSet({x \in RowsOf(row[r].user) : Before(x, r)})
  BY <1>1, FS_Subset
<1> QED BY <1>2, FS_CardinalityType DEF Rank

\* A row that is shown further down stays there or moves on: rows already in the
\* ledger keep their place, and what is put before them only pushes them on.
LEMMA RankGrows ==
    ASSUME IsFiniteSet(ledger), IsFiniteSet(ledger'), ledger \subseteq ledger',
           \A x \in ledger : row'[x] = row[x],
           NEW r \in ledger
    PROVE  Rank(r) \in Nat /\ Rank(r)' \in Nat /\ Rank(r) <= Rank(r)'
<1> DEFINE above == {x \in RowsOf(row[r].user) : Before(x, r)}
           above2 == {x \in ledger' : /\ row'[x].user = row'[r].user
                                      /\ \/ row'[x].at > row'[r].at
                                         \/ row'[x].at = row'[r].at /\ row'[x].id < row'[r].id}
<1>1. above \subseteq above2
  BY DEF RowsOf, Before
<1>2. IsFiniteSet(above2)
  BY FS_Subset
<1>3. Cardinality(above) <= Cardinality(above2)
  BY <1>1, <1>2, FS_Subset
<1>4. Rank(r)' = Cardinality(above2)
  BY DEF Rank, RowsOf, Before
<1>5. Rank(r)' \in Nat
  BY <1>2, <1>4, FS_CardinalityType
<1> QED BY <1>3, <1>4, <1>5, RowsFinite DEF Rank

-----------------------------------------------------------------------------
(* The walk                                                                *)

LEMMA InitWalk ==
    ASSUME Init
    PROVE  WalkInv
<1>1. TypeOK
  <2>1. StartupTypeOK
    BY InitIInv DEF Init, IInv
  <2>2. NoWalk \in [user : Users \cup {Nothing}, offset : Nat, shown : SUBSET Rows,
                    from : SUBSET Rows, refused : BOOLEAN]
    BY DEF NoWalk
  <2>3. NoRow \in [user : Users \cup {Nothing}, at : Nat, id : Nat]
    BY DEF NoRow
  <2> QED BY <2>1, <2>2, <2>3, HistoryAssumption DEF Init, TypeOK
<1>2. Walks /\ PagesMissNothing
  BY DEF Init, Walks, PagesMissNothing, NoWalk
<1> QED BY <1>1, <1>2, FS_EmptySet DEF Init, WalkInv

\* The steps that leave the ledger, its rows and the walks alone.
LEMMA QuietSteps ==
    ASSUME WalkInv, StartupTypeOK',
           \/ Lifecycle \/ Tick \/ UNCHANGED vars
           \/ \E r \in Rows, u \in Users : Flush(r, u)
    PROVE  WalkInv'
<1>1. UNCHANGED <<ledger, walk>> /\ \A x \in ledger : row'[x] = row[x]
  BY DEF Lifecycle, Tick, Flush, vars, historyVars, WalkInv, TypeOK
<1>2. TypeOK'
  <2>1. CASE Lifecycle
    BY <2>1 DEF Lifecycle, WalkInv, TypeOK
  <2>2. CASE Tick \/ UNCHANGED vars
    BY <2>2, HistoryAssumption DEF Tick, vars, historyVars, WalkInv, TypeOK
  <2>3. ASSUME NEW r \in Rows, NEW u \in Users, Flush(r, u)
        PROVE  TypeOK'
    BY <2>3 DEF Flush, WalkInv, TypeOK
  <2> QED BY <2>1, <2>2, <2>3
<1>3. \A r \in ledger : Rank(r) \in Nat /\ Rank(r)' \in Nat /\ Rank(r) <= Rank(r)'
  BY <1>1, RankGrows DEF WalkInv
<1>4. PagesMissNothing'
  <2> SUFFICES ASSUME NEW c \in Clients, NEW r \in walk'[c].from \cap RowsOf(walk[c].user)',
                      Rank(r)' < walk'[c].offset
               PROVE  r \in walk'[c].shown
    BY DEF PagesMissNothing
  <2>1. r \in walk[c].from \cap RowsOf(walk[c].user)
    BY <1>1 DEF RowsOf
  <2>2. Rank(r) < walk[c].offset
    BY <1>1, <1>3, <2>1 DEF RowsOf, WalkInv, TypeOK
  <2> QED BY <1>1, <2>1, <2>2 DEF WalkInv, PagesMissNothing
<1> QED BY <1>1, <1>2, <1>4 DEF WalkInv, Walks

\* A row is committed: the ledger grows and nothing moves up.
LEMMA CommitStep ==
    ASSUME WalkInv, NEW q \in Rows, CommitRow(q)
    PROVE  WalkInv'
<1>1. UNCHANGED walk /\ ledger' = ledger \cup {q} /\ \A x \in ledger : row'[x] = row[x]
  BY DEF CommitRow, WalkInv, TypeOK
<1>2. IsFiniteSet(ledger')
  BY <1>1, FS_AddElement DEF WalkInv
<1>3. TypeOK'
  <2>1. Cardinality(ledger) + 1 \in Nat
    BY FS_CardinalityType DEF WalkInv
  <2>2. StartupTypeOK'
    BY DEF CommitRow, startupVars, WalkInv, TypeOK, StartupTypeOK
  <2> QED BY <2>1, <2>2 DEF CommitRow, WalkInv, TypeOK
<1>4. \A r \in ledger : Rank(r) \in Nat /\ Rank(r)' \in Nat /\ Rank(r) <= Rank(r)'
  BY <1>1, <1>2, RankGrows DEF WalkInv
<1>5. PagesMissNothing'
  <2> SUFFICES ASSUME NEW c \in Clients, NEW r \in walk'[c].from \cap RowsOf(walk[c].user)',
                      Rank(r)' < walk'[c].offset
               PROVE  r \in walk'[c].shown
    BY DEF PagesMissNothing
  <2>1. r \in ledger /\ r \in walk[c].from \cap RowsOf(walk[c].user)
    BY <1>1 DEF RowsOf, WalkInv, Walks
  <2>2. Rank(r) < walk[c].offset
    BY <1>1, <1>4, <2>1 DEF WalkInv, TypeOK
  <2> QED BY <1>1, <2>1, <2>2 DEF WalkInv, PagesMissNothing
<1> QED BY <1>1, <1>2, <1>3, <1>5 DEF WalkInv, Walks

\* A walk begins with nothing shown and nothing passed.
LEMMA BeginStep ==
    ASSUME WalkInv, NEW d \in Clients, NEW u \in Users, BeginWalk(d, u)
    PROVE  WalkInv'
<1> DEFINE first == [NoWalk EXCEPT !.user = u, !.from = ledger]
<1>1. UNCHANGED <<ledger, row>> /\ walk' = [walk EXCEPT ![d] = first]
  BY DEF BeginWalk
<1>2. /\ first \in [user : Users \cup {Nothing}, offset : Nat, shown : SUBSET Rows,
                   from : SUBSET Rows, refused : BOOLEAN]
      /\ first.from = ledger /\ first.offset = 0
  BY DEF NoWalk, WalkInv, TypeOK
<1>3. TypeOK'
  <2>1. StartupTypeOK'
    BY DEF BeginWalk, startupVars, WalkInv, TypeOK, StartupTypeOK
  <2> QED BY <1>1, <1>2, <2>1 DEF BeginWalk, WalkInv, TypeOK
<1>4. Walks'
  BY <1>1, <1>2 DEF WalkInv, TypeOK, Walks
<1>5. PagesMissNothing'
  <2> SUFFICES ASSUME NEW c \in Clients, NEW r \in walk'[c].from \cap RowsOf(walk[c].user)',
                      Rank(r)' < walk'[c].offset
               PROVE  r \in walk'[c].shown
    BY DEF PagesMissNothing
  <2>1. Rank(r)' = Rank(r) /\ Rank(r) \in Nat
    BY <1>1, RowsFinite DEF WalkInv, Rank, RowsOf, Before
  <2>2. c # d
    BY <1>1, <1>2, <2>1 DEF WalkInv, TypeOK
  <2> QED BY <1>1, <2>1, <2>2 DEF WalkInv, TypeOK, PagesMissNothing, RowsOf
<1> QED BY <1>1, <1>3, <1>4, <1>5 DEF WalkInv

\* A page is what ranks from the walk's offset to the next one.
LEMMA PageStep ==
    ASSUME WalkInv, NEW d \in Clients, NEW limit \in 0..(MaxLimit + 1), GetPage(d, limit)
    PROVE  WalkInv'
<1> DEFINE W == [user : Users \cup {Nothing}, offset : Nat, shown : SUBSET Rows,
                 from : SUBSET Rows, refused : BOOLEAN]
<1>1. /\ walk' \in [Clients -> W]
      /\ \A c \in Clients : walk'[c].user = walk[c].user /\ walk'[c].from = walk[c].from
      /\ \A c \in Clients \ {d} : walk'[c] = walk[c]
      /\ \/ walk'[d].offset = walk[d].offset /\ walk'[d].shown = walk[d].shown
         \/ /\ walk'[d].offset = walk[d].offset + limit
            /\ walk'[d].shown = walk[d].shown \cup PageOf(walk[d].user, limit, walk[d].offset)
  <2>1. walk \in [Clients -> W] /\ limit \in Nat
    BY HistoryAssumption DEF WalkInv, TypeOK
  <2>2. PICK page \in SUBSET Rows : page = PageOf(walk[d].user, limit, walk[d].offset)
    BY DEF PageOf, RowsOf, WalkInv, TypeOK
  <2>3. CASE limit < 1 \/ limit > MaxLimit
    <3>1. walk' = [walk EXCEPT ![d].refused = TRUE]
      BY <2>3 DEF GetPage
    <3>2. walk' \in [Clients -> W]
      BY <2>1, <3>1
    <3>3. /\ \A c \in Clients : walk'[c].user = walk[c].user /\ walk'[c].from = walk[c].from
          /\ \A c \in Clients \ {d} : walk'[c] = walk[c]
      BY <2>1, <3>1
    <3>4. walk'[d].offset = walk[d].offset /\ walk'[d].shown = walk[d].shown
      BY <2>1, <3>1
    <3> QED BY <3>2, <3>3, <3>4
  <2>4. CASE ~(limit < 1 \/ limit > MaxLimit)
    <3>1. PICK mid \in [Clients -> W] : mid = [walk EXCEPT ![d].shown = @ \cup page]
      BY <2>1
    <3>2. /\ \A c \in Clients : mid[c].user = walk[c].user /\ mid[c].from = walk[c].from
          /\ \A c \in Clients \ {d} : mid[c] = walk[c]
          /\ mid[d].shown = walk[d].shown \cup page /\ mid[d].offset = walk[d].offset
      BY <2>1, <3>1
    <3>3. walk' = [mid EXCEPT ![d].offset = @ + limit]
      BY <2>1, <2>2, <2>4, <3>1, <3>2 DEF GetPage
    <3>4. walk' \in [Clients -> W]
      <4>1. mid[d].offset + limit \in Nat
        BY <2>1
      <4> QED BY <3>3, <4>1
    <3>5. \A c \in Clients \ {d} : walk'[c] = mid[c]
      BY <3>3
    <3>6. walk'[d].user = mid[d].user /\ walk'[d].from = mid[d].from
      BY <2>1, <3>1, <3>3
    <3>7. walk'[d].shown = mid[d].shown /\ walk'[d].offset = mid[d].offset + limit
      BY <2>1, <3>1, <3>3
    <3> QED BY <2>2, <3>2, <3>4, <3>5, <3>6, <3>7
  <2> QED BY <2>3, <2>4
<1>2. UNCHANGED <<ledger, row>>
  BY DEF GetPage
<1>3. TypeOK'
  <2>1. StartupTypeOK'
    BY DEF GetPage, startupVars, WalkInv, TypeOK, StartupTypeOK
  <2> QED BY <1>1, <2>1 DEF GetPage, WalkInv, TypeOK
<1>4. Walks'
  BY <1>1, <1>2 DEF WalkInv, TypeOK, Walks
<1>5. PagesMissNothing'
  <2> SUFFICES ASSUME NEW c \in Clients, NEW r \in walk'[c].from \cap RowsOf(walk[c].user)',
                      Rank(r)' < walk'[c].offset
               PROVE  r \in walk'[c].shown
    BY DEF PagesMissNothing
  <2>1. /\ Rank(r)' = Rank(r) /\ Rank(r) \in Nat
        /\ r \in walk[c].from \cap RowsOf(walk[c].user)
    BY <1>1, <1>2, RowsFinite DEF WalkInv, TypeOK, Rank, RowsOf, Before
  <2>2. CASE Rank(r) < walk[c].offset
    <3>1. r \in walk[c].shown
      BY <2>1, <2>2 DEF WalkInv, PagesMissNothing
    <3> QED BY <1>1, <3>1 DEF WalkInv, TypeOK
  <2>3. CASE ~(Rank(r) < walk[c].offset)
    <3>1. /\ c = d /\ Rank(r) < walk[d].offset + limit
          /\ walk'[d].shown = walk[d].shown \cup PageOf(walk[d].user, limit, walk[d].offset)
      BY <1>1, <2>1, <2>3 DEF WalkInv, TypeOK
    <3>2. walk[d].offset <= Rank(r)
      BY <2>1, <2>3, <3>1 DEF WalkInv, TypeOK
    <3>3. r \in PageOf(walk[d].user, limit, walk[d].offset)
      BY <2>1, <3>1, <3>2 DEF PageOf
    <3> QED BY <1>1, <3>1, <3>3 DEF WalkInv, TypeOK
  <2> QED BY <2>2, <2>3
<1> QED BY <1>2, <1>3, <1>4, <1>5 DEF WalkInv

LEMMA NextWalk == WalkInv /\ StartupTypeOK' /\ [Next]_vars => WalkInv'
  BY QuietSteps, CommitStep, BeginStep, PageStep DEF Next

\* The inductive invariant of the history: a walk starts from a ledger that only
\* grows, and rows that are in it only move on.
THEOREM WalkInvariance == Spec => []WalkInv
<1>1. Spec => []StartupTypeOK
  BY ServiceSpec, TypeCorrect, PTL
<1> QED BY <1>1, InitWalk, NextWalk, PTL DEF Spec

\* Every variable of the history keeps its type; a row is in the ledger exactly
\* when its session has committed.
THEOREM HistoryTypeCorrect == Spec => []TypeOK
  BY WalkInvariance, PTL DEF WalkInv

\* Whatever settles while a client pages, it is shown every row it has passed.
THEOREM WalksMissNothing == Spec => []PagesMissNothing
  BY WalkInvariance, PTL DEF WalkInv
=============================================================================
