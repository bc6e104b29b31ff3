------------------------------ MODULE History ------------------------------
(***************************************************************************)
(* Reading the ledger page by page while payments settle.                  *)
(*                                                                         *)
(* GET /history answers one page of a user's rows, newest first, cut out   *)
(* by LIMIT and OFFSET in one SELECT; the server keeps nothing between two *)
(* pages, so a client's walk lives through a restart of the process that   *)
(* Startup describes.  A row's created_at is taken when its session        *)
(* flushes, before it waits for the writer: rows may be committed in       *)
(* another order than the pages show them in.                              *)
(***************************************************************************)
EXTENDS Startup

CONSTANTS
    Users,
    Rows,      \* ledger rows, each written by a session of its own
    Clients,   \* each walks the pages of one user's history
    MaxTime,   \* bound on the clock
    MaxLimit,  \* bound on the size of a page: 100 in the code
    MaxOffset  \* bound on how far a client pages

ASSUME HistoryAssumption ==
    /\ MaxTime \in Nat
    /\ MaxLimit \in Nat \ {0}
    /\ MaxOffset \in Nat

VARIABLES
    now,
    ledger,  \* the committed rows' identifiers
    row,     \* what each row says: its user, created_at and primary key
    session, \* what each row's session is at
    walk     \* a client's walk: its next offset, what it was shown,
             \* and, for the properties, the ledger it started from

historyVars == <<now, ledger, row, session, walk>>

vars == <<startupVars, historyVars>>

NoRow == [user |-> Nothing, at |-> 0, id |-> 0]

NoWalk == [user |-> Nothing, offset |-> 0, shown |-> {}, from |-> {}, refused |-> FALSE]

TypeOK ==
    /\ StartupTypeOK
    /\ now \in 0..MaxTime
    /\ ledger \subseteq Rows
    /\ row \in [Rows -> [user : Users \cup {Nothing}, at : Nat, id : Nat]]
    /\ session \in [Rows -> {"none", "flushed", "committed"}]
    /\ walk \in [Clients -> [user : Users \cup {Nothing}, offset : Nat,
                             shown : SUBSET Rows, from : SUBSET Rows, refused : BOOLEAN]]
    /\ \A r \in Rows : session[r] = "committed" <=> r \in ledger

Init ==
    /\ StartupInit
    /\ now = 0
    /\ ledger = {}
    /\ row = [r \in Rows |-> NoRow]
    /\ session = [r \in Rows |-> "none"]
    /\ walk = [c \in Clients |-> NoWalk]

Serving == phase = "serving"

-----------------------------------------------------------------------------
(* Writers                                                                 *)

Tick == now < MaxTime /\ now' = now + 1 /\ UNCHANGED <<startupVars, ledger, row, session, walk>>

\* The defaults of the row are taken as the session flushes.
Flush(r, u) ==
    /\ Serving
    /\ session[r] = "none"
    /\ row' = [row EXCEPT ![r] = [user |-> u, at |-> now, id |-> 0]]
    /\ session' = [session EXCEPT ![r] = "flushed"]
    /\ UNCHANGED <<startupVars, now, ledger, walk>>

\* The INSERT gets the writer, a primary key above every other, and commits.
CommitRow(r) ==
    /\ Serving
    /\ session[r] = "flushed"
    /\ ledger' = ledger \cup {r}
    /\ row' = [row EXCEPT ![r].id = Cardinality(ledger) + 1]
    /\ session' = [session EXCEPT ![r] = "committed"]
    /\ UNCHANGED <<startupVars, now, walk>>

-----------------------------------------------------------------------------
(* Readers                                                                 *)

\* ORDER BY created_at DESC.  The query says nothing of equal keys: that SQLite
\* leaves them in the order of the primary key, in every query alike, is assumed.
Before(a, b) == row[a].at > row[b].at \/ (row[a].at = row[b].at /\ row[a].id < row[b].id)

RowsOf(u) == {r \in ledger : row[r].user = u}

\* How many rows the pages show before r.
Rank(r) == Cardinality({x \in RowsOf(row[r].user) : Before(x, r)})

\* Faulty variant: LIMIT counts from the first row.
PageFromTop(u, limit, offset) ==
    {r \in RowsOf(u) : offset <= Rank(r) /\ Rank(r) < limit}

\* .offset(offset).limit(limit)
PageOf(u, limit, offset) ==
    {r \in RowsOf(u) : offset <= Rank(r) /\ Rank(r) < offset + limit}

BeginWalk(c, u) ==
    /\ walk[c] = NoWalk
    /\ walk' = [walk EXCEPT ![c] = [NoWalk EXCEPT !.user = u, !.from = ledger]]
    /\ UNCHANGED <<startupVars, now, ledger, row, session>>

\* get_transaction_history: the next page, or a 422 for its limit.
GetPage(c, limit) ==
    LET w == walk[c] IN
    /\ Serving
    /\ w.user # Nothing
    /\ ~w.refused
    /\ w.offset <= MaxOffset
    /\ IF limit < 1 \/ limit > MaxLimit
       THEN walk' = [walk EXCEPT ![c].refused = TRUE]
       ELSE walk' = [walk EXCEPT ![c].shown = @ \cup PageOf(w.user, limit, w.offset),
                                 ![c].offset = @ + limit]
    /\ UNCHANGED <<startupVars, now, ledger, row, session>>

-----------------------------------------------------------------------------
(* A run that ends takes its open sessions with it.                        *)

Lifecycle ==
    /\ StartupNext
    /\ session' = IF phase = "serving" /\ phase' = "down"
                  THEN [r \in Rows |-> IF session[r] = "flushed" THEN "none" ELSE session[r]]
                  ELSE session
    /\ UNCHANGED <<now, ledger, row, walk>>

Next ==
    \/ Lifecycle
    \/ Tick
    \/ (\E r \in Rows : CommitRow(r) \/ \E u \in Users : Flush(r, u))
    \/ (\E c \in Clients : (\E u \in Users : BeginWalk(c, u))
                            \/ \E limit \in 0..(MaxLimit + 1) : GetPage(c, limit))

Spec == Init /\ [][Next]_vars

-----------------------------------------------------------------------------
(* Correctness                                                             *)

\* A walk misses nothing it has passed: every row that was in the ledger when
\* the client asked for its first page, and now ranks before its next offset,
\* was shown to it, whatever was settled, and with whichever created_at, while
\* it paged, through restarts of the service included.
PagesMissNothing ==
    \A c \in Clients : \A r \in walk[c].from \cap RowsOf(walk[c].user) :
        Rank(r) < walk[c].offset => r \in walk[c].shown
=============================================================================
