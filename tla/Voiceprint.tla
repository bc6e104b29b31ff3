----------------------------- MODULE Voiceprint -----------------------------
(***************************************************************************)
(* Voice identity: POST /users/enroll, which stores a user's voice         *)
(* template and rebuilds the in-memory FAISS index from the users table,   *)
(* and the identity search of POST /transactions/initiate, which asks the  *)
(* index or, while there is none, scans the table.                         *)
(*                                                                         *)
(* The index is a copy of a column, refreshed under an asyncio.Lock by the *)
(* handler whose commit made it stale.  The rebuild runs in the enrolling  *)
(* handler's own session, whose identity map keeps the user it refreshed   *)
(* after its commit: the rebuild reads every other user from the table and *)
(* this one from mine[r].                                                  *)
(***************************************************************************)
EXTENDS Naturals, Sequences

CONSTANTS
    Users,      \* accounts; signup created their rows
    Templates,  \* 192-dimensional speaker embeddings
    Voices,     \* live callers
    Matches,    \* which templates score at least SPEAKER_PASS_THRESHOLD
    Enrollers,  \* enrollment requests
    Searchers,  \* initiate requests, up to the identity they resolve
    Nothing     \* no template, no index

ASSUME ConstantsAssumption ==
    /\ Matches \in [Voices -> SUBSET Templates]
    /\ Nothing \notin Templates
    /\ Nothing \notin Users
    /\ Nothing \notin [Users -> Templates \cup {Nothing}]

VARIABLES
    enrolled,  \* the speaker_embedding column
    index,     \* _index with _user_ids, or Nothing until _initialized
    queue,     \* the index's _lock: its holder, then its waiters in order
    stage,     \* progress of each enrollment
    who,       \* its user
    mine,      \* the speaker_embedding of the user object in its session
    rows,      \* what the SELECT of its rebuild returned
    search,    \* progress of each search
    live,      \* its caller's voice
    pool,      \* the rows its linear scan runs over
    found,     \* the match it resolved
    missed     \* history: users whose newest template lost its rebuild to a failure,
               \* or will be rebuilt over by an older one

vars == <<enrolled, index, queue, stage, who, mine, rows,
          search, live, pool, found, missed>>

enrolling == <<stage, who, mine, rows>>
searching == <<search, live, pool, found>>

Column == [Users -> Templates \cup {Nothing}]

\* Past the commit and not yet in the lock's queue.
Coming == {"committed", "refreshed"}

Owing == Coming \cup {"waiting", "building"}

\* The lock's queue holds the handlers inside build_index and no other.
TypeOK ==
    /\ enrolled \in Column
    /\ index \in Column \cup {Nothing}
    /\ queue \in Seq(Enrollers)
    /\ stage \in [Enrollers -> {"idle", "201", "422", "500", "lost"} \cup Owing]
    /\ who \in [Enrollers -> Users \cup {Nothing}]
    /\ mine \in [Enrollers -> Templates \cup {Nothing}]
    /\ rows \in [Enrollers -> Column \cup {Nothing}]
    /\ search \in [Searchers -> {"idle", "scanning", "resolved", "404", "500", "lost"}]
    /\ live \in [Searchers -> Voices \cup {Nothing}]
    /\ pool \in [Searchers -> Column \cup {Nothing}]
    /\ found \in [Searchers -> [user : Users, template : Templates] \cup {Nothing}]
    /\ missed \in SUBSET Users
    /\ \A r \in Enrollers : stage[r] \in {"waiting", "building"}
                                <=> \E i \in 1..Len(queue) : queue[i] = r

Unenrolled == [u \in Users |-> Nothing]

\* What build_index leaves: without any template it returns before it touches
\* the index.
Built(column, old) == IF column = Unenrolled THEN old ELSE column

\* The application starts on the table earlier runs left.
Init ==
    /\ enrolled \in Column
    /\ index = Built(enrolled, Nothing)
    /\ queue = <<>>
    /\ stage = [r \in Enrollers |-> "idle"]
    /\ who = [r \in Enrollers |-> Nothing]
    /\ mine = [r \in Enrollers |-> Nothing]
    /\ rows = [r \in Enrollers |-> Nothing]
    /\ search = [s \in Searchers |-> "idle"]
    /\ live = [s \in Searchers |-> Nothing]
    /\ pool = [s \in Searchers |-> Nothing]
    /\ found = [s \in Searchers |-> Nothing]
    /\ missed = {}

-----------------------------------------------------------------------------
(* POST /users/enroll                                                      *)

\* Decoding and both extractions succeed; the embeddings are assigned and
\* committed.
Commit(r) ==
    /\ stage[r] = "idle"
    /\ \E u \in Users, t \in Templates :
        /\ enrolled' = [enrolled EXCEPT ![u] = t]
        /\ who' = [who EXCEPT ![r] = u]
        /\ mine' = [mine EXCEPT ![r] = t]
        /\ missed' = missed \ {u}
    /\ stage' = [stage EXCEPT ![r] = "committed"]
    /\ UNCHANGED <<index, queue, rows, searching>>

\* Invalid media or a provider without a face is a 422; any other failure up to
\* and including the commit is rolled back to a 500.
Refuse(r) ==
    /\ stage[r] = "idle"
    /\ \E code \in {"422", "500"} : stage' = [stage EXCEPT ![r] = code]
    /\ UNCHANGED <<enrolled, index, queue, who, mine, rows, searching, missed>>

\* The refresh after the commit reads the row again, so that the session keeps the
\* newest template, be it this enrollment's or a later one's.
Refresh(r) ==
    /\ stage[r] = "committed"
    /\ mine' = [mine EXCEPT ![r] = enrolled[who[r]]]
    /\ stage' = [stage EXCEPT ![r] = "refreshed"]
    /\ UNCHANGED <<enrolled, index, queue, who, rows, searching, missed>>

\* Another enrollment of the user was committed since the SELECT of the refresh and
\* is in the queue or through it already.
Overtaken(r) ==
    /\ mine[r] # enrolled[who[r]]
    /\ \A x \in Enrollers \ {r} : who[x] = who[r] => stage[x] \notin Coming

\* async with _lock: the handler waits behind those that came before.  The driver
\* has still to fetch the row and to close the cursor in between, so a handler that
\* is held up there joins with an older template than the one the index gets.
Join(r) ==
    /\ stage[r] = "refreshed"
    /\ queue' = Append(queue, r)
    /\ stage' = [stage EXCEPT ![r] = "waiting"]
    /\ missed' = IF Overtaken(r) THEN missed \cup {who[r]} ELSE missed
    /\ UNCHANGED <<enrolled, index, who, mine, rows, searching>>

\* The refresh fails: the handler answers as if the commit had, and no rebuild
\* is made.
RefreshFails(r) ==
    /\ stage[r] = "committed"
    /\ stage' = [stage EXCEPT ![r] = "500"]
    /\ missed' = missed \cup {who[r]}
    /\ UNCHANGED <<enrolled, index, queue, who, mine, rows, searching>>

\* Faulty variant: rebuilds do not exclude one another.
HoldsNone(r) == \E i \in 1..Len(queue) : queue[i] = r

Holds(r) == queue # <<>> /\ Head(queue) = r

\* The users a SELECT in the handler's session returns.
View(r) == [enrolled EXCEPT ![who[r]] = mine[r]]

Load(r) ==
    /\ stage[r] = "waiting"
    /\ Holds(r)
    /\ rows' = [rows EXCEPT ![r] = View(r)]
    /\ stage' = [stage EXCEPT ![r] = "building"]
    /\ UNCHANGED <<enrolled, index, queue, who, mine, searching, missed>>

\* Faulty variant: an error path that keeps the lock.
LeaveNever(r) == UNCHANGED queue

\* The holder releases the lock.
Leave(r) == queue' = Tail(queue)

\* The handler is answered 201 and its session closed.
Answer(r) ==
    /\ Leave(r)
    /\ stage' = [stage EXCEPT ![r] = "201"]
    /\ rows' = [rows EXCEPT ![r] = Nothing]

\* No await separates the new index, its user ids and the flag.
Replace(r) ==
    /\ stage[r] = "building"
    /\ index' = Built(rows[r], index)
    /\ Answer(r)
    /\ UNCHANGED <<enrolled, who, mine, searching, missed>>

\* A failed rebuild is logged and the enrollment still answered 201.  The old
\* index stays, unless adding the vectors to the new one was what failed.
RebuildFails(r) ==
    /\ stage[r] \in {"waiting", "building"}
    /\ Holds(r)
    /\ \/ index' = index /\ missed' = missed \cup {who[r]}
       \/ /\ stage[r] = "building" /\ index # Nothing
          /\ index' = Unenrolled
          /\ missed' = {u \in Users : enrolled[u] # Nothing}
    /\ Answer(r)
    /\ UNCHANGED <<enrolled, who, mine, searching>>

-----------------------------------------------------------------------------
(* The identity search                                                     *)

\* The users whose template in a column the voice matches; the best of them is
\* any of them.
Candidates(column, v) == {u \in Users : column[u] \in Matches[v]}

Resolve(s, column, v) ==
    \/ \E u \in Candidates(column, v) :
        /\ found' = [found EXCEPT ![s] = [user |-> u, template |-> column[u]]]
        /\ search' = [search EXCEPT ![s] = "resolved"]
    \/ /\ Candidates(column, v) = {}
       /\ search' = [search EXCEPT ![s] = "404"]
       /\ UNCHANGED found

\* search_voiceprint answers from the index, without an await.
AskIndex(s) ==
    /\ search[s] = "idle"
    /\ index # Nothing
    /\ \E v \in Voices :
        /\ live' = [live EXCEPT ![s] = v]
        /\ Resolve(s, index, v)
    /\ UNCHANGED <<enrolled, index, queue, enrolling, pool, missed>>

\* VoiceprintIndexError: every user is loaded, then compared one by one behind
\* the inference gate.
StartScan(s) ==
    /\ search[s] = "idle"
    /\ index = Nothing
    /\ \E v \in Voices : live' = [live EXCEPT ![s] = v]
    /\ pool' = [pool EXCEPT ![s] = enrolled]
    /\ search' = [search EXCEPT ![s] = "scanning"]
    /\ UNCHANGED <<enrolled, index, queue, enrolling, found, missed>>

FinishScan(s) ==
    /\ search[s] = "scanning"
    /\ Resolve(s, pool[s], live[s])
    /\ pool' = [pool EXCEPT ![s] = Nothing]
    /\ UNCHANGED <<enrolled, index, queue, enrolling, live, missed>>

ScanFails(s) ==
    /\ search[s] = "scanning"
    /\ search' = [search EXCEPT ![s] = "500"]
    /\ pool' = [pool EXCEPT ![s] = Nothing]
    /\ UNCHANGED <<enrolled, index, queue, enrolling, live, found, missed>>

-----------------------------------------------------------------------------

\* initialize_voiceprint_index, before the first request is served.
Rebuilt == Built(enrolled, Nothing)

\* The process dies and starts again: memory is gone, the table is not.
Restart ==
    /\ index' = Rebuilt
    /\ queue' = <<>>
    /\ stage' = [r \in Enrollers |-> IF stage[r] \in Owing THEN "lost" ELSE stage[r]]
    /\ rows' = [r \in Enrollers |-> Nothing]
    /\ search' = [s \in Searchers |-> IF search[s] = "scanning" THEN "lost" ELSE search[s]]
    /\ pool' = [s \in Searchers |-> Nothing]
    /\ missed' = {}
    /\ UNCHANGED <<enrolled, who, mine, live, found>>

\* The course of an enrollment that has begun, failures aside.
Proceed(r) == Refresh(r) \/ Join(r) \/ Load(r) \/ Replace(r)

Next ==
    \/ \E r \in Enrollers :
        Commit(r) \/ Refuse(r) \/ Proceed(r) \/ RefreshFails(r) \/ RebuildFails(r)
    \/ \E s \in Searchers : AskIndex(s) \/ StartScan(s) \/ FinishScan(s) \/ ScanFails(s)
    \/ Restart

Spec == Init /\ [][Next]_vars

\* The event loop resumes every handler whose await completed; each holder of
\* the lock releases it in a finally.
FairSpec == Spec /\ \A r \in Enrollers : WF_vars(Proceed(r))

-----------------------------------------------------------------------------
(* Correctness                                                             *)

\* The template a search through the index would compare for a user.
Indexed(u) == IF index = Nothing THEN Nothing ELSE index[u]

Stale(u) == Indexed(u) # enrolled[u]

Owed(u) == \E r \in Enrollers : who[r] = u /\ stage[r] \in Owing

\* The index differs from the table only for a user whose own enrollment is
\* still on its way to a rebuild, or lost it to a failure that was reported:
\* however rebuilds overlap, a slower one never undoes a newer, unless its handler
\* was overtaken between its refresh and the lock.
StaleOnlyWhileOwed == \A u \in Users : Stale(u) => Owed(u) \/ u \in missed

\* A search through the index resolves a user only by the template the table
\* holds, but for a user whose rebuild is owed or was missed.
ResolvesEnrolled ==
    [][\A s \in Searchers : search[s] = "idle" /\ search'[s] = "resolved" =>
          LET m == found'[s]
          IN  m.template = enrolled[m.user] \/ Owed(m.user) \/ m.user \in missed]_vars

\* Every stale user is caught up with or given up on: an enrollment that reached
\* its commit gets through the lock, behind whoever holds it.
CatchesUp == \A u \in Users : Stale(u) ~> ~Stale(u) \/ u \in missed
=============================================================================
