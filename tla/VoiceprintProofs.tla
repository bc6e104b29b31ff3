-------------------------- MODULE VoiceprintProofs --------------------------
(***************************************************************************)
(* The index is stale only while a rebuild is owed, for every number of    *)
(* users, templates and overlapping enrollments, checked by TLAPS.         *)
(*                                                                         *)
(* The argument is about the order of the lock's queue.  An enrollment     *)
(* joins the queue after it refreshed its user, so among the enrollments   *)
(* of one user the last in the queue holds the newest template, unless it  *)
(* was overtaken on its way there; those behind it belong to other users   *)
(* and will read this one from the table when their turn comes.            *)
(***************************************************************************)
EXTENDS Voiceprint, TLAPS

\* A handler is in the queue once.
Once ==
    \A i, j \in 1..Len(queue) : queue[i] = queue[j] => i = j

\* An enrollment past its commit has its user and a template of it.
Committed ==
    \A r \in Enrollers : stage[r] \in Owing =>
        who[r] \in Users /\ mine[r] \in Templates /\ enrolled[who[r]] \in Templates

\* Only the holder has loaded rows, its own user's as the session knows it.
HolderLoaded ==
    \A r \in Enrollers : stage[r] = "building" =>
        Holds(r) /\ rows[r] \in Column /\ rows[r][who[r]] = mine[r]

\* Some enrollment of u in the queue has its newest template, and the ones
\* behind it are of other users.
Carried(u) ==
    \E i \in 1..Len(queue) :
        /\ who[queue[i]] = u
        /\ mine[queue[i]] = enrolled[u]
        /\ \A j \in 1..Len(queue) : j > i => who[queue[j]] # u

Arriving(u) == \E r \in Enrollers : who[r] = u /\ stage[r] \in Coming

\* The index, the rows about to replace it and whatever the queue may still
\* write agree with the table on u.
Settled(u) ==
    /\ Indexed(u) = enrolled[u]
    /\ \A r \in Enrollers :
        /\ stage[r] = "building" => rows[r][u] = enrolled[u]
        /\ stage[r] = "waiting" /\ who[r] = u => mine[r] = enrolled[u]

Tracked == \A u \in Users : u \in missed \/ Arriving(u) \/ Carried(u) \/ Settled(u)

\* A linear scan runs over rows it loaded, for the voice it was given.
ScansLoaded ==
    \A s \in Searchers : search[s] = "scanning" => pool[s] \in Column /\ live[s] \in Voices

Inv == TypeOK /\ Once /\ Committed /\ HolderLoaded /\ Tracked /\ ScansLoaded

USE DEF Coming

-----------------------------------------------------------------------------

\* Leaving the queue moves every waiter one place up.
LEMMA TailPlaces ==
    ASSUME NEW S, NEW q \in Seq(S), q # <<>>
    PROVE  /\ Tail(q) \in Seq(S)
           /\ Len(Tail(q)) = Len(q) - 1
           /\ Len(q) \in Nat \ {0}
           /\ Head(q) = q[1]
           /\ \A i \in 1..(Len(q) - 1) : Tail(q)[i] = q[i + 1]
  OBVIOUS

\* Joining the queue leaves every place as it is and adds one.
LEMMA AppendPlaces ==
    ASSUME NEW S, NEW q \in Seq(S), NEW e \in S
    PROVE  /\ Append(q, e) \in Seq(S)
           /\ Len(q) \in Nat
           /\ Len(Append(q, e)) = Len(q) + 1
           /\ Append(q, e)[Len(q) + 1] = e
           /\ \A i \in 1..Len(q) : Append(q, e)[i] = q[i]
  OBVIOUS

\* The state built from the table at startup satisfies Inv.
LEMMA InitInv == Init => Inv
  <1> SUFFICES ASSUME Init PROVE Inv
    OBVIOUS
  <1> USE ConstantsAssumption DEF Init
  <1>0. Unenrolled \in Column /\ Unenrolled # Nothing /\ enrolled # Nothing
    BY DEF Unenrolled, Column
  <1>1. TypeOK
    <2>1. enrolled \in Column /\ index \in Column \cup {Nothing}
      BY <1>0 DEF Built
    <2>2. queue \in Seq(Enrollers) /\ Len(queue) = 0
      OBVIOUS
    <2>3. \A r \in Enrollers : stage[r] \in {"waiting", "building"}
                                <=> \E i \in 1..Len(queue) : queue[i] = r
      BY <2>2
    <2> QED
      BY <2>1, <2>2, <2>3 DEF TypeOK
  <1>2. Once /\ Committed /\ HolderLoaded /\ ScansLoaded
    BY DEF Once, Committed, HolderLoaded, ScansLoaded, Owing
  <1>3. Tracked
    BY <1>0 DEF Tracked, Settled, Indexed, Built, Unenrolled
  <1> QED
    BY <1>1, <1>2, <1>3 DEF Inv

\* A step that leaves the table, the index and the enrollments alone.
LEMMA IdleStep ==
    ASSUME Inv, UNCHANGED <<enrolled, index, queue, stage, who, mine, rows, missed>>,
           TypeOK', ScansLoaded'
    PROVE  Inv'
  <1>1. Once' /\ Committed' /\ HolderLoaded'
    BY DEF Inv, Once, Committed, HolderLoaded, Holds
  <1>2. Tracked'
    BY DEF Inv, Tracked, Arriving, Carried, Settled, Indexed
  <1> QED
    BY <1>1, <1>2 DEF Inv

\* The searches read the index and the table and write neither.
LEMMA SearchStep ==
    ASSUME Inv, NEW s \in Searchers,
           AskIndex(s) \/ StartScan(s) \/ FinishScan(s) \/ ScanFails(s)
    PROVE  Inv'
  <1> USE ConstantsAssumption DEF Inv, TypeOK, ScansLoaded, enrolling
  <1>0. ASSUME NEW c \in Column, NEW v \in Voices, Resolve(s, c, v)
        PROVE  /\ found' \in [Searchers -> [user : Users, template : Templates] \cup {Nothing}]
               /\ search' \in [Searchers -> {"idle", "scanning", "resolved", "404", "500", "lost"}]
               /\ \A z \in Searchers : search'[z] = "scanning" => z # s /\ search[z] = "scanning"
    <2>1. \A u \in Candidates(c, v) : u \in Users /\ c[u] \in Templates
      BY DEF Candidates
    <2>2. CASE Candidates(c, v) = {} /\ search' = [search EXCEPT ![s] = "404"]
                                    /\ UNCHANGED found
      BY <2>2
    <2>3. ASSUME NEW u \in Candidates(c, v),
                 found' = [found EXCEPT ![s] = [user |-> u, template |-> c[u]]],
                 search' = [search EXCEPT ![s] = "resolved"]
          PROVE  /\ found' \in [Searchers -> [user : Users, template : Templates] \cup {Nothing}]
                 /\ search' \in [Searchers -> {"idle", "scanning", "resolved", "404", "500", "lost"}]
                 /\ \A z \in Searchers : search'[z] = "scanning" => z # s /\ search[z] = "scanning"
      <3>1. [user |-> u, template |-> c[u]] \in [user : Users, template : Templates]
        BY <2>1
      <3> QED
        BY <2>3, <3>1
    <2> QED
      BY <1>0, <2>2, <2>3 DEF Resolve
  <1>1. UNCHANGED <<enrolled, index, queue, stage, who, mine, rows, missed>>
    BY DEF AskIndex, StartScan, FinishScan, ScanFails
  <1>2. CASE AskIndex(s)
    <2>1. index \in Column
      BY <1>2 DEF AskIndex
    <2>2. TypeOK' /\ ScansLoaded'
      BY <1>0, <1>2, <2>1 DEF AskIndex
    <2> QED
      BY <1>1, <2>2, IdleStep
  <1>3. CASE StartScan(s)
    <2>1. TypeOK' /\ ScansLoaded'
      BY <1>3 DEF StartScan
    <2> QED
      BY <1>1, <2>1, IdleStep
  <1>4. CASE FinishScan(s)
    <2>1. pool[s] \in Column /\ live[s] \in Voices
      BY <1>4 DEF FinishScan
    <2>2. TypeOK' /\ ScansLoaded'
      BY <1>0, <1>4, <2>1 DEF FinishScan
    <2> QED
      BY <1>1, <2>2, IdleStep
  <1>5. CASE ScanFails(s)
    <2>1. TypeOK' /\ ScansLoaded'
      BY <1>5 DEF ScanFails
    <2> QED
      BY <1>1, <2>1, IdleStep
  <1> QED
    BY <1>2, <1>3, <1>4, <1>5

\* A new template waits for its own refresh; nobody else's place changes.
LEMMA CommitStep == ASSUME Inv, NEW r \in Enrollers, Commit(r) PROVE Inv'
  <1> USE DEF Inv, searching
  <1>1. PICK u \in Users, t \in Templates :
            /\ enrolled' = [enrolled EXCEPT ![u] = t]
            /\ who' = [who EXCEPT ![r] = u]
            /\ mine' = [mine EXCEPT ![r] = t]
            /\ missed' = missed \ {u}
    BY DEF Commit
  <1>2. \A i \in 1..Len(queue) : queue[i] # r /\ queue[i] \in Enrollers
    BY DEF Commit, TypeOK
  <1>3. TypeOK'
    BY <1>1 DEF Commit, TypeOK, Column, Owing
  <1>4. Once' /\ Committed' /\ ScansLoaded'
    BY <1>1 DEF Commit, Once, Committed, ScansLoaded, TypeOK, Column, Owing
  <1>5. HolderLoaded'
    BY <1>1 DEF Commit, HolderLoaded, Holds, TypeOK
  <1>6. \A v \in Users \ {u} : v \in missed \/ Arriving(v) \/ Carried(v) \/ Settled(v)
            => v \in missed' \/ Arriving(v)' \/ Carried(v)' \/ Settled(v)'
    <2> SUFFICES ASSUME NEW v \in Users, v # u,
                        v \in missed \/ Arriving(v) \/ Carried(v) \/ Settled(v)
                 PROVE  v \in missed' \/ Arriving(v)' \/ Carried(v)' \/ Settled(v)'
      OBVIOUS
    <2>1. enrolled'[v] = enrolled[v]
      BY <1>1 DEF TypeOK, Column
    <2>2. Arriving(v) => Arriving(v)'
      BY <1>1 DEF Arriving, Commit, TypeOK
    <2>3. Carried(v) => Carried(v)'
      BY <1>1, <1>2, <2>1 DEF Carried, Commit, TypeOK
    <2>4. Settled(v) => Settled(v)'
      BY <2>1 DEF Settled, Indexed, Commit, TypeOK
    <2> QED
      BY <1>1, <2>2, <2>3, <2>4
  <1>7. Arriving(u)'
    BY <1>1 DEF Arriving, Commit, TypeOK
  <1>8. Tracked'
    BY <1>6, <1>7 DEF Tracked
  <1> QED
    BY <1>3, <1>4, <1>5, <1>8

\* An enrollment refused before its commit, or one whose refresh failed, leaves
\* the table, the index and the queue alone.
LEMMA RefuseStep == ASSUME Inv, NEW r \in Enrollers, Refuse(r) \/ RefreshFails(r) PROVE Inv'
  <1> USE DEF Inv, searching
  <1>1. \A i \in 1..Len(queue) : queue[i] # r /\ queue[i] \in Enrollers
    BY DEF Refuse, RefreshFails, TypeOK
  <1>2. CASE Refuse(r)
    <2>1. TypeOK' /\ Once' /\ Committed' /\ ScansLoaded'
      BY <1>2 DEF Refuse, TypeOK, Once, Committed, ScansLoaded, Owing
    <2>2. HolderLoaded'
      BY <1>2 DEF Refuse, HolderLoaded, Holds, TypeOK
    <2>3. Tracked'
      <3> SUFFICES ASSUME NEW v \in Users
                   PROVE  v \in missed' \/ Arriving(v)' \/ Carried(v)' \/ Settled(v)'
        BY DEF Tracked
      <3>1. (Arriving(v) => Arriving(v)') /\ (Carried(v) => Carried(v)')
        BY <1>2 DEF Refuse, Arriving, Carried, TypeOK
      <3>2. Settled(v) => Settled(v)'
        BY <1>2 DEF Refuse, Settled, Indexed, TypeOK
      <3> QED
        BY <1>2, <3>1, <3>2 DEF Refuse, Tracked
    <2> QED
      BY <2>1, <2>2, <2>3
  <1>3. CASE RefreshFails(r)
    <2>0. who[r] \in Users
      BY <1>3 DEF RefreshFails, Committed, Owing
    <2>1. TypeOK' /\ Once' /\ Committed' /\ ScansLoaded'
      BY <1>3, <2>0 DEF RefreshFails, TypeOK, Once, Committed, ScansLoaded, Owing
    <2>2. HolderLoaded'
      BY <1>3 DEF RefreshFails, HolderLoaded, Holds, TypeOK
    <2>3. Tracked'
      <3> SUFFICES ASSUME NEW v \in Users, v # who[r]
                   PROVE  v \in missed' \/ Arriving(v)' \/ Carried(v)' \/ Settled(v)'
        BY <1>3 DEF RefreshFails, Tracked
      <3>1. (Arriving(v) => Arriving(v)') /\ (Carried(v) => Carried(v)')
        BY <1>3 DEF RefreshFails, Arriving, Carried, TypeOK
      <3>2. Settled(v) => Settled(v)'
        BY <1>3 DEF RefreshFails, Settled, Indexed, TypeOK
      <3> QED
        BY <1>3, <3>1, <3>2 DEF RefreshFails, Tracked
    <2> QED
      BY <2>1, <2>2, <2>3
  <1> QED
    BY <1>2, <1>3

\* The refreshed row is as good as the committed one; nobody's place changes.
LEMMA RefreshStep == ASSUME Inv, NEW r \in Enrollers, Refresh(r) PROVE Inv'
  <1> USE DEF Inv, searching
  <1>1. /\ stage[r] = "committed" /\ who[r] \in Users /\ enrolled[who[r]] \in Templates
        /\ mine' = [mine EXCEPT ![r] = enrolled[who[r]]]
        /\ stage' = [stage EXCEPT ![r] = "refreshed"]
        /\ UNCHANGED <<enrolled, index, queue, who, rows, missed>>
    BY DEF Refresh, Committed, Owing
  <1>2. \A i \in 1..Len(queue) : queue[i] # r /\ queue[i] \in Enrollers
    BY <1>1 DEF TypeOK
  <1>3. TypeOK'
    <2>1. /\ stage' \in [Enrollers -> {"idle", "201", "422", "500", "lost"} \cup Owing]
          /\ mine' \in [Enrollers -> Templates \cup {Nothing}]
      BY <1>1 DEF TypeOK, Owing
    <2>2. \A q \in Enrollers : stage'[q] \in {"waiting", "building"}
                                  <=> stage[q] \in {"waiting", "building"}
      BY <1>1 DEF TypeOK
    <2>3. UNCHANGED <<enrolled, index, queue, who, rows, missed, search, live, pool, found>>
      BY DEF Refresh
    <2>4. \A q \in Enrollers : stage'[q] \in {"waiting", "building"}
                                  <=> \E i \in 1..Len(queue') : queue'[i] = q
      BY <2>2, <2>3 DEF TypeOK
    <2> QED
      BY <2>1, <2>3, <2>4 DEF TypeOK
  <1>31. Committed'
    BY <1>1 DEF TypeOK, Committed, Owing
  <1>32. Once' /\ ScansLoaded'
    BY <1>1 DEF Once, ScansLoaded, Refresh
  <1>4. HolderLoaded'
    BY <1>1 DEF HolderLoaded, Holds, TypeOK
  <1>5. ASSUME NEW v \in Users
        PROVE  v \in missed' \/ Arriving(v)' \/ Carried(v)' \/ Settled(v)'
    <2>1. Arriving(v) => Arriving(v)'
      BY <1>1 DEF Arriving, TypeOK
    <2>2. Carried(v) => Carried(v)'
      BY <1>1, <1>2 DEF Carried, TypeOK
    <2>3. Settled(v) => Settled(v)'
      BY <1>1 DEF Settled, Indexed, TypeOK
    <2> QED
      BY <1>1, <2>1, <2>2, <2>3 DEF Tracked
  <1> QED
    BY <1>3, <1>31, <1>32, <1>4, <1>5 DEF Tracked

\* The enrollment that joins is last in the queue.  If it has the newest template of
\* its user it is the one that carries it; if not, another one is to come after it,
\* or it was overtaken.
LEMMA JoinStep == ASSUME Inv, NEW r \in Enrollers, Join(r) PROVE Inv'
  <1> USE DEF Inv, searching
  <1>1. /\ queue' = Append(queue, r) /\ queue' \in Seq(Enrollers)
        /\ Len(queue) \in Nat /\ Len(queue') = Len(queue) + 1
        /\ queue'[Len(queue) + 1] = r
        /\ \A i \in 1..Len(queue) : queue'[i] = queue[i]
    <2>1. queue \in Seq(Enrollers) /\ queue' = Append(queue, r)
      BY DEF Join, TypeOK
    <2> QED
      BY <2>1, AppendPlaces
  <1>2. /\ stage[r] = "refreshed" /\ who[r] \in Users
        /\ stage' = [stage EXCEPT ![r] = "waiting"]
        /\ missed' = IF Overtaken(r) THEN missed \cup {who[r]} ELSE missed
        /\ UNCHANGED <<enrolled, index, who, mine, rows>>
    BY DEF Join, Committed, Owing
  <1>3. \A i \in 1..Len(queue) : queue[i] # r /\ queue[i] \in Enrollers
    BY <1>2 DEF TypeOK
  <1>4. \A q \in Enrollers : stage'[q] \in {"waiting", "building"}
                                <=> \E i \in 1..Len(queue') : queue'[i] = q
    <2> SUFFICES ASSUME NEW q \in Enrollers
                 PROVE  stage'[q] \in {"waiting", "building"}
                            <=> \E i \in 1..Len(queue') : queue'[i] = q
      OBVIOUS
    <2>1. CASE q = r
      BY <1>1, <1>2, <2>1 DEF TypeOK
    <2>2. CASE q # r
      BY <1>1, <1>2, <2>2 DEF TypeOK
    <2> QED
      BY <2>1, <2>2
  <1>6. TypeOK'
    BY <1>1, <1>2, <1>4 DEF TypeOK, Join, Owing
  <1>7. Once'
    BY <1>1, <1>3 DEF Once
  <1>8. Committed' /\ ScansLoaded'
    BY <1>2 DEF Committed, ScansLoaded, Join, TypeOK, Owing
  <1>9. HolderLoaded'
    <2> SUFFICES ASSUME NEW q \in Enrollers, stage'[q] = "building"
                 PROVE  Holds(q)' /\ rows'[q] \in Column /\ rows'[q][who'[q]] = mine'[q]
      BY DEF HolderLoaded
    <2>1. q # r /\ stage[q] = "building"
      BY <1>2 DEF TypeOK
    <2>2. Holds(q) /\ rows[q] \in Column /\ rows[q][who[q]] = mine[q]
      BY <2>1 DEF HolderLoaded
    <2>3. queue # <<>> /\ queue[1] = q /\ Len(queue) >= 1
      BY <2>2 DEF Holds, TypeOK
    <2>4. queue' # <<>> /\ Head(queue') = q
      BY <1>1, <2>3
    <2> QED
      BY <1>2, <2>1, <2>2, <2>4 DEF Holds, TypeOK
  <1>10. ASSUME NEW v \in Users, v = who[r], mine[r] = enrolled[v] PROVE Carried(v)'
    <2> DEFINE n == Len(queue) + 1
    <2>1. n \in 1..Len(queue') /\ queue'[n] = r /\ \A j \in 1..Len(queue') : ~(j > n)
      BY <1>1
    <2>2. who'[r] = v /\ mine'[r] = enrolled'[v]
      BY <1>2, <1>10 DEF TypeOK
    <2> QED
      BY <2>1, <2>2 DEF Carried
  <1>11. ASSUME NEW v \in Users, v # who[r]
         PROVE  v \in missed' \/ Arriving(v)' \/ Carried(v)' \/ Settled(v)'
    <2>1. Arriving(v) => Arriving(v)'
      BY <1>2, <1>11 DEF Arriving, TypeOK
    <2>2. Carried(v) => Carried(v)'
      <3> SUFFICES ASSUME Carried(v) PROVE Carried(v)'
        OBVIOUS
      <3>1. PICK i \in 1..Len(queue) :
                /\ who[queue[i]] = v
                /\ mine[queue[i]] = enrolled[v]
                /\ \A j \in 1..Len(queue) : j > i => who[queue[j]] # v
        BY DEF Carried
      <3>2. i \in 1..Len(queue') /\ queue'[i] = queue[i]
        BY <1>1
      <3>3. mine'[queue[i]] = enrolled'[v] /\ who'[queue[i]] = v
        BY <1>2, <1>3, <3>1 DEF TypeOK
      <3>4. \A j \in 1..Len(queue') : j > i => who'[queue'[j]] # v
        <4> SUFFICES ASSUME NEW j \in 1..Len(queue'), j > i PROVE who'[queue'[j]] # v
          OBVIOUS
        <4>1. CASE j = Len(queue) + 1
          BY <1>1, <1>2, <1>11, <4>1
        <4>2. CASE j \in 1..Len(queue)
          BY <1>1, <1>2, <3>1, <4>2
        <4> QED
          BY <1>1, <4>1, <4>2
      <3> QED
        BY <3>2, <3>3, <3>4 DEF Carried
    <2>3. Settled(v) => Settled(v)'
      BY <1>2, <1>11 DEF Settled, Indexed, TypeOK
    <2>4. missed \subseteq missed'
      BY <1>2
    <2> QED
      BY <2>1, <2>2, <2>3, <2>4 DEF Tracked
  <1>12. ASSUME NEW v \in Users, v = who[r], mine[r] # enrolled[v]
         PROVE  v \in missed' \/ Arriving(v)'
    <2>1. CASE Overtaken(r)
      BY <1>2, <1>12, <2>1
    <2>2. CASE ~Overtaken(r)
      <3>1. PICK x \in Enrollers \ {r} : who[x] = v /\ stage[x] \in Coming
        BY <1>12, <2>2 DEF Overtaken
      <3> QED
        BY <1>2, <3>1 DEF Arriving, TypeOK
    <2> QED
      BY <2>1, <2>2
  <1>13. Tracked'
    BY <1>10, <1>11, <1>12 DEF Tracked
  <1> QED
    BY <1>6, <1>7, <1>8, <1>9, <1>13

\* The holder loads every other user from the table as it is, and its own from
\* its session, which is current unless a later enrollment of it is queued.
LEMMA LoadStep == ASSUME Inv, NEW r \in Enrollers, Load(r) PROVE Inv'
  <1> USE DEF Inv, searching
  <1>1. /\ stage[r] = "waiting" /\ Holds(r)
        /\ rows' = [rows EXCEPT ![r] = View(r)]
        /\ stage' = [stage EXCEPT ![r] = "building"]
        /\ UNCHANGED <<enrolled, index, queue, who, mine, missed>>
    BY DEF Load
  <1>2. who[r] \in Users /\ mine[r] \in Templates
    BY <1>1 DEF Committed, Owing
  <1>3. /\ View(r) \in Column /\ View(r)[who[r]] = mine[r]
        /\ \A v \in Users : v # who[r] => View(r)[v] = enrolled[v]
    BY <1>2 DEF View, TypeOK, Column
  <1>4. \A q \in Enrollers : stage[q] # "building"
    <2> SUFFICES ASSUME NEW q \in Enrollers, stage[q] = "building" PROVE FALSE
      OBVIOUS
    <2>1. Head(queue) = q /\ Head(queue) = r
      BY <1>1 DEF HolderLoaded, Holds
    <2> QED
      BY <1>1, <2>1
  <1>5. TypeOK' /\ Once' /\ Committed' /\ ScansLoaded'
    BY <1>1, <1>3 DEF TypeOK, Once, Committed, ScansLoaded, Load, Owing
  <1>6. HolderLoaded'
    BY <1>1, <1>3, <1>4 DEF HolderLoaded, Holds, TypeOK
  <1>7. ASSUME NEW v \in Users
        PROVE  v \in missed' \/ Arriving(v)' \/ Carried(v)' \/ Settled(v)'
    <2>1. Arriving(v) => Arriving(v)'
      BY <1>1 DEF Arriving, TypeOK
    <2>2. Carried(v) => Carried(v)'
      BY <1>1 DEF Carried
    <2>3. Settled(v) /\ View(r)[v] = enrolled[v] => Settled(v)'
      BY <1>1, <1>4 DEF Settled, Indexed, TypeOK
    <2>4. Settled(v) => View(r)[v] = enrolled[v]
      BY <1>1, <1>3 DEF Settled
    <2> QED
      BY <1>1, <1>3, <2>1, <2>2, <2>3, <2>4 DEF Tracked
  <1> QED
    BY <1>5, <1>6, <1>7 DEF Tracked

\* What leaving the head does to the places of the others.
LEMMA AnswerPlaces ==
    ASSUME Inv, NEW r \in Enrollers, Holds(r), Answer(r),
           stage[r] \in {"waiting", "building"},
           UNCHANGED <<enrolled, who, mine>>
    PROVE  /\ queue' \in Seq(Enrollers)
           /\ Len(queue') = Len(queue) - 1 /\ Len(queue) \in Nat \ {0}
           /\ queue[1] = r
           /\ \A i \in 1..Len(queue') : queue'[i] = queue[i + 1] /\ queue'[i] # r
           /\ \A q \in Enrollers : stage'[q] \in {"waiting", "building"}
                                        <=> \E i \in 1..Len(queue') : queue'[i] = q
           /\ Once'
           /\ \A q \in Enrollers : stage'[q] # "building"
           /\ \A q \in Enrollers : q # r => stage'[q] = stage[q]
           /\ stage'[r] = "201"
  <1> USE DEF Inv
  <1>1. /\ queue \in Seq(Enrollers) /\ queue # <<>>
        /\ queue' = Tail(queue) /\ Head(queue) = r
        /\ stage' = [stage EXCEPT ![r] = "201"]
    BY DEF Answer, Leave, Holds, TypeOK
  <1>2. /\ queue' \in Seq(Enrollers)
        /\ Len(queue') = Len(queue) - 1 /\ Len(queue) \in Nat \ {0}
        /\ queue[1] = r
        /\ \A i \in 1..(Len(queue) - 1) : queue'[i] = queue[i + 1]
    BY <1>1, TailPlaces
  <1>3. \A i \in 1..Len(queue') : queue'[i] = queue[i + 1] /\ queue'[i] # r
    <2> SUFFICES ASSUME NEW i \in 1..Len(queue')
                 PROVE  queue'[i] = queue[i + 1] /\ queue'[i] # r
      OBVIOUS
    <2>1. i + 1 \in 1..Len(queue) /\ 1 \in 1..Len(queue) /\ i + 1 # 1
      BY <1>2
    <2> QED
      BY <1>2, <2>1 DEF Once
  <1>4. /\ \A q \in Enrollers : q # r => stage'[q] = stage[q]
        /\ stage'[r] = "201"
    BY <1>1 DEF TypeOK
  <1>5. \A q \in Enrollers : stage'[q] # "building"
    BY <1>1, <1>4 DEF HolderLoaded, Holds
  <1>6. \A q \in Enrollers : stage'[q] \in {"waiting", "building"}
                                <=> \E i \in 1..Len(queue') : queue'[i] = q
    <2> SUFFICES ASSUME NEW q \in Enrollers
                 PROVE  stage'[q] \in {"waiting", "building"}
                            <=> \E i \in 1..Len(queue') : queue'[i] = q
      OBVIOUS
    <2>1. CASE q = r
      BY <1>3, <1>4, <2>1
    <2>2. CASE q # r
      <3>1. stage'[q] \in {"waiting", "building"} <=> \E i \in 1..Len(queue) : queue[i] = q
        BY <1>4, <2>2 DEF TypeOK
      <3>2. ASSUME NEW i \in 1..Len(queue), queue[i] = q
            PROVE  \E k \in 1..Len(queue') : queue'[k] = q
        <4>1. i - 1 \in 1..Len(queue') /\ (i - 1) + 1 = i
          BY <1>2, <2>2, <3>2
        <4> QED
          BY <1>3, <3>2, <4>1
      <3>3. ASSUME NEW i \in 1..Len(queue'), queue'[i] = q
            PROVE  \E k \in 1..Len(queue) : queue[k] = q
        <4>1. i + 1 \in 1..Len(queue)
          BY <1>2
        <4> QED
          BY <1>3, <3>3, <4>1
      <3> QED
        BY <3>1, <3>2, <3>3
    <2> QED
      BY <2>1, <2>2
  <1>7. Once'
    <2> SUFFICES ASSUME NEW i \in 1..Len(queue'), NEW j \in 1..Len(queue'),
                        queue'[i] = queue'[j]
                 PROVE  i = j
      BY DEF Once
    <2>1. i + 1 \in 1..Len(queue) /\ j + 1 \in 1..Len(queue)
      BY <1>2
    <2>2. queue[i + 1] = queue[j + 1]
      BY <1>3
    <2>3. i + 1 = j + 1
      BY <2>1, <2>2 DEF Once
    <2> QED
      BY <2>3
  <1> QED
    BY <1>2, <1>3, <1>4, <1>5, <1>6, <1>7

\* A user carried by the queue is still carried when the holder leaves, unless
\* the holder carried it, and then nobody behind it enrolls that user.
LEMMA AnswerCarries ==
    ASSUME Inv, NEW r \in Enrollers, Holds(r), Answer(r),
           stage[r] \in {"waiting", "building"},
           UNCHANGED <<enrolled, who, mine>>, NEW v \in Users, Carried(v)
    PROVE  \/ Carried(v)'
           \/ /\ who[r] = v /\ mine[r] = enrolled[v]
              /\ \A q \in Enrollers : stage'[q] = "waiting" => who[q] # v
  <1>1. PICK i \in 1..Len(queue) :
            /\ who[queue[i]] = v
            /\ mine[queue[i]] = enrolled[v]
            /\ \A j \in 1..Len(queue) : j > i => who[queue[j]] # v
    BY DEF Carried
  <1>2. /\ Len(queue') = Len(queue) - 1 /\ Len(queue) \in Nat \ {0}
        /\ queue[1] = r
        /\ \A k \in 1..Len(queue') : queue'[k] = queue[k + 1] /\ queue'[k] # r
        /\ \A q \in Enrollers : stage'[q] \in {"waiting", "building"}
                                        <=> \E k \in 1..Len(queue') : queue'[k] = q
    BY AnswerPlaces
  <1>3. CASE i = 1
    <2>1. ASSUME NEW q \in Enrollers, stage'[q] = "waiting" PROVE who[q] # v
      <3>1. PICK k \in 1..Len(queue') : queue'[k] = q
        BY <1>2, <2>1
      <3>2. k + 1 \in 1..Len(queue) /\ k + 1 > i /\ queue[k + 1] = q
        BY <1>2, <1>3, <3>1
      <3> QED
        BY <1>1, <3>2
    <2> QED
      BY <1>1, <1>2, <1>3, <2>1
  <1>4. CASE i # 1
    <2> DEFINE n == i - 1
    <2>1. n \in 1..Len(queue') /\ queue'[n] = queue[i]
      BY <1>2, <1>4
    <2>2. ASSUME NEW j \in 1..Len(queue'), j > n PROVE who'[queue'[j]] # v
      <3>1. j + 1 \in 1..Len(queue) /\ j + 1 > i /\ queue'[j] = queue[j + 1]
        BY <1>2, <2>2
      <3> QED
        BY <1>1, <3>1
    <2> QED
      BY <1>1, <2>1, <2>2 DEF Carried
  <1> QED
    BY <1>3, <1>4

\* The new index is the holder's rows, right for every user that nothing else
\* is on its way for.
LEMMA ReplaceStep == ASSUME Inv, NEW r \in Enrollers, Replace(r) PROVE Inv'
  <1> USE DEF Inv, searching
  <1>1. /\ stage[r] = "building" /\ Holds(r) /\ Answer(r)
        /\ rows[r] \in Column /\ rows[r][who[r]] = mine[r]
        /\ who[r] \in Users /\ mine[r] \in Templates
        /\ UNCHANGED <<enrolled, who, mine, missed, search, live, pool, found>>
    BY DEF Replace, HolderLoaded, Committed, Owing
  <1>2. index' = rows[r] /\ rows[r] # Nothing
    <2>1. rows[r] # Unenrolled
      BY <1>1, ConstantsAssumption DEF Unenrolled
    <2> QED
      BY <1>1, <2>1, ConstantsAssumption DEF Replace, Built, Column
  <1>3. /\ queue' \in Seq(Enrollers)
        /\ \A q \in Enrollers : stage'[q] \in {"waiting", "building"}
                                        <=> \E i \in 1..Len(queue') : queue'[i] = q
        /\ Once'
        /\ \A q \in Enrollers : stage'[q] # "building"
        /\ \A q \in Enrollers : q # r => stage'[q] = stage[q]
        /\ stage'[r] = "201"
    BY <1>1, AnswerPlaces
  <1>4. TypeOK'
    <2>1. stage' \in [Enrollers -> {"idle", "201", "422", "500", "lost"} \cup Owing]
      BY <1>1 DEF TypeOK, Answer
    <2>2. rows' \in [Enrollers -> Column \cup {Nothing}]
      BY <1>1 DEF TypeOK, Answer, Replace
    <2> QED
      BY <1>1, <1>2, <1>3, <2>1, <2>2 DEF TypeOK
  <1>5. Once' /\ HolderLoaded' /\ ScansLoaded'
    BY <1>1, <1>3 DEF HolderLoaded, ScansLoaded
  <1>6. Committed'
    BY <1>1, <1>3 DEF Committed, Owing
  <1>7. ASSUME NEW v \in Users
        PROVE  v \in missed' \/ Arriving(v)' \/ Carried(v)' \/ Settled(v)'
    <2>1. Arriving(v) => Arriving(v)'
      BY <1>1, <1>3 DEF Arriving
    <2>2. rows[r][v] = enrolled[v]
            /\ (\A q \in Enrollers : stage'[q] = "waiting" /\ who[q] = v => mine[q] = enrolled[v])
          => Settled(v)'
      BY <1>1, <1>2, <1>3 DEF Settled, Indexed
    <2>3. Carried(v) => Carried(v)' \/ Settled(v)'
      BY <1>1, <2>2, AnswerCarries
    <2>4. Settled(v) => Settled(v)'
      BY <1>1, <1>3, <2>2 DEF Settled
    <2> QED
      BY <1>1, <2>1, <2>3, <2>4 DEF Tracked
  <1> QED
    BY <1>4, <1>5, <1>6, <1>7 DEF Tracked

\* A failed rebuild gives up the holder's user, or every enrolled one when it
\* left the index empty.
LEMMA RebuildFailsStep == ASSUME Inv, NEW r \in Enrollers, RebuildFails(r) PROVE Inv'
  <1> USE DEF Inv, searching
  <1>1. /\ stage[r] \in {"waiting", "building"} /\ Holds(r) /\ Answer(r)
        /\ who[r] \in Users
        /\ UNCHANGED <<enrolled, who, mine, search, live, pool, found>>
    BY DEF RebuildFails, Committed, Owing
  <1>2. /\ queue' \in Seq(Enrollers)
        /\ \A q \in Enrollers : stage'[q] \in {"waiting", "building"}
                                        <=> \E i \in 1..Len(queue') : queue'[i] = q
        /\ Once'
        /\ \A q \in Enrollers : stage'[q] # "building"
        /\ \A q \in Enrollers : q # r => stage'[q] = stage[q]
        /\ stage'[r] = "201"
    BY <1>1, AnswerPlaces
  <1>3. index' \in Column \cup {Nothing} /\ missed' \in SUBSET Users
    BY <1>1 DEF RebuildFails, TypeOK, Unenrolled, Column
  <1>4. TypeOK'
    BY <1>1, <1>2, <1>3 DEF TypeOK, RebuildFails, Answer, Owing
  <1>5. Once' /\ HolderLoaded' /\ ScansLoaded'
    BY <1>1, <1>2 DEF HolderLoaded, ScansLoaded
  <1>6. Committed'
    BY <1>1, <1>2 DEF Committed, Owing
  <1>7. ASSUME NEW v \in Users
        PROVE  v \in missed' \/ Arriving(v)' \/ Carried(v)' \/ Settled(v)'
    <2>1. Arriving(v) => Arriving(v)'
      BY <1>1, <1>2 DEF Arriving
    <2>2. Carried(v) => Carried(v)' \/ v = who[r]
      BY <1>1, AnswerCarries
    <2>3. CASE index' = index /\ missed' = missed \cup {who[r]}
      <3>1. Settled(v) => Settled(v)'
        BY <1>1, <1>2, <2>3 DEF Settled, Indexed
      <3> QED
        BY <2>1, <2>2, <2>3, <3>1 DEF Tracked
    <2>4. CASE index' = Unenrolled /\ missed' = {u \in Users : enrolled[u] # Nothing}
      <3>1. SUFFICES ASSUME enrolled[v] = Nothing PROVE Settled(v)'
        BY <2>4
      <3>2. \A q \in Enrollers : stage[q] \in Owing => who[q] # v
        BY <3>1, ConstantsAssumption DEF Committed
      <3>3. \A q \in Enrollers : stage'[q] = "waiting" => who[q] # v
        BY <1>2, <3>2 DEF Owing
      <3>4. Indexed(v)' = Nothing
        BY <2>4 DEF Indexed, Unenrolled
      <3> QED
        BY <1>1, <1>2, <3>1, <3>3, <3>4 DEF Settled
    <2> QED
      BY <2>3, <2>4 DEF RebuildFails
  <1> QED
    BY <1>4, <1>5, <1>6, <1>7 DEF Tracked

\* A restart reads the whole table and forgets every handler.
LEMMA RestartStep == ASSUME Inv, Restart PROVE Inv'
  <1> USE ConstantsAssumption DEF Inv
  <1>1. /\ queue' \in Seq(Enrollers) /\ Len(queue') = 0
        /\ \A q \in Enrollers : stage'[q] \notin Owing
        /\ enrolled' = enrolled
    BY DEF Restart, Owing
  <1>2. index' \in Column \cup {Nothing}
    BY DEF Restart, Rebuilt, Built, TypeOK
  <1>3. stage' \in [Enrollers -> {"idle", "201", "422", "500", "lost"} \cup Owing]
    BY DEF Restart, TypeOK, Owing
  <1>4. \A q \in Enrollers : stage'[q] \in {"waiting", "building"}
                                <=> \E i \in 1..Len(queue') : queue'[i] = q
    BY <1>1 DEF Owing
  <1>4a. /\ search' \in [Searchers -> {"idle", "scanning", "resolved", "404", "500", "lost"}]
         /\ rows' \in [Enrollers -> Column \cup {Nothing}]
         /\ pool' \in [Searchers -> Column \cup {Nothing}]
         /\ missed' \in SUBSET Users
         /\ UNCHANGED <<enrolled, who, mine, live, found>>
    BY DEF TypeOK, Restart
  <1>5. TypeOK'
    BY <1>1, <1>2, <1>3, <1>4, <1>4a DEF TypeOK
  <1>6. Once' /\ Committed' /\ HolderLoaded' /\ ScansLoaded'
    BY <1>1 DEF Once, Committed, HolderLoaded, ScansLoaded, Restart, Owing, TypeOK
  <1>7. ASSUME NEW v \in Users PROVE Settled(v)'
    <2>1. Indexed(v)' = enrolled[v]
      BY DEF Restart, Rebuilt, Built, Indexed, Unenrolled, TypeOK, Column
    <2> QED
      BY <1>1, <2>1 DEF Settled, Owing
  <1> QED
    BY <1>5, <1>6, <1>7 DEF Tracked

\* Every step preserves Inv.
LEMMA NextInv == Inv /\ [Next]_vars => Inv'
  <1> SUFFICES ASSUME Inv, [Next]_vars PROVE Inv'
    OBVIOUS
  <1>1. CASE UNCHANGED vars
    <2>1. TypeOK' /\ ScansLoaded'
      BY <1>1 DEF Inv, TypeOK, ScansLoaded, vars
    <2> QED
      BY <1>1, <2>1, IdleStep DEF vars
  <1>2. ASSUME NEW r \in Enrollers,
               Commit(r) \/ Refuse(r) \/ Proceed(r) \/ RefreshFails(r) \/ RebuildFails(r)
        PROVE  Inv'
    BY <1>2, CommitStep, RefuseStep, RefreshStep, JoinStep, LoadStep, ReplaceStep,
       RebuildFailsStep DEF Proceed
  <1> QED
    BY <1>1, <1>2, SearchStep, RestartStep DEF Next

-----------------------------------------------------------------------------

\* The inductive invariant holds of every behaviour.
THEOREM Invariance == Spec => []Inv
  <1> QED
    BY InitInv, NextInv, PTL DEF Spec

\* Every variable keeps its type, and the lock's queue holds exactly the
\* handlers inside build_index.
THEOREM TypeCorrect == Spec => []TypeOK
  <1>1. Inv => TypeOK
    BY DEF Inv
  <1> QED
    BY <1>1, Invariance, PTL

\* Inv says that a stale user is on its way.
LEMMA InvOwed == Inv => StaleOnlyWhileOwed
  <1> SUFFICES ASSUME Inv, NEW u \in Users, Stale(u), u \notin missed PROVE Owed(u)
    BY DEF StaleOnlyWhileOwed
  <1>1. CASE Arriving(u)
    BY <1>1 DEF Arriving, Owed, Owing
  <1>2. CASE Carried(u)
    <2>1. PICK i \in 1..Len(queue) : who[queue[i]] = u
      BY <1>2 DEF Carried
    <2>2. queue[i] \in Enrollers
      BY DEF Inv, TypeOK
    <2>3. stage[queue[i]] \in {"waiting", "building"}
      BY <2>2 DEF Inv, TypeOK
    <2> QED
      BY <2>1, <2>2, <2>3 DEF Owed, Owing
  <1> QED
    BY <1>1, <1>2 DEF Inv, Tracked, Settled, Stale

\* However many rebuilds overlap, the index lags the table only for users whose
\* own rebuild is still owed or was lost to a failure, or was overtaken between its
\* refresh and the lock.
THEOREM IndexFollowsTable == Spec => []StaleOnlyWhileOwed
  <1> QED
    BY InvOwed, Invariance, PTL

\* An answer of the index is the table's, but for those users.
LEMMA SearchResolves ==
    Inv /\ [Next]_vars =>
        \A s \in Searchers : search[s] = "idle" /\ search'[s] = "resolved" =>
            LET m == found'[s]
            IN  m.template = enrolled[m.user] \/ Owed(m.user) \/ m.user \in missed
  <1> SUFFICES ASSUME Inv, [Next]_vars, NEW s \in Searchers,
                      search[s] = "idle", search'[s] = "resolved"
               PROVE  \/ found'[s].template = enrolled[found'[s].user]
                      \/ Owed(found'[s].user) \/ found'[s].user \in missed
    OBVIOUS
  <1>1. AskIndex(s)
    <2>1. \A z \in Searchers : z # s =>
            ~(AskIndex(z) \/ StartScan(z) \/ FinishScan(z) \/ ScanFails(z))
      BY DEF Inv, TypeOK, AskIndex, StartScan, FinishScan, ScanFails, Resolve
    <2>2. ~(StartScan(s) \/ FinishScan(s) \/ ScanFails(s))
      BY DEF Inv, TypeOK, StartScan, FinishScan, ScanFails
    <2>3. ~(UNCHANGED vars) /\ ~Restart
      BY DEF vars, Restart
    <2>4. \A r \in Enrollers :
            ~(Commit(r) \/ Refuse(r) \/ Proceed(r) \/ RefreshFails(r) \/ RebuildFails(r))
      BY DEF searching, Commit, Refuse, Proceed, Refresh, Join, Load, Replace, RefreshFails,
             RebuildFails
    <2> QED
      BY <2>1, <2>2, <2>3, <2>4 DEF Next
  <1>2. PICK v \in Voices : Resolve(s, index, v)
    BY <1>1 DEF AskIndex
  <1>3. PICK u \in Candidates(index, v) :
            found' = [found EXCEPT ![s] = [user |-> u, template |-> index[u]]]
    BY <1>2 DEF Resolve, Inv, TypeOK
  <1>4. u \in Users /\ index # Nothing
    BY <1>1, <1>3 DEF Candidates, AskIndex
  <1>5. found'[s].user = u /\ found'[s].template = Indexed(u)
    BY <1>3, <1>4 DEF Inv, TypeOK, Indexed
  <1>6. StaleOnlyWhileOwed
    BY InvOwed
  <1> QED
    BY <1>4, <1>5, <1>6 DEF StaleOnlyWhileOwed, Stale

\* A search through the index resolves a user only by its enrolled template,
\* unless that user's rebuild is owed or was missed.
THEOREM SearchesResolveEnrolled == Spec => ResolvesEnrolled
  <1> QED
    BY SearchResolves, Invariance, PTL DEF Spec, ResolvesEnrolled
=============================================================================
