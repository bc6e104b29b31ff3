------------------------ MODULE AuthenticationProofs ------------------------
(***************************************************************************)
(* That profiles change only as asked and logged, and that a request is    *)
(* judged on one version of its account, for any accounts, sessions and    *)
(* requests.                                                               *)
(***************************************************************************)
EXTENDS Authentication, TLAPS

-----------------------------------------------------------------------------
(* Profiles                                                                *)

Ops == {"profile", "language", "speaker", "face", "register"}

\* Each row is an account, loaded copies keep their row in the table, and only a
\* session that has updated is in the log.
ProfileInv ==
    /\ ProfilesTypeOK
    /\ \A u \in Uids : users[u] # Nothing => Account(users[u])
    /\ \A s \in Sessions : copy[s] # Nothing => users[copy[s].user] # Nothing
    /\ \A e \in log : step[e.by] = "updated"

LEMMA CallFields ==
    ASSUME NEW q \in Calls
    PROVE  /\ q.op \in Ops
           /\ q.ask \in [Columns -> Values \cup {Nothing}]
           /\ \A c \in Columns : q.ask[c] = Nothing \/ q.ask[c] \in Asked(c)
<1>1. DOMAIN Scope = Ops
  BY DEF Scope, Ops
<1>2. PICK o \in Ops : q \in [op : {o}, ask : Asks(o)]
  BY <1>1 DEF Calls
<1> QED BY <1>2 DEF Asks

\* A row whose columns are those of another, or asked for, is an account.
LEMMA AccountKept ==
    ASSUME NEW row \in Row, Account(row), NEW col \in [Columns -> Values],
           \A c \in Columns : col[c] = row.col[c] \/ col[c] \in Asked(c)
    PROVE  /\ [row EXCEPT !.col = col] \in Row
           /\ Account([row EXCEPT !.col = col])
<1>1. [row EXCEPT !.col = col] \in Row /\ [row EXCEPT !.col = col].col = col
  BY DEF Row
<1>2. \A c \in Templates : col[c] \in Prints \cup {Unset}
  BY DEF Account, Asked, Columns, Templates
<1>3. col["contact"] \in Contacts /\ col["lang"] \in Langs
  BY DEF Account, Asked, Columns, Templates
<1> QED BY <1>1, <1>2, <1>3 DEF Account

LEMMA InitProfiles == ProfilesInit => ProfileInv
  BY ProfilesAssumption DEF ProfilesInit, ProfileInv, ProfilesTypeOK

\* The steps that leave the table and the log alone.
LEMMA SessionSteps ==
    ASSUME ProfileInv, NEW s \in Sessions,
           Load(s) \/ Reject(s) \/ Unchanged(s) \/ Fail(s) \/ Register(s) \/ InsertUser(s)
    PROVE  ProfileInv'
<1>1. CASE Load(s)
  <2>1. PICK q \in Calls, u \in Uids, a \in {"missing", "inactive", "loaded"} :
          /\ call' = [call EXCEPT ![s] = q]
          /\ step' = [step EXCEPT ![s] = a]
          /\ \/ a # "loaded" /\ copy' = copy
             \/ /\ users[u] # Nothing
                /\ copy' = [copy EXCEPT ![s] = [user |-> u, row |-> users[u]]]
    BY <1>1 DEF Load, Answer
  <2>2. UNCHANGED <<users, log, writes>> /\ step[s] = "idle"
    BY <1>1 DEF Load
  <2>3. /\ copy' \in [Sessions -> [user : Uids, row : Row] \cup {Nothing}]
        /\ a = "loaded" => copy'[s] # Nothing
        /\ \A x \in Sessions : copy'[x] # Nothing => users[copy'[x].user] # Nothing
        /\ \A x \in Sessions \ {s} : copy'[x] = copy[x]
    <3>1. CASE a # "loaded" /\ copy' = copy
      BY <3>1 DEF ProfileInv, ProfilesTypeOK
    <3>2. CASE users[u] # Nothing /\ copy' = [copy EXCEPT ![s] = [user |-> u, row |-> users[u]]]
      <4>1. [user |-> u, row |-> users[u]] \in [user : Uids, row : Row]
        BY <3>2 DEF ProfileInv, ProfilesTypeOK
      <4>2. [user |-> u, row |-> users[u]] # Nothing
        BY <4>1, ProfilesAssumption
      <4> QED BY <3>2, <4>1, <4>2 DEF ProfileInv, ProfilesTypeOK
    <3> QED BY <2>1, <3>1, <3>2
  <2>4. q # Nothing
    BY ProfilesAssumption
  <2> QED
    BY <2>1, <2>2, <2>3, <2>4 DEF ProfileInv, ProfilesTypeOK, Ended
<1>2. CASE Register(s)
  <2>1. PICK q \in Calls, a \in {"exists", "insert"} :
          call' = [call EXCEPT ![s] = q] /\ step' = [step EXCEPT ![s] = a]
    BY <1>2 DEF Register, Answer
  <2>2. UNCHANGED <<users, log, copy, writes>> /\ step[s] = "idle"
    BY <1>2 DEF Register
  <2>3. q # Nothing
    BY ProfilesAssumption
  <2> QED BY <2>1, <2>2, <2>3 DEF ProfileInv, ProfilesTypeOK, Ended
<1>3. CASE Reject(s) \/ Unchanged(s) \/ Fail(s) \/ InsertUser(s)
  BY <1>3 DEF Reject, Unchanged, Fail, InsertUser, Refuse, Answer, ProfileInv, ProfilesTypeOK,
              Ended
<1> QED BY <1>1, <1>2, <1>3

\* What a flush writes: columns that were asked for, into a row that is there.
LEMMA StoreWrites ==
    ASSUME ProfileInv, NEW s \in Sessions, NEW op \in Ops, Store(s, op)
    PROVE  \E u \in Uids, col \in [Columns -> Values] :
              /\ copy[s] # Nothing /\ copy[s].user = u /\ users[u] # Nothing
              /\ users' = [users EXCEPT ![u] = [users[u] EXCEPT !.col = col]]
              /\ \A c \in Columns : \/ col[c] = users[u].col[c]
                                    \/ col[c] = call[s].ask[c] /\ col[c] \in Asked(c)
<1>1. copy[s] # Nothing /\ call[s] \in Calls /\ step[s] = "loaded"
  BY DEF Store, ProfileInv, ProfilesTypeOK
<1>2. PICK u \in Uids : copy[s].user = u
  BY <1>1 DEF ProfileInv, ProfilesTypeOK
<1>3. users[u] # Nothing /\ users[u] \in Row
  BY <1>1, <1>2 DEF ProfileInv, ProfilesTypeOK
<1> DEFINE col == [c \in Columns |->
                     IF c \in Dirty(s) THEN call[s].ask[c] ELSE users[u].col[c]]
<1>4. \A c \in Dirty(s) : call[s].ask[c] \in Asked(c)
  BY <1>1, CallFields DEF Dirty
<1>5. \A c \in Columns : Asked(c) \subseteq Values
  BY DEF Asked, Values, Columns, Templates
<1>6. col \in [Columns -> Values]
  BY <1>3, <1>4, <1>5 DEF Row
<1>7. users' = [users EXCEPT ![u] = [users[u] EXCEPT !.col = col]]
  BY <1>2 DEF Store, Flushed
<1>8. ASSUME NEW c \in Columns
      PROVE  \/ col[c] = users[u].col[c]
             \/ col[c] = call[s].ask[c] /\ col[c] \in Asked(c)
  <2>1. CASE c \in Dirty(s)
    BY <1>4, <2>1
  <2>2. CASE c \notin Dirty(s)
    BY <2>2
  <2> QED BY <2>1, <2>2
<1> HIDE DEF col
<1> QED BY <1>1, <1>2, <1>3, <1>6, <1>7, <1>8

LEMMA StoreStep ==
    ASSUME ProfileInv, NEW s \in Sessions, NEW op \in Ops, Store(s, op)
    PROVE  ProfileInv'
<1>1. PICK u \in Uids, col \in [Columns -> Values] :
        /\ users[u] # Nothing
        /\ users' = [users EXCEPT ![u] = [users[u] EXCEPT !.col = col]]
        /\ \A c \in Columns : col[c] = users[u].col[c] \/ col[c] \in Asked(c)
  BY StoreWrites
<1>2. PICK row \in Row : row = users[u] /\ Account(row)
  BY <1>1 DEF ProfileInv, ProfilesTypeOK
<1>3. PICK new \in Row : new = [row EXCEPT !.col = col] /\ Account(new)
  BY <1>1, <1>2, AccountKept
<1>4. users' = [users EXCEPT ![u] = new]
  BY <1>1, <1>2, <1>3
<1>5. new # Nothing
  BY ProfilesAssumption
<1>6. /\ log' = log \cup {[by |-> s, op |-> op]}
      /\ step' = [step EXCEPT ![s] = "updated"]
      /\ UNCHANGED <<call, copy, writes>>
      /\ step[s] = "loaded"
  BY DEF Store, Answer
<1>7. op \in DOMAIN Scope
  BY DEF Scope, Ops
<1>8. ProfilesTypeOK'
  BY <1>4, <1>6, <1>7 DEF ProfileInv, ProfilesTypeOK, Ended
<1>9. \A v \in Uids : users'[v] # Nothing => Account(users'[v])
  BY <1>3, <1>4 DEF ProfileInv, ProfilesTypeOK
<1>10. \A t \in Sessions : copy'[t] # Nothing => users'[copy'[t].user] # Nothing
  BY <1>4, <1>5, <1>6 DEF ProfileInv, ProfilesTypeOK
<1>11. \A e \in log' : step'[e.by] = "updated"
  BY <1>6 DEF ProfileInv, ProfilesTypeOK
<1> QED BY <1>8, <1>9, <1>10, <1>11 DEF ProfileInv

\* A commit from outside the user service puts an account where its row was, or
\* a new one where there was none.
LEMMA OutsideStep ==
    ASSUME ProfileInv, Outside, NEW u \in Uids, NEW new \in Row, Account(new),
           users' = [users EXCEPT ![u] = new]
    PROVE  ProfileInv'
<1>1. new # Nothing
  BY ProfilesAssumption
<1>2. ProfilesTypeOK'
  BY ProfilesAssumption DEF Outside, ProfileInv, ProfilesTypeOK, Ended
<1>3. \A v \in Uids : users'[v] # Nothing => Account(users'[v])
  BY DEF ProfileInv, ProfilesTypeOK
<1>4. \A t \in Sessions : copy'[t] # Nothing => users'[copy'[t].user] # Nothing
  BY <1>1 DEF Outside, ProfileInv, ProfilesTypeOK
<1>5. \A e \in log' : step'[e.by] = "updated"
  BY DEF Outside, ProfileInv
<1> QED BY <1>2, <1>3, <1>4, <1>5 DEF ProfileInv

LEMMA EndpointSteps ==
    ASSUME ProfileInv, NEW u \in Uids,
           \/ SetActive(u)
           \/ \E contact \in Contacts, lang \in Langs : SignUp(u, contact, lang)
           \/ \E voice, face \in Prints : Enroll(u, voice, face)
    PROVE  ProfileInv'
<1>1. CASE SetActive(u)
  <2>1. PICK row \in Row : row = users[u] /\ Account(row)
    BY <1>1 DEF SetActive, ProfileInv, ProfilesTypeOK
  <2>2. PICK new : new = [row EXCEPT !.active = ~row.active]
    OBVIOUS
  <2>3. new \in Row /\ new.col = row.col
    BY <2>2 DEF Row
  <2>4. Account(new)
    BY <2>1, <2>3 DEF Account
  <2>5. users' = [users EXCEPT ![u] = new]
    BY <1>1, <2>1, <2>2 DEF SetActive
  <2> QED BY <1>1, <2>3, <2>4, <2>5, OutsideStep DEF SetActive
<1>2. ASSUME NEW contact \in Contacts, NEW lang \in Langs, SignUp(u, contact, lang)
      PROVE  ProfileInv'
  <2> DEFINE col == [c \in Columns |-> CASE c = "contact" -> contact
                                        [] c = "lang" -> lang
                                        [] c \in Templates -> Unset]
             new == [col |-> col, active |-> TRUE]
  <2>1. /\ col \in [Columns -> Values]
        /\ col["contact"] = contact /\ col["lang"] = lang
        /\ col["voice"] = Unset /\ col["face"] = Unset
    BY DEF Columns, Templates, Values
  <2>2. users' = [users EXCEPT ![u] = new] /\ Outside
    BY <1>2 DEF SignUp
  <2> HIDE DEF col
  <2>3. new \in Row /\ Account(new)
    BY <2>1 DEF Row, Account, Templates
  <2> QED BY <2>2, <2>3, OutsideStep
<1>3. ASSUME NEW voice \in Prints, NEW face \in Prints, Enroll(u, voice, face)
      PROVE  ProfileInv'
  <2>1. PICK row \in Row : row = users[u] /\ Account(row)
    BY <1>3 DEF Enroll, ProfileInv, ProfilesTypeOK
  <2> DEFINE col == [c \in Columns |-> CASE c = "voice" -> voice
                                        [] c = "face" -> face
                                        [] OTHER -> row.col[c]]
  <2>2. /\ col \in [Columns -> Values]
        /\ \A c \in Columns : col[c] = row.col[c] \/ col[c] \in Asked(c)
    BY DEF Row, Columns, Templates, Values, Asked
  <2>3. users' = [users EXCEPT ![u] = [row EXCEPT !.col = col]] /\ Outside
    BY <1>3, <2>1 DEF Enroll
  <2> HIDE DEF col
  <2>4. [row EXCEPT !.col = col] \in Row /\ Account([row EXCEPT !.col = col])
    BY <2>1, <2>2, AccountKept
  <2> QED BY <2>3, <2>4, OutsideStep
<1> QED BY <1>1, <1>2, <1>3

LEMMA NextProfiles == ProfileInv /\ [ProfilesNext]_profileVars => ProfileInv'
<1> SUFFICES ASSUME ProfileInv, [ProfilesNext]_profileVars
             PROVE  ProfileInv'
  OBVIOUS
<1>1. CASE UNCHANGED profileVars
  BY <1>1 DEF profileVars, ProfileInv, ProfilesTypeOK
<1>2. CASE ProfilesNext
  BY <1>2, SessionSteps, StoreStep, EndpointSteps
  DEF ProfilesNext, UpdateProfile, UpdateLanguage, UpdateSpeaker, UpdateFace, Ops
<1> QED BY <1>1, <1>2

\* One step changes a column only in an enrollment of that account, or as a
\* session was asked, in the commit that logs it.
LEMMA ChangesStep ==
    ASSUME ProfileInv, [ProfilesNext]_profileVars, NEW u \in Uids, NEW c \in Columns,
           users[u] # Nothing, users'[u].col[c] # users[u].col[c]
    PROVE  \/ \E s \in Sessions :
                /\ copy[s] # Nothing /\ copy[s].user = u
                /\ call[s].ask[c] = users'[u].col[c]
                /\ [by |-> s, op |-> call[s].op] \in log' \ log
           \/ \E voice, face \in Prints : Enroll(u, voice, face)
<1>1. users' # users
  OBVIOUS
<1>2. ASSUME NEW s \in Sessions, NEW op \in Ops, Store(s, op)
      PROVE  /\ copy[s] # Nothing /\ copy[s].user = u
             /\ call[s].ask[c] = users'[u].col[c]
             /\ [by |-> s, op |-> call[s].op] \in log' \ log
  <2>1. PICK v \in Uids, col \in [Columns -> Values] :
          /\ copy[s] # Nothing /\ copy[s].user = v /\ users[v] # Nothing
          /\ users' = [users EXCEPT ![v] = [users[v] EXCEPT !.col = col]]
          /\ \A d \in Columns : \/ col[d] = users[v].col[d]
                                \/ col[d] = call[s].ask[d] /\ col[d] \in Asked(d)
    BY <1>2, StoreWrites
  <2>2. v = u
    BY <2>1 DEF ProfileInv, ProfilesTypeOK
  <2>3. users'[u].col = col
    BY <2>1, <2>2 DEF ProfileInv, ProfilesTypeOK, Row
  <2>4. col[c] = call[s].ask[c]
    BY <2>1, <2>2, <2>3
  <2>5. /\ log' = log \cup {[by |-> s, op |-> op]} /\ call[s].op = op
        /\ step[s] = "loaded"
    BY <1>2 DEF Store
  <2>6. [by |-> s, op |-> op] \notin log
    BY <2>5 DEF ProfileInv
  <2> QED BY <2>1, <2>2, <2>3, <2>4, <2>5, <2>6
<1>3. ASSUME NEW v \in Uids, SetActive(v)
      PROVE  FALSE
  BY <1>3 DEF SetActive, ProfileInv, ProfilesTypeOK, Row
<1>4. ASSUME NEW v \in Uids, NEW contact, NEW lang, SignUp(v, contact, lang)
      PROVE  FALSE
  BY <1>4 DEF SignUp, ProfileInv, ProfilesTypeOK
<1>5. ASSUME NEW v \in Uids, NEW voice \in Prints, NEW face \in Prints, Enroll(v, voice, face)
      PROVE  Enroll(u, voice, face)
  <2>1. v = u
    BY <1>5 DEF Enroll, ProfileInv, ProfilesTypeOK
  <2> QED BY <1>5, <2>1
<1>6. \/ \E s \in Sessions, op \in Ops : Store(s, op)
      \/ \E v \in Uids :
           \/ SetActive(v)
           \/ \E contact \in Contacts, lang \in Langs : SignUp(v, contact, lang)
           \/ \E voice, face \in Prints : Enroll(v, voice, face)
  BY <1>1
  DEF ProfilesNext, profileVars, Load, Reject, Unchanged, Fail, Refuse, Register, InsertUser,
      UpdateProfile, UpdateLanguage, UpdateSpeaker, UpdateFace, Ops
<1> QED BY <1>2, <1>3, <1>4, <1>5, <1>6

-----------------------------------------------------------------------------
(* Requests                                                                *)

Kinds == {"voice", "face", "multimodal", "challenge", "voice_pair", "face_pair"}

\* Where a request can be, by its kind.
Placed(r) ==
    /\ at[r] # "idle" => req[r] \in Questions
    /\ at[r] \in {"user", "enrollment"} => req[r].kind \in OfAccount
    /\ at[r] = "voice" => req[r].kind \in {"voice", "multimodal"}
    /\ at[r] = "face" => req[r].kind \in {"face", "multimodal"}
    /\ at[r] = "challenge" => req[r].kind = "challenge"
    /\ at[r] = "pair" => req[r].kind \in {"voice_pair", "face_pair"}

\* While it runs, its account as it is now has been seen; the row its session
\* holds is one it has seen, of an active account.
Watched(r) ==
    /\ at[r] \in Steps => Found(req[r]) \in seen[r]
    /\ at[r] \in {"enrollment", "voice", "face"} =>
         /\ held[r] \in Row /\ held[r] \in seen[r]
         /\ held[r].active /\ Account(held[r])

\* What the voice said before the face is looked at.
Listened(r) ==
    at[r] = "face" /\ req[r].kind = "multimodal" =>
        /\ req[r].input["voice"] \in Prints /\ held[r].col["voice"] \in Prints
        /\ heard[r] <=> req[r].input["voice"] = held[r].col["voice"]

\* The row a request is judged on is the one its session holds.
Judged(r) ==
    at[r] \in {"granted", "denied"} /\ req[r].kind \in OfAccount =>
        /\ held[r] \in Row /\ held[r] \in seen[r] /\ held[r].active
        /\ \A c \in Inputs[req[r].kind] : held[r].col[c] \in Prints
        /\ at[r] = "granted" <=> Matches(req[r], held[r])

Blamed(r) ==
    at[r] = "invalid" =>
        \/ Refusable(req[r])
        \/ req[r].provider \in {"none", "nameless"} /\ req[r].kind \notin OfAccount
        \/ \E row \in seen[r] : row = Nothing \/ ~row.active \/ row.col["voice"] = Unset
        \/ req[r].provider = "candid" /\
             (\/ req[r].kind = "challenge"
              \/ \E row \in seen[r] \ {Nothing} : row.col["face"] = Unset)

Excused(r) ==
    at[r] = "unavailable" =>
        \/ faulted[r]
        \/ Unconvertible(req[r])
        \/ /\ req[r].kind \in {"face", "multimodal", "challenge"}
           /\ req[r].provider \in {"none", "own"}
        \/ /\ req[r].kind \in {"face", "multimodal", "face_pair"}
           /\ req[r].provider # "candid"
           /\ Refusable(req[r]) \/ \E row \in seen[r] \ {Nothing} : row.col["face"] = Unset

ReqInv(r) == Placed(r) /\ Watched(r) /\ Listened(r) /\ Judged(r) /\ Blamed(r) /\ Excused(r)

AuthInv == TypeOK /\ ProfileInv /\ \A r \in Requests : ReqInv(r)

LEMMA QuestionFields ==
    ASSUME NEW q \in Questions
    PROVE  /\ q.kind \in Kinds
           /\ q.user \in Uids \cup {Nothing}
           /\ q.input \in Brought(q.kind)
           /\ DOMAIN q.input = Inputs[q.kind]
           /\ \A i \in Inputs[q.kind] : q.input[i] \in Sent(i)
           /\ q.provider \in Providers[q.kind]
<1>1. DOMAIN Inputs = Kinds
  BY DEF Inputs, Kinds
<1>2. PICK k \in Kinds :
        q \in [kind : {k}, user : (IF k \in OfAccount THEN Uids ELSE {}) \cup {Nothing},
               input : Brought(k), provider : Providers[k]]
  BY <1>1 DEF Questions
<1> QED BY <1>2 DEF Brought

\* An input that is no embedding is one to refuse or one numpy refuses.
LEMMA PoorInput ==
    ASSUME NEW q \in Questions, q.kind # "challenge", NEW c \in Inputs[q.kind]
    PROVE  /\ q.input[c] = "bad" => Refusable(q)
           /\ q.input[c] = "unconvertible" => Unconvertible(q)
           /\ q.input[c] \in Prints \cup {"unconvertible"} \/ Refusable(q)
<1>1. c \notin {"challenge", "response"}
  BY QuestionFields DEF Inputs, Kinds
<1>2. c \in DOMAIN q.input /\ q.input[c] \in Prints \cup {"unreadable", "unconvertible", "bad"}
  BY <1>1, QuestionFields DEF Sent
<1> QED BY <1>2 DEF Refusable, Unconvertible

LEMMA InitAuth == Init => AuthInv
<1> SUFFICES ASSUME Init
             PROVE  AuthInv
  OBVIOUS
<1>1. ProfileInv
  BY InitProfiles DEF Init
<1>2. TypeOK
  BY <1>1 DEF Init, ProfileInv, TypeOK
<1>3. ASSUME NEW r \in Requests
      PROVE  ReqInv(r)
  BY DEF Init, ReqInv, Placed, Watched, Listened, Judged, Blamed, Excused, Steps
<1> QED BY <1>1, <1>2, <1>3 DEF AuthInv

\* A request's step leaves the others as they were.
LEMMA OneRequest ==
    ASSUME AuthInv, NEW r \in Requests, UNCHANGED profileVars, TypeOK', ReqInv(r)',
           \A x \in Requests \ {r} :
               /\ req'[x] = req[x] /\ at'[x] = at[x] /\ held'[x] = held[x]
               /\ heard'[x] = heard[x] /\ seen'[x] = seen[x] /\ faulted'[x] = faulted[x]
    PROVE  AuthInv'
<1>1. ProfileInv'
  BY NextProfiles DEF AuthInv
<1>2. ASSUME NEW x \in Requests, x # r
      PROVE  ReqInv(x)'
  BY <1>2 DEF AuthInv, ReqInv, Placed, Watched, Listened, Judged, Blamed, Excused, Found,
              profileVars
<1> QED BY <1>1, <1>2 DEF AuthInv

\* The profiles change: a running request sees its account's new row.
LEMMA ProfilesStepKeeps ==
    ASSUME AuthInv, ProfilesStep
    PROVE  AuthInv'
<1>1. ProfileInv'
  BY NextProfiles DEF ProfilesStep, AuthInv
<1>2. /\ UNCHANGED <<req, at, held, heard, faulted>>
      /\ seen' = [r \in Requests |->
           IF at[r] \in Steps /\ req[r].user # Nothing
           THEN seen[r] \cup {users'[req[r].user]} ELSE seen[r]]
  BY DEF ProfilesStep
<1>3. ASSUME NEW r \in Requests, at[r] \in Steps, req[r].user # Nothing
      PROVE  req[r].user \in Uids
  BY <1>3, QuestionFields DEF AuthInv, ReqInv, Placed, Steps
<1>4. seen' \in [Requests -> SUBSET (Row \cup {Nothing})]
  BY <1>1, <1>2, <1>3 DEF ProfileInv, ProfilesTypeOK, AuthInv, TypeOK
<1>5. TypeOK'
  BY <1>1, <1>2, <1>4 DEF ProfileInv, AuthInv, TypeOK
<1>6. ASSUME NEW r \in Requests
      PROVE  ReqInv(r)'
  <2>1. seen[r] \subseteq seen'[r]
    BY <1>2, <1>6
  <2>2. at[r] \in Steps => Found(req[r])' \in seen'[r]
    BY <1>2, <1>6 DEF Found, AuthInv, ReqInv, Watched
  <2>3. Placed(r)' /\ Watched(r)' /\ Listened(r)'
    BY <1>2, <2>1, <2>2 DEF AuthInv, ReqInv, Placed, Watched, Listened
  <2>4. Judged(r)' /\ Blamed(r)' /\ Excused(r)'
    BY <1>2, <2>1 DEF AuthInv, ReqInv, Judged, Blamed, Excused
  <2> QED BY <2>3, <2>4 DEF ReqInv
<1> QED BY <1>1, <1>5, <1>6 DEF AuthInv

LEMMA CallKeeps ==
    ASSUME AuthInv, NEW r \in Requests, Call(r)
    PROVE  AuthInv'
<1>1. PICK q \in Questions :
        /\ req' = [req EXCEPT ![r] = q]
        /\ seen' = [seen EXCEPT ![r] = {Found(q)}]
        /\ at' = [at EXCEPT ![r] = First(q)]
        /\ UNCHANGED <<profileVars, held, heard, faulted>>
  BY DEF Call, Goto
<1>2. Found(q) \in Row \cup {Nothing} /\ Found(q)' = Found(q)
  BY <1>1, QuestionFields DEF Found, profileVars, AuthInv, ProfileInv, ProfilesTypeOK
<1>3. First(q) \in {"invalid", "challenge", "pair", "user"}
  BY DEF First
<1>4. TypeOK'
  BY <1>1, <1>2, <1>3 DEF AuthInv, TypeOK, ProfilesTypeOK, profileVars, Steps, Answers
<1>5. /\ req'[r] = q /\ at'[r] = First(q) /\ seen'[r] = {Found(q)}
  BY <1>1 DEF AuthInv, TypeOK
<1>6. /\ First(q) = "challenge" => q.kind = "challenge"
      /\ First(q) = "pair" => q.kind \in {"voice_pair", "face_pair"}
      /\ First(q) = "user" => q.kind \in OfAccount
      /\ First(q) = "invalid" => q.user = Nothing
  BY QuestionFields DEF First, Kinds, OfAccount
<1>7. Placed(r)'
  BY <1>3, <1>5, <1>6 DEF Placed
<1>8. Watched(r)' /\ Listened(r)' /\ Judged(r)' /\ Excused(r)'
  BY <1>2, <1>3, <1>5 DEF Watched, Listened, Judged, Excused
<1>9. Blamed(r)'
  BY <1>5, <1>6 DEF Blamed, Found
<1> QED BY <1>1, <1>4, <1>7, <1>8, <1>9, OneRequest DEF AuthInv, TypeOK, ReqInv

LEMMA LoadUserKeeps ==
    ASSUME AuthInv, NEW r \in Requests, LoadUser(r)
    PROVE  AuthInv'
<1> DEFINE row == Found(req[r])
<1>1. /\ at[r] = "user" /\ UNCHANGED <<profileVars, req, heard, seen, faulted>>
      /\ req[r] \in Questions /\ req[r].kind \in OfAccount
  BY DEF LoadUser, AuthInv, ReqInv, Placed
<1>2. /\ row \in seen[r] /\ row \in Row \cup {Nothing}
      /\ row # Nothing => Account(row)
  BY <1>1, QuestionFields
  DEF AuthInv, ReqInv, Watched, Steps, Found, ProfileInv, ProfilesTypeOK
<1>3. CASE Unusable(row)
  <2>1. at' = [at EXCEPT ![r] = "invalid"] /\ UNCHANGED held
    BY <1>3 DEF LoadUser, Goto
  <2>2. TypeOK'
    BY <1>1, <2>1 DEF AuthInv, TypeOK, ProfilesTypeOK, profileVars, Steps, Answers
  <2>3. at'[r] = "invalid"
    BY <2>1 DEF AuthInv, TypeOK
  <2>4. ReqInv(r)'
    BY <1>1, <1>2, <1>3, <2>1, <2>3
    DEF ReqInv, Placed, Watched, Listened, Judged, Blamed, Excused, Unusable, Steps
  <2> QED BY <1>1, <2>1, <2>2, <2>4, OneRequest DEF AuthInv, TypeOK
<1>4. CASE ~Unusable(row)
  <2>1. at' = [at EXCEPT ![r] = "enrollment"] /\ held' = [held EXCEPT ![r] = row]
    BY <1>4 DEF LoadUser, Goto
  <2>2. row \in Row /\ row # Nothing /\ row.active
    BY <1>2, <1>4 DEF Unusable
  <2>3. TypeOK'
    BY <1>1, <2>1, <2>2 DEF AuthInv, TypeOK, ProfilesTypeOK, profileVars, Steps, Answers
  <2>4. at'[r] = "enrollment" /\ held'[r] = row
    BY <2>1 DEF AuthInv, TypeOK
  <2>5. Found(req[r])' = row
    BY <1>1 DEF Found, profileVars
  <2> HIDE DEF row
  <2>6. ReqInv(r)'
    BY <1>1, <1>2, <2>2, <2>4, <2>5
    DEF ReqInv, Placed, Watched, Listened, Judged, Blamed, Excused
  <2> QED BY <1>1, <2>1, <2>3, <2>6, OneRequest DEF AuthInv, TypeOK
<1> QED BY <1>3, <1>4

\* The held row is the profile; only NULL templates would be missed.
LEMMA CheckEnrollmentKeeps ==
    ASSUME AuthInv, NEW r \in Requests, CheckEnrollment(r)
    PROVE  AuthInv'
<1>1. /\ at[r] = "enrollment" /\ UNCHANGED <<profileVars, req, heard, seen, faulted>>
      /\ req[r] \in Questions /\ req[r].kind \in OfAccount
      /\ held[r] \in Row /\ held[r] \in seen[r] /\ held[r].active /\ Account(held[r])
  BY DEF CheckEnrollment, AuthInv, ReqInv, Placed, Watched
<1>2. held' = held
  BY DEF CheckEnrollment, Profile, AuthInv, TypeOK
<1>3. Complete(held[r])
  BY <1>1, ProfilesAssumption DEF Complete, Row, Templates, Columns
<1>4. PICK a \in {"voice", "face"} :
        /\ at' = [at EXCEPT ![r] = a]
        /\ a = IF req[r].kind = "face" THEN "face" ELSE "voice"
  BY <1>3 DEF CheckEnrollment, Profile, Goto
<1>5. TypeOK'
  BY <1>1, <1>2, <1>4, ProfilesAssumption
  DEF AuthInv, TypeOK, ProfilesTypeOK, profileVars, Steps, Answers
<1>6. at'[r] = a
  BY <1>4 DEF AuthInv, TypeOK
<1>7. Found(req[r]) \in seen[r] /\ Found(req[r])' = Found(req[r])
  BY <1>1 DEF AuthInv, ReqInv, Watched, Steps, Found, profileVars
<1>8. ReqInv(r)'
  BY <1>1, <1>2, <1>4, <1>6, <1>7
  DEF ReqInv, Placed, Watched, Listened, Judged, Blamed, Excused, OfAccount
<1> QED BY <1>1, <1>2, <1>4, <1>5, <1>8, OneRequest DEF AuthInv, TypeOK

\* A step that only moves a request to its next place, or answers it.
LEMMA MoveKeeps ==
    ASSUME AuthInv, NEW r \in Requests, NEW a \in Answers \cup {"face"},
           at[r] \in Steps, a = "face" => at[r] = "voice",
           at' = [at EXCEPT ![r] = a],
           NEW v \in BOOLEAN, heard' = [heard EXCEPT ![r] = v],
           NEW f \in BOOLEAN, faulted' = [faulted EXCEPT ![r] = f],
           UNCHANGED <<profileVars, req, held, seen>>,
           a = "face" => req[r].kind = "multimodal",
           Listened(r)', Judged(r)', Blamed(r)', Excused(r)'
    PROVE  AuthInv'
<1>1. /\ req[r] \in Questions
      /\ at[r] = "voice" => held[r] \in Row /\ held[r] \in seen[r]
                            /\ held[r].active /\ Account(held[r])
      /\ Found(req[r]) \in seen[r]
  BY DEF AuthInv, ReqInv, Placed, Watched, Steps
<1>2. TypeOK'
  BY <1>1, ProfilesAssumption DEF AuthInv, TypeOK, ProfilesTypeOK, profileVars, Steps, Answers
<1>3. at'[r] = a
  BY DEF AuthInv, TypeOK
<1>4. Placed(r)'
  BY <1>1, <1>3 DEF Placed, Answers
<1>5. Watched(r)'
  BY <1>1, <1>3 DEF Watched, Answers, Steps, Found, profileVars
<1>6. ReqInv(r)'
  BY <1>4, <1>5 DEF ReqInv
<1> QED BY <1>2, <1>6, OneRequest DEF AuthInv, TypeOK

\* Who is granted or denied brought two embeddings.
Fits(v, template, live) ==
    /\ v \in Answers
    /\ v \in {"granted", "denied"} =>
         /\ {template, live} \subseteq Prints
         /\ v = IF template = live THEN "granted" ELSE "denied"

\* The voice provider fails on what it cannot convert only, and blames for the rest.
LEMMA VoiceVerdicts ==
    ASSUME NEW template, NEW live
    PROVE  /\ Fits(VoiceVerdict(template, live), template, live)
           /\ VoiceVerdict(template, live) = "unavailable"
                => "unconvertible" \in {template, live}
           /\ VoiceVerdict(template, live) = "invalid"
                => ~({template, live} \subseteq Prints) /\ "unconvertible" \notin {template, live}
  BY DEF VoiceVerdict, Comparable, Compared, Fits, Answers

\* The face provider blames nobody.
LEMMA FaceVerdicts ==
    ASSUME NEW template, NEW live
    PROVE  /\ Fits(FaceVerdict(template, live), template, live)
           /\ FaceVerdict(template, live) # "invalid"
           /\ FaceVerdict(template, live) = "unavailable" => ~({template, live} \subseteq Prints)
  BY DEF FaceVerdict, Comparable, Compared, Fits, Answers

LEMMA VoiceKeeps ==
    ASSUME AuthInv, NEW r \in Requests, Voice(r)
    PROVE  AuthInv'
<1>1. PICK q \in Questions : q = req[r] /\ q.kind \in {"voice", "multimodal"}
  BY DEF Voice, AuthInv, ReqInv, Placed
<1>2. PICK row \in Row : row = held[r] /\ row \in seen[r] /\ row.active /\ Account(row)
  BY DEF Voice, AuthInv, ReqInv, Watched
<1>3. PICK live : live = q.input["voice"]
  OBVIOUS
<1>4. PICK template : template = row.col["voice"]
  OBVIOUS
<1>5. PICK verdict : verdict = VoiceVerdict(template, live)
  OBVIOUS
<1>51. /\ Fits(verdict, template, live)
       /\ verdict = "unavailable" => "unconvertible" \in {template, live}
       /\ verdict = "invalid" =>
            ~({template, live} \subseteq Prints) /\ "unconvertible" \notin {template, live}
  BY <1>5, VoiceVerdicts
<1>6. PICK a : a = IF live = "bad" THEN "invalid"
                   ELSE IF q.kind = "multimodal" /\ verdict \in {"granted", "denied"} THEN "face"
                   ELSE verdict
  OBVIOUS
<1>7. /\ at[r] = "voice" /\ UNCHANGED <<profileVars, req, held, seen, faulted>>
      /\ at' = [at EXCEPT ![r] = a]
      /\ heard' = [heard EXCEPT ![r] = (verdict = "granted")]
  BY <1>1, <1>2, <1>3, <1>4, <1>5, <1>6 DEF Voice, Goto
<1>8. /\ template \in Prints \cup {Unset} /\ template # "unconvertible"
      /\ live = "bad" => Refusable(q)
      /\ live = "unconvertible" => Unconvertible(q)
      /\ live \in Prints \cup {"unconvertible"} \/ Refusable(q)
  <2>1. "voice" \in Inputs[q.kind] /\ q.kind # "challenge"
    BY <1>1 DEF Inputs
  <2>2. template \in Prints \cup {Unset} /\ template # "unconvertible"
    BY <1>2, <1>4, AuthenticationAssumption DEF Account, Templates
  <2> QED BY <1>3, <2>1, <2>2, PoorInput
<1>9. /\ at'[r] = a /\ heard'[r] = (verdict = "granted")
      /\ req'[r] = q /\ held'[r] = row /\ seen'[r] = seen[r]
  BY <1>1, <1>2, <1>7 DEF AuthInv, TypeOK
<1>10. a \in Answers \cup {"face"}
  BY <1>6, <1>51 DEF Fits, Answers
<1>11. Listened(r)'
  <2> SUFFICES ASSUME a = "face"
               PROVE  /\ live \in Prints /\ template \in Prints
                      /\ (verdict = "granted") <=> live = template
    BY <1>3, <1>4, <1>9 DEF Listened
  <2>1. verdict \in {"granted", "denied"}
    BY <1>6, <1>51 DEF Fits, Answers
  <2> QED BY <1>51, <2>1 DEF Fits
<1>12. Judged(r)'
  <2> SUFFICES ASSUME a \in {"granted", "denied"}
               PROVE  /\ \A c \in Inputs[q.kind] : row.col[c] \in Prints
                      /\ a = "granted" <=> Matches(q, row)
    BY <1>2, <1>9 DEF Judged
  <2>1. q.kind = "voice" /\ Inputs[q.kind] = {"voice"} /\ a = verdict
    BY <1>1, <1>6 DEF Inputs
  <2> QED BY <1>3, <1>4, <1>51, <2>1 DEF Matches, Fits
<1>13. Blamed(r)'
  <2> SUFFICES ASSUME a = "invalid"
               PROVE  Refusable(q) \/ \E x \in seen[r] : x.col["voice"] = Unset
    BY <1>9 DEF Blamed
  <2>1. live = "bad" \/ (~({template, live} \subseteq Prints) /\ live # "unconvertible")
    BY <1>6, <1>51
  <2> QED BY <1>2, <1>4, <1>8, <2>1
<1>14. Excused(r)'
  <2> SUFFICES ASSUME a = "unavailable"
               PROVE  Unconvertible(q)
    BY <1>9 DEF Excused
  <2>1. verdict = "unavailable"
    BY <1>6
  <2> QED BY <1>8, <1>51, <2>1
<1>15. /\ faulted' = [faulted EXCEPT ![r] = faulted[r]] /\ faulted[r] \in BOOLEAN
  BY <1>7 DEF AuthInv, TypeOK
<1>16. a = "face" => q.kind = "multimodal"
  BY <1>6, <1>51 DEF Fits, Answers
<1> QED
  BY <1>1, <1>7, <1>10, <1>11, <1>12, <1>13, <1>14, <1>15, <1>16, MoveKeeps DEF Steps, Answers

LEMMA FaceKeeps ==
    ASSUME AuthInv, NEW r \in Requests, Face(r)
    PROVE  AuthInv'
<1>1. PICK q \in Questions : q = req[r] /\ q.kind \in {"face", "multimodal"}
  BY DEF Face, AuthInv, ReqInv, Placed
<1>2. PICK row \in Row : row = held[r] /\ row \in seen[r] /\ row.active /\ Account(row)
  BY DEF Face, AuthInv, ReqInv, Watched
<1>3. PICK live : live = q.input["face"]
  OBVIOUS
<1>4. PICK template : template = row.col["face"]
  OBVIOUS
<1>5. PICK given : given = FaceVerdict(template, live)
  OBVIOUS
<1>51. PICK verdict : verdict = Passed(q.provider, given)
  OBVIOUS
<1>52. /\ Fits(given, template, live) /\ given # "invalid"
       /\ given = "unavailable" => ~({template, live} \subseteq Prints)
  BY <1>5, FaceVerdicts
<1>6. PICK a : a = IF live = "bad" THEN "invalid"
                   ELSE IF q.provider \in {"none", "own"} THEN "unavailable"
                   ELSE IF verdict = "granted" /\ q.kind = "multimodal" /\ ~heard[r]
                        THEN "denied"
                   ELSE verdict
  OBVIOUS
<1>7. /\ at[r] = "face" /\ UNCHANGED <<profileVars, req, held, heard, seen, faulted>>
      /\ at' = [at EXCEPT ![r] = a]
  BY <1>1, <1>2, <1>3, <1>4, <1>5, <1>51, <1>6 DEF Face, Goto
<1>8. /\ template \in Prints \cup {Unset}
      /\ live \in Prints \/ Refusable(q)
  <2>1. "face" \in Inputs[q.kind] /\ "face" \in DOMAIN q.input
    BY <1>1, QuestionFields DEF Inputs
  <2>2. q.input["face"] \in {"bad", "unreadable"} \cup Prints
    BY <2>1, QuestionFields DEF Sent
  <2> QED BY <1>2, <1>3, <1>4, <2>1, <2>2 DEF Account, Templates, Refusable
<1>9. /\ at'[r] = a /\ heard'[r] = heard[r]
      /\ req'[r] = q /\ held'[r] = row /\ seen'[r] = seen[r]
  BY <1>1, <1>2, <1>7 DEF AuthInv, TypeOK
<1>91. /\ given \in Answers \ {"invalid"}
       /\ verdict \in {given, "invalid"}
       /\ verdict = "invalid" => given = "unavailable" /\ q.provider = "candid"
       /\ verdict = "unavailable" => given = "unavailable" /\ q.provider # "candid"
  BY <1>51, <1>52 DEF Passed, Fits, Answers
<1>10. a \in Answers
  BY <1>6, <1>91 DEF Answers
<1>11. Listened(r)'
  BY <1>9, <1>10 DEF Listened, Answers
<1>12. Judged(r)'
  <2> SUFFICES ASSUME a \in {"granted", "denied"}
               PROVE  /\ \A c \in Inputs[q.kind] : row.col[c] \in Prints
                      /\ a = "granted" <=> Matches(q, row)
    BY <1>2, <1>9 DEF Judged
  <2>1. verdict = given /\ given \in {"granted", "denied"}
    <3>1. verdict \in {"granted", "denied"}
      BY <1>6, <1>91 DEF Answers
    <3> QED BY <1>91, <3>1
  <2>2. /\ {template, live} \subseteq Prints
        /\ verdict = IF template = live THEN "granted" ELSE "denied"
    BY <1>52, <2>1 DEF Fits
  <2>3. CASE q.kind = "face"
    <3>1. Inputs[q.kind] = {"face"} /\ a = verdict
      BY <1>6, <2>3 DEF Inputs
    <3> QED BY <1>3, <1>4, <2>2, <3>1 DEF Matches
  <2>4. CASE q.kind = "multimodal"
    <3>1. Inputs[q.kind] = {"voice", "face"}
      BY <2>4 DEF Inputs
    <3>2. /\ q.input["voice"] \in Prints /\ row.col["voice"] \in Prints
          /\ heard[r] <=> q.input["voice"] = row.col["voice"]
      BY <1>1, <1>2, <1>7, <2>4 DEF AuthInv, ReqInv, Listened
    <3>3. a = "granted" <=> (verdict = "granted" /\ heard[r])
      BY <1>6, <2>2, <2>4
    <3> QED BY <1>3, <1>4, <2>2, <3>1, <3>2, <3>3 DEF Matches
  <2> QED BY <1>1, <2>3, <2>4
<1>13. Blamed(r)'
  <2> SUFFICES ASSUME a = "invalid"
               PROVE  \/ Refusable(q)
                      \/ /\ q.provider = "candid"
                         /\ \E x \in seen[r] \ {Nothing} : x.col["face"] = Unset
    BY <1>9 DEF Blamed
  <2>1. CASE live = "bad"
    BY <1>8, <2>1, AuthenticationAssumption
  <2>2. CASE live # "bad"
    <3>1. q.provider = "candid" /\ ~({template, live} \subseteq Prints)
      BY <1>6, <1>52, <1>91, <2>2
    <3> QED BY <1>2, <1>4, <1>8, <3>1, ProfilesAssumption
  <2> QED BY <2>1, <2>2
<1>14. Excused(r)'
  <2> SUFFICES ASSUME a = "unavailable"
               PROVE  \/ q.provider \in {"none", "own"}
                      \/ /\ q.provider # "candid"
                         /\ Refusable(q) \/ \E x \in seen[r] \ {Nothing} : x.col["face"] = Unset
    BY <1>1, <1>9 DEF Excused
  <2>1. \/ q.provider \in {"none", "own"}
        \/ q.provider # "candid" /\ ~({template, live} \subseteq Prints)
    BY <1>6, <1>52, <1>91
  <2> QED BY <1>2, <1>4, <1>8, <2>1, ProfilesAssumption
<1>15. /\ faulted' = [faulted EXCEPT ![r] = faulted[r]] /\ faulted[r] \in BOOLEAN
       /\ heard' = [heard EXCEPT ![r] = heard[r]] /\ heard[r] \in BOOLEAN
  BY <1>7 DEF AuthInv, TypeOK
<1>16. /\ at[r] \in Steps /\ a # "face" /\ a \in Answers \cup {"face"}
       /\ UNCHANGED <<profileVars, req, held, seen>>
  BY <1>7, <1>10 DEF Answers, Steps
<1>17. at' = [at EXCEPT ![r] = a]
  BY <1>7
<1> QED BY <1>11, <1>12, <1>13, <1>14, <1>15, <1>16, <1>17, MoveKeeps

\* The kinds that involve no account.
LEMMA ForeignKeeps ==
    ASSUME AuthInv, NEW r \in Requests, Challenge(r) \/ VoicePair(r) \/ FacePair(r) \/ Break(r)
    PROVE  AuthInv'
<1>1. PICK q \in Questions : q = req[r]
  BY DEF Challenge, VoicePair, FacePair, Break, AuthInv, ReqInv, Placed, Steps
<1>2. DOMAIN q.input = Inputs[q.kind] /\ q.provider \in Providers[q.kind]
  BY QuestionFields
<1>3. ASSUME NEW a \in Answers, at[r] \in Steps, at' = [at EXCEPT ![r] = a],
             UNCHANGED <<profileVars, req, held, heard, seen, faulted>>,
             q.kind \notin OfAccount,
             a = "invalid" => \/ Refusable(q) \/ q.provider \in {"none", "nameless"}
                              \/ q.kind = "challenge" /\ q.provider = "candid",
             a = "unavailable" =>
                 \/ Unconvertible(q)
                 \/ q.kind = "challenge" /\ q.provider = "none"
                 \/ q.kind = "face_pair" /\ q.provider # "candid" /\ Refusable(q)
      PROVE  AuthInv'
  <2>1. /\ at'[r] = a /\ req'[r] = q
        /\ faulted' = [faulted EXCEPT ![r] = faulted[r]] /\ faulted[r] \in BOOLEAN
        /\ heard' = [heard EXCEPT ![r] = heard[r]] /\ heard[r] \in BOOLEAN
    BY <1>1, <1>3 DEF AuthInv, TypeOK
  <2>2. Listened(r)' /\ Judged(r)' /\ Blamed(r)' /\ Excused(r)'
    BY <1>3, <2>1 DEF Listened, Judged, Blamed, Excused, Answers
  <2> QED BY <1>3, <2>1, <2>2, MoveKeeps DEF Answers
<1>4. CASE Challenge(r)
  <2>1. q.kind = "challenge" /\ q.kind \notin OfAccount
    BY <1>1, <1>4 DEF Challenge, AuthInv, ReqInv, Placed, OfAccount
  <2>2. DOMAIN q.input = Inputs["challenge"]
    BY <1>2, <2>1
  <2>3. PICK a \in Answers :
          /\ at' = [at EXCEPT ![r] = a]
          /\ a = "invalid" => \/ \E i \in Inputs["challenge"] : q.input[i] = "bad"
                             \/ q.provider = "candid"
          /\ a = "unavailable" => q.provider = "none"
    BY <1>1, <1>4 DEF Challenge, Goto, Answers, Passed
  <2>4. a = "invalid" => Refusable(q) \/ q.provider = "candid"
    BY <2>2, <2>3 DEF Refusable
  <2>5. at[r] \in Steps /\ UNCHANGED <<profileVars, req, held, heard, seen, faulted>>
    BY <1>4 DEF Challenge, Steps
  <2> QED BY <1>3, <2>1, <2>3, <2>4, <2>5
<1>5. CASE VoicePair(r)
  <2>1. q.kind = "voice_pair" /\ q.kind \notin OfAccount /\ Inputs[q.kind] = {"enrolled", "live"}
    BY <1>1, <1>5 DEF VoicePair, OfAccount, Inputs
  <2>2. PICK a : /\ a = IF BadEmbeddings(q) \/ BadProvider(q) THEN "invalid"
                        ELSE VoiceVerdict(q.input["enrolled"], q.input["live"])
                 /\ at' = [at EXCEPT ![r] = a]
    BY <1>1, <1>5 DEF VoicePair, Goto
  <2>3. a \in Answers
    BY <2>2, VoiceVerdicts DEF Fits, Answers
  <2>4. BadEmbeddings(q) => Refusable(q)
    BY <1>2, <2>1 DEF BadEmbeddings, Refusable
  <2>5. /\ a = "invalid" => Refusable(q) \/ BadProvider(q)
        /\ a = "unavailable" => Unconvertible(q)
    <3> DEFINE pair == {q.input["enrolled"], q.input["live"]}
    <3>1. /\ "unconvertible" \in pair => Unconvertible(q)
          /\ pair \subseteq Prints \cup {"unconvertible"} \/ Refusable(q)
      BY <2>1, PoorInput
    <3> QED BY <2>2, <2>4, <3>1, VoiceVerdicts
  <2> QED BY <1>3, <1>5, <2>1, <2>2, <2>3, <2>5 DEF VoicePair, Steps, BadProvider
<1>6. CASE FacePair(r)
  <2>1. q.kind = "face_pair" /\ q.kind \notin OfAccount /\ Inputs[q.kind] = {"enrolled", "live"}
    BY <1>1, <1>6 DEF FacePair, OfAccount, Inputs
  <2>2. PICK a : /\ a = IF BadEmbeddings(q) \/ BadProvider(q) THEN "invalid"
                        ELSE FaceVerdict(q.input["enrolled"], q.input["live"])
                 /\ at' = [at EXCEPT ![r] = a]
    BY <1>1, <1>6 DEF FacePair, Goto
  <2>3. a \in Answers
    BY <2>2, FaceVerdicts DEF Fits, Answers
  <2>4. BadEmbeddings(q) => Refusable(q)
    BY <1>2, <2>1 DEF BadEmbeddings, Refusable
  <2>5. /\ a = "invalid" => Refusable(q) \/ BadProvider(q)
        /\ a = "unavailable" => Refusable(q) \/ Unconvertible(q)
    <3> DEFINE pair == {q.input["enrolled"], q.input["live"]}
    <3>1. pair \subseteq Prints \/ Refusable(q) \/ Unconvertible(q)
      BY <2>1, PoorInput
    <3> QED BY <2>2, <2>4, <3>1, FaceVerdicts
  <2>6. q.provider # "candid"
    BY <1>2, <2>1 DEF Providers
  <2> QED BY <1>3, <1>6, <2>1, <2>2, <2>3, <2>5, <2>6 DEF FacePair, Steps, BadProvider
<1>7. CASE Break(r)
  <2>1. /\ at' = [at EXCEPT ![r] = "unavailable"] /\ faulted' = [faulted EXCEPT ![r] = TRUE]
        /\ heard' = [heard EXCEPT ![r] = heard[r]] /\ heard[r] \in BOOLEAN
        /\ at'[r] = "unavailable" /\ faulted'[r]
    BY <1>7 DEF Break, Goto, AuthInv, TypeOK
  <2>2. Listened(r)' /\ Judged(r)' /\ Blamed(r)' /\ Excused(r)'
    BY <2>1 DEF Listened, Judged, Blamed, Excused
  <2> QED BY <1>7, <2>1, <2>2, MoveKeeps DEF Break, Answers
<1> QED BY <1>4, <1>5, <1>6, <1>7

LEMMA NextAuth == AuthInv /\ [Next]_vars => AuthInv'
<1> SUFFICES ASSUME AuthInv, [Next]_vars
             PROVE  AuthInv'
  OBVIOUS
<1>1. CASE UNCHANGED vars
  <2>1. ProfileInv'
    BY <1>1, NextProfiles DEF vars, AuthInv
  <2>2. TypeOK'
    BY <1>1, <2>1 DEF vars, authVars, AuthInv, ProfileInv, TypeOK
  <2>3. ASSUME NEW r \in Requests
        PROVE  ReqInv(r)'
    BY <1>1
    DEF vars, authVars, profileVars, AuthInv, ReqInv, Placed, Watched, Listened, Judged, Blamed,
        Excused, Found
  <2> QED BY <2>1, <2>2, <2>3 DEF AuthInv
<1>2. CASE Next
  BY <1>2, ProfilesStepKeeps, CallKeeps, LoadUserKeeps, CheckEnrollmentKeeps, VoiceKeeps,
     FaceKeeps, ForeignKeeps DEF Next
<1> QED BY <1>1, <1>2

\* The invariant the properties follow from: a running request has seen its
\* account's row as it is, holds one it has seen, and is answered by the templates
\* of that row.
THEOREM AuthInvariance == Spec => []AuthInv
<1>1. AuthInv /\ [Next]_vars => AuthInv'
  BY NextAuth
<1> QED BY InitAuth, <1>1, PTL DEF Spec

\* Accounts, sessions and requests keep their types, and whoever is past the load
\* holds a row.
THEOREM AuthTypeCorrect == Spec => []TypeOK
<1>1. AuthInv => TypeOK
  BY DEF AuthInv
<1> QED BY AuthInvariance, <1>1, PTL

\* Whoever is granted or denied is judged on one version of the account that it
\* had during the request, whatever the sessions of the user service and the
\* endpoints commit in between.
THEOREM JudgedOnce == Spec => []JudgedOnOneProfile
<1>1. ASSUME AuthInv
      PROVE  JudgedOnOneProfile
  <2> SUFFICES ASSUME NEW r \in Requests, at[r] \in {"granted", "denied"},
                      req[r].kind \in OfAccount
               PROVE  \E row \in seen[r] \ {Nothing} :
                          /\ row.active
                          /\ \A c \in Inputs[req[r].kind] : row.col[c] \in Prints
                          /\ at[r] = "granted" <=> Matches(req[r], row)
    BY DEF JudgedOnOneProfile
  <2>1. Judged(r)
    BY <1>1 DEF AuthInv, ReqInv
  <2>2. held[r] \in seen[r] \ {Nothing}
    BY <2>1, ProfilesAssumption DEF Judged
  <2> QED BY <2>1, <2>2 DEF Judged
<1> QED BY AuthInvariance, <1>1, PTL

\* A caller is blamed only for its input, its provider or its account, and told
\* to come back later only for a failure or for what a provider takes for one: an
\* input numpy cannot convert, a picture or a face template nothing comes of.
THEOREM ErrorsTold == Spec => []ErrorsJustified
<1>1. ASSUME AuthInv
      PROVE  ErrorsJustified
  <2>1. ASSUME NEW r \in Requests
        PROVE  Blamed(r) /\ Excused(r)
    BY <1>1 DEF AuthInv, ReqInv
  <2> QED BY <2>1 DEF ErrorsJustified, Blamed, Excused
<1> QED BY AuthInvariance, <1>1, PTL

\* A column changes only as a session was asked, in the commit that logs it, or in
\* an enrollment: no flush writes a stale copy back over another's change.
THEOREM ChangesLogged == Spec => ChangesAskedAndLogged
<1>1. [Next]_vars => [ProfilesNext]_profileVars
  BY DEF Next, vars, ProfilesStep, Call, LoadUser, CheckEnrollment, Voice, Face, Challenge,
         VoicePair, FacePair, Break
<1>2. AuthInv /\ [Next]_vars =>
        [\A u \in Uids, c \in Columns :
           users[u] # Nothing /\ users'[u].col[c] # users[u].col[c] =>
              \/ \E s \in Sessions :
                   /\ copy[s] # Nothing /\ copy[s].user = u
                   /\ call[s].ask[c] = users'[u].col[c]
                   /\ [by |-> s, op |-> call[s].op] \in log' \ log
              \/ \E voice, face \in Prints : Enroll(u, voice, face)]_profileVars
  <2> SUFFICES ASSUME AuthInv, [Next]_vars, NEW u \in Uids, NEW c \in Columns,
                      users[u] # Nothing, users'[u].col[c] # users[u].col[c]
               PROVE  \/ \E s \in Sessions :
                           /\ copy[s] # Nothing /\ copy[s].user = u
                           /\ call[s].ask[c] = users'[u].col[c]
                           /\ [by |-> s, op |-> call[s].op] \in log' \ log
                      \/ \E voice, face \in Prints : Enroll(u, voice, face)
    OBVIOUS
  <2> QED BY <1>1, ChangesStep DEF AuthInv
<1> QED BY AuthInvariance, <1>2, PTL DEF Spec, ChangesAskedAndLogged
=============================================================================
