------------------------------ MODULE Profiles ------------------------------
(***************************************************************************)
(* The user service's profile and biometric operations: each loads a row   *)
(* in a session of its own, decides on that copy, then flushes the columns *)
(* it changed together with an audit event; the caller commits.            *)
(*                                                                         *)
(* A session's identity map answers every later SELECT of the row with the *)
(* copy loaded first, so the checks after the load see nothing new.        *)
(***************************************************************************)
EXTENDS Naturals, FiniteSets

CONSTANTS
    Uids,
    Contacts,  \* stands for the email and for the phone number
    Langs,     \* stands for the language and for the full name
    Prints,    \* biometric templates, alike only if they are of one person
    Unset,     \* the empty list a signup stores for a template
    Sessions,  \* sessions of the user service, each of one operation
    Nothing,   \* no row; no value given; not yet called
    MaxWrites  \* bound on the commits from outside the user service

Columns == {"contact", "lang", "voice", "face"}

Templates == {"voice", "face"}

Values == Contacts \cup Langs \cup Prints \cup {Unset}

Row == [col : [Columns -> Values], active : BOOLEAN]

\* The columns an operation may write; of a registration, which never stores its
\* row, those it is checked for.
Scope == [profile |-> {"contact", "lang"}, language |-> {"lang"},
          speaker |-> {"voice"}, face |-> {"face"}, register |-> {"contact"}]

\* What a column may be asked to hold: empty embeddings are refused.
Asked(c) == CASE c = "contact" -> Contacts
              [] c = "lang" -> Langs
              [] c \in Templates -> Prints

\* A schema-checked request for an operation: some of the columns in its scope.
Asks(o) ==
    {f \in [Columns -> Values \cup {Nothing}] :
        /\ \A c \in Columns : f[c] = Nothing \/ (c \in Scope[o] /\ f[c] \in Asked(c))
        /\ \E c \in Columns : f[c] # Nothing}

Calls == UNION {[op : {o}, ask : Asks(o)] : o \in DOMAIN Scope}

ASSUME ProfilesAssumption ==
    /\ Nothing \notin Values \cup Row
    /\ Nothing \notin Calls
    /\ Nothing \notin [user : Uids, row : Row]
    /\ Unset \notin Prints
    /\ MaxWrites \in Nat

VARIABLES
    users,  \* the users table
    log,    \* audit_logs: the session and the operation of each event
    call,   \* what each session is to do
    copy,   \* the row as it was loaded, and whose
    step,
    writes  \* commits from outside the user service so far

profileVars == <<users, log, call, copy, step, writes>>

Ended == {"missing", "inactive", "invalid", "unchanged", "updated", "exists", "failed"}

ProfilesTypeOK ==
    /\ users \in [Uids -> Row \cup {Nothing}]
    /\ log \subseteq [by : Sessions, op : DOMAIN Scope]
    /\ call \in [Sessions -> Calls \cup {Nothing}]
    /\ copy \in [Sessions -> [user : Uids, row : Row] \cup {Nothing}]
    /\ step \in [Sessions -> {"idle", "loaded", "insert"} \cup Ended]
    /\ writes \in 0..MaxWrites
    /\ \A s \in Sessions : step[s] # "idle" => call[s] # Nothing
    /\ \A s \in Sessions : step[s] = "loaded" => copy[s] # Nothing

\* Accounts as signups and the operations below leave them.
Account(row) ==
    /\ row.col["contact"] \in Contacts
    /\ row.col["lang"] \in Langs
    /\ \A c \in Templates : row.col[c] \in Prints \cup {Unset}

Unique(table) ==
    \A u, v \in Uids : u # v /\ table[u] # Nothing /\ table[v] # Nothing
                         => table[u].col["contact"] # table[v].col["contact"]

ProfilesInit ==
    /\ users \in [Uids -> {row \in Row : Account(row)} \cup {Nothing}]
    /\ Unique(users)
    /\ log = {}
    /\ call = [s \in Sessions |-> Nothing]
    /\ copy = [s \in Sessions |-> Nothing]
    /\ step = [s \in Sessions |-> "idle"]
    /\ writes = 0

Answer(s, a) == step' = [step EXCEPT ![s] = a]

Refuse(s, a) == Answer(s, a) /\ UNCHANGED <<users, log, call, copy, writes>>

-----------------------------------------------------------------------------
(* Updates                                                                 *)

\* get_user_entity: the row must be there and active.
Load(s) ==
    /\ step[s] = "idle"
    /\ \E q \in Calls, u \in Uids :
         /\ q.op # "register"
         /\ call' = [call EXCEPT ![s] = q]
         /\ IF users[u] = Nothing THEN Answer(s, "missing") /\ UNCHANGED copy
            ELSE IF ~users[u].active THEN Answer(s, "inactive") /\ UNCHANGED copy
            ELSE /\ copy' = [copy EXCEPT ![s] = [user |-> u, row |-> users[u]]]
                 /\ Answer(s, "loaded")
    /\ UNCHANGED <<users, log, writes>>

\* An empty embedding, or a name that is too short.
Reject(s) ==
    /\ step[s] \in {"loaded", "insert"}
    /\ call[s].op # "language"
    /\ Refuse(s, "invalid")

\* The columns in which the session's object differs from what it loaded.
Dirty(s) ==
    {c \in Columns : call[s].ask[c] # Nothing /\ call[s].ask[c] # copy[s].row.col[c]}

\* All but a profile update return at once when there is nothing to change.
Unchanged(s) ==
    /\ step[s] = "loaded"
    /\ call[s].op # "profile"
    /\ Dirty(s) = {}
    /\ Refuse(s, "unchanged")

Taken(contact) == \E u \in Uids : users[u] # Nothing /\ users[u].col["contact"] = contact

\* Faulty variant: the UPDATE writes the whole copy back.
FlushedWhole(s, row) ==
    [row EXCEPT !.col = [c \in Columns |->
        IF call[s].ask[c] # Nothing THEN call[s].ask[c] ELSE copy[s].row.col[c]]]

\* The UPDATE sets the dirty columns of whatever the row holds by now.
Flushed(s, row) ==
    [row EXCEPT !.col =
        [c \in Columns |-> IF c \in Dirty(s) THEN call[s].ask[c] ELSE row.col[c]]]

\* The change and its audit event, flushed and committed together; the unique
\* index refuses a contact that is another account's.
Store(s, op) ==
    /\ step[s] = "loaded"
    /\ call[s].op = op
    /\ users' = [users EXCEPT ![copy[s].user] = Flushed(s, @)]
    /\ Unique(users')
    /\ log' = log \cup {[by |-> s, op |-> op]}
    /\ Answer(s, "updated")
    /\ UNCHANGED <<call, copy, writes>>

\* A profile update is logged even when it changes nothing.
UpdateProfile(s) == Store(s, "profile")

UpdateLanguage(s) == Store(s, "language") /\ Dirty(s) # {}

UpdateSpeaker(s) == Store(s, "speaker") /\ Dirty(s) # {}

UpdateFace(s) == Store(s, "face") /\ Dirty(s) # {}

\* The flush meets the unique index, the lock of another writer, or any error:
\* safe_flush rolls the session back.
Fail(s) == step[s] \in {"loaded", "insert"} /\ Refuse(s, "failed")

-----------------------------------------------------------------------------
(* Registration                                                            *)

\* register_user checks the email and the phone number...
Register(s) ==
    /\ step[s] = "idle"
    /\ \E q \in Calls :
         /\ q.op = "register"
         /\ call' = [call EXCEPT ![s] = q]
         /\ Answer(s, IF Taken(q.ask["contact"]) THEN "exists" ELSE "insert")
    /\ UNCHANGED <<users, log, copy, writes>>

\* ...and create_user inserts a row without a hashed_password, which the column
\* requires: the IntegrityError is reported as a user who exists already.
InsertUser(s) == step[s] = "insert" /\ Refuse(s, "exists")

-----------------------------------------------------------------------------
(* What the endpoints commit from sessions of their own                    *)

Outside ==
    /\ writes < MaxWrites
    /\ writes' = writes + 1
    /\ UNCHANGED <<log, call, copy, step>>

\* signup stores an empty list for each template.
SignUp(u, contact, lang) ==
    /\ users[u] = Nothing
    /\ ~Taken(contact)
    /\ users' = [users EXCEPT ![u] =
         [col |-> [c \in Columns |-> CASE c = "contact" -> contact
                                      [] c = "lang" -> lang
                                      [] c \in Templates -> Unset],
          active |-> TRUE]]
    /\ Outside

\* enroll_user stores both templates at once.
Enroll(u, voice, face) ==
    /\ users[u] # Nothing
    /\ users' = [users EXCEPT ![u].col =
         [c \in Columns |-> CASE c = "voice" -> voice
                             [] c = "face" -> face
                             [] OTHER -> users[u].col[c]]]
    /\ Outside

\* The lockout, the activation and the deactivation of Accounts.
SetActive(u) ==
    /\ users[u] # Nothing
    /\ users' = [users EXCEPT ![u].active = ~@]
    /\ Outside

ProfilesNext ==
    \/ \E s \in Sessions :
        \/ Load(s) \/ Reject(s) \/ Unchanged(s) \/ Fail(s)
        \/ UpdateProfile(s) \/ UpdateLanguage(s) \/ UpdateSpeaker(s) \/ UpdateFace(s)
        \/ Register(s) \/ InsertUser(s)
    \/ \E u \in Uids :
        \/ SetActive(u)
        \/ (\E contact \in Contacts, lang \in Langs : SignUp(u, contact, lang))
        \/ (\E voice, face \in Prints : Enroll(u, voice, face))

ProfilesSpec == ProfilesInit /\ [][ProfilesNext]_profileVars

-----------------------------------------------------------------------------
(* Correctness                                                             *)

\* A column of an account changes only to a value that some session was asked
\* to store in it, in the commit that logs that session's event, or in an
\* enrollment: overlapping updates of different columns both last, however
\* stale the copies they were decided on.
ChangesAskedAndLogged ==
    [][\A u \in Uids, c \in Columns :
         users[u] # Nothing /\ users'[u].col[c] # users[u].col[c] =>
            \/ \E s \in Sessions :
                 /\ copy[s] # Nothing /\ copy[s].user = u
                 /\ call[s].ask[c] = users'[u].col[c]
                 /\ [by |-> s, op |-> call[s].op] \in log' \ log
            \/ \E voice, face \in Prints : Enroll(u, voice, face)]_profileVars
=============================================================================
