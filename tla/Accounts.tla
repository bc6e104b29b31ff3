------------------------------ MODULE Accounts ------------------------------
(***************************************************************************)
(* The users table and everyone who writes it: signup, login, enrollment   *)
(* under a session cookie, the account operations of the user service, and *)
(* the initiate handler as the reader that pays.                           *)
(*                                                                         *)
(* A request works on its own session: it loads a row, awaits, and commits *)
(* the columns it changed in its copy, whatever the row holds by then.     *)
(***************************************************************************)
EXTENDS Naturals

CONSTANTS
    Ids,       \* user_ids, drawn by uuid4
    Emails, Phones,
    Tables,    \* users tables the application may start on
    Requests,  \* requests, each of one operation
    Limit,     \* max_attempts (5 in increment_failed_attempts)
    Nothing    \* no row, no user, no copy

\* verified stands for the voice and face templates, which enrollment commits
\* with it.
Row == [email : Emails, phone : Phones, active : BOOLEAN, verified : BOOLEAN, failed : Nat]

Distinct(table) ==
    \A i, j \in Ids : i # j /\ table[i] # Nothing /\ table[j] # Nothing =>
        table[i].email # table[j].email /\ table[i].phone # table[j].phone

\* An account at the limit is locked until somebody activates it.
Locked(row) == row.failed >= Limit => ~row.active

ASSUME ConstantsAssumption ==
    /\ Limit \in Nat \ {0}
    /\ Nothing \notin Row \cup Ids \cup [email : Emails, phone : Phones]
    /\ Tables \subseteq [Ids -> Row \cup {Nothing}]
    /\ \A table \in Tables :
        Distinct(table) /\ \A i \in Ids : table[i] # Nothing => Locked(table[i])

VARIABLES
    users,    \* the users table
    cookies,  \* user_ids of the unexpired tokens clients hold
    audit,    \* audit_logs: the account events
    paid,     \* the requests that wrote a completed payment
    stage,    \* progress of each request
    form,     \* the email and phone of a signup
    who,      \* the row a request works on
    mine      \* that row as its session loaded it

vars == <<users, cookies, audit, paid, stage, form, who, mine>>

session == <<form, who, mine>>

\* Requests that loaded a row, by what they go on to do.
Loaded == {"login", "enroll", "pay", "fail", "reset", "activate", "deactivate"}
SigningUp == {"phone", "insert", "refresh"}
Replied == {"200", "201", "401", "403", "404", "409", "500"}

Events == {"ACCOUNT_ACTIVATED", "ACCOUNT_DEACTIVATED", "FAILED_AUTHENTICATION"}

TypeOK ==
    /\ users \in [Ids -> Row \cup {Nothing}]
    /\ cookies \subseteq Ids
    /\ audit \subseteq [by : Requests, user : Ids, event : Events]
    /\ paid \subseteq Requests
    /\ stage \in [Requests -> {"idle"} \cup SigningUp \cup Loaded \cup Replied]
    /\ form \in [Requests -> [email : Emails, phone : Phones] \cup {Nothing}]
    /\ who \in [Requests -> Ids \cup {Nothing}]
    /\ mine \in [Requests -> Row \cup {Nothing}]
    /\ \A r \in Requests : stage[r] \in {"phone", "insert"} => form[r] # Nothing
    /\ \A r \in Requests : stage[r] \in Loaded => who[r] # Nothing /\ mine[r] # Nothing

Init ==
    /\ users \in Tables
    /\ cookies \in SUBSET {i \in Ids : users[i] # Nothing}
    /\ audit = {} /\ paid = {}
    /\ stage = [r \in Requests |-> "idle"]
    /\ form = [r \in Requests |-> Nothing]
    /\ who = [r \in Requests |-> Nothing]
    /\ mine = [r \in Requests |-> Nothing]

Reply(r, code) == stage' = [stage EXCEPT ![r] = code]

Refuse(r, code) ==
    Reply(r, code) /\ UNCHANGED <<users, cookies, audit, paid, session>>

-----------------------------------------------------------------------------
(* POST /auth/signup                                                       *)

HasEmail(i, email) == users[i] # Nothing /\ users[i].email = email
HasPhone(i, phone) == users[i] # Nothing /\ users[i].phone = phone

EmailTaken(email) == \E i \in Ids : HasEmail(i, email)
PhoneTaken(phone) == \E i \in Ids : HasPhone(i, phone)

CheckEmail(r) ==
    /\ stage[r] = "idle"
    /\ \E f \in [email : Emails, phone : Phones] :
        /\ form' = [form EXCEPT ![r] = f]
        /\ Reply(r, IF EmailTaken(f.email) THEN "409" ELSE "phone")
    /\ UNCHANGED <<users, cookies, audit, paid, who, mine>>

CheckPhone(r) ==
    /\ stage[r] = "phone"
    /\ Reply(r, IF PhoneTaken(form[r].phone) THEN "409" ELSE "insert")
    /\ UNCHANGED <<users, cookies, audit, paid, session>>

\* Faulty variants: signup relies on its checks, or one account is enough.
ClashUnindexed(f) == FALSE
ClashAny(f) == \E i \in Ids : users[i] # Nothing

\* The UNIQUE indexes on email and phone_number.
Clash(f) == EmailTaken(f.email) \/ PhoneTaken(f.phone)

\* The commit inserts the row, or is an IntegrityError and a 409.
Insert(r) ==
    /\ stage[r] = "insert"
    /\ IF Clash(form[r]) THEN Refuse(r, "409")
       ELSE /\ \E i \in Ids :
                /\ users[i] = Nothing
                /\ users' = [users EXCEPT ![i] =
                      [email |-> form[r].email, phone |-> form[r].phone,
                       active |-> TRUE, verified |-> FALSE, failed |-> 0]]
                /\ who' = [who EXCEPT ![r] = i]
            /\ Reply(r, "refresh")
            /\ UNCHANGED <<cookies, audit, paid, form, mine>>

Refresh(r) == stage[r] = "refresh" /\ Refuse(r, "201")

\* Any other error rolls back to a 500; after the insert there is nothing left
\* to roll back.
SignupFails(r) == stage[r] \in SigningUp /\ Refuse(r, "500")

-----------------------------------------------------------------------------
(* Loading a row                                                           *)

Load(r, i, op) ==
    /\ Reply(r, op)
    /\ who' = [who EXCEPT ![r] = i]
    /\ mine' = [mine EXCEPT ![r] = users[i]]
    /\ UNCHANGED <<users, cookies, audit, paid, form>>

\* POST /auth/login: the password is verified before the account's state.
Login(r) ==
    /\ stage[r] = "idle"
    /\ \/ Refuse(r, "401")
       \/ \E i \in Ids :
            /\ users[i] # Nothing
            /\ IF users[i].active THEN Load(r, i, "login") ELSE Refuse(r, "403")

\* get_current_user before POST /users/enroll; no cookie, or one whose token is
\* not valid, is a 401.
Authorize(r) ==
    /\ stage[r] = "idle"
    /\ \/ Refuse(r, "401")
       \/ \E i \in cookies :
            IF users[i] = Nothing THEN Refuse(r, "401")
            ELSE IF users[i].active THEN Load(r, i, "enroll") ELSE Refuse(r, "403")

\* POST /transactions/initiate resolves the speaker among the enrolled users,
\* then loads the user.
Identify(r) ==
    /\ stage[r] = "idle"
    /\ \/ Refuse(r, "404")
       \/ \E i \in Ids : users[i] # Nothing /\ users[i].verified /\ Load(r, i, "pay")

\* Faulty variant: a missing row is not refused.
FindUnchecked(r) ==
    /\ stage[r] = "idle"
    /\ \E i \in Ids, op \in {"fail", "reset", "activate", "deactivate"} : Load(r, i, op)

\* _get_user_by_id in the user service's operations.
Find(r) ==
    /\ stage[r] = "idle"
    /\ \E i \in Ids :
        IF users[i] = Nothing THEN Refuse(r, "404")
        ELSE \E op \in {"fail", "reset", "activate", "deactivate"} : Load(r, i, op)

-----------------------------------------------------------------------------
(* Writing it                                                              *)

\* Faulty variant: every column of the copy is written.
FlushedWhole(old, copy, new) == new

\* The UPDATE sets the columns in which the session's object differs from its
\* copy as loaded.
Flushed(old, copy, new) ==
    [old EXCEPT !.active   = IF new.active = copy.active THEN @ ELSE new.active,
                !.verified = IF new.verified = copy.verified THEN @ ELSE new.verified,
                !.failed   = IF new.failed = copy.failed THEN @ ELSE new.failed]

\* The request's object is committed as new, with these events, and it is
\* answered; the user service only flushes and its caller commits.
Write(r, new, events) ==
    /\ users' = [users EXCEPT ![who[r]] = Flushed(@, mine[r], new)]
    /\ audit' = audit \cup {[by |-> r, user |-> who[r], event |-> e] : e \in events}
    /\ Reply(r, "200")
    /\ UNCHANGED <<cookies, paid, session>>

\* last_login_at is committed with the cookie already in the response.
EndLogin(r) ==
    /\ stage[r] = "login"
    /\ cookies' = cookies \cup {who[r]}
    /\ Reply(r, "200")
    /\ UNCHANGED <<users, audit, paid, session>>

Enroll(r) == stage[r] = "enroll" /\ Write(r, [mine[r] EXCEPT !.verified = TRUE], {})

\* The payment of a LOW risk command.
Settle(r) ==
    /\ stage[r] = "pay"
    /\ paid' = paid \cup {r}
    /\ Reply(r, "200")
    /\ UNCHANGED <<users, cookies, audit, session>>

\* Faulty variant: one failure too many.
ReachedLate(n) == n > Limit

Reached(n) == n >= Limit

\* increment_failed_attempts: at the limit an account that was active when it
\* was loaded is deactivated.
Fail(r) ==
    LET n     == mine[r].failed + 1
        locks == Reached(n) /\ mine[r].active
    IN  /\ stage[r] = "fail"
        /\ Write(r, [mine[r] EXCEPT !.failed = n, !.active = @ /\ ~locks],
                 {"FAILED_AUTHENTICATION"} \cup IF locks THEN {"ACCOUNT_DEACTIVATED"} ELSE {})

Reset(r) == stage[r] = "reset" /\ Write(r, [mine[r] EXCEPT !.failed = 0], {})

\* An account that is active already is left alone.
Activate(r) ==
    /\ stage[r] = "activate"
    /\ Write(r, [mine[r] EXCEPT !.active = TRUE],
             IF mine[r].active THEN {} ELSE {"ACCOUNT_ACTIVATED"})

Deactivate(r) ==
    /\ stage[r] = "deactivate"
    /\ Write(r, [mine[r] EXCEPT !.active = FALSE],
             IF mine[r].active THEN {"ACCOUNT_DEACTIVATED"} ELSE {})

\* A failure before the commit rolls everything back.
Raise(r) == stage[r] \in Loaded /\ Refuse(r, "500")

\* POST /auth/logout clears the cookie; a token that expires is as good as cleared.
Logout ==
    /\ \E i \in cookies : cookies' = cookies \ {i}
    /\ UNCHANGED <<users, audit, paid, stage, session>>

-----------------------------------------------------------------------------

Signup(r) == CheckEmail(r) \/ CheckPhone(r) \/ Insert(r) \/ Refresh(r) \/ SignupFails(r)

Begin(r) == Login(r) \/ Authorize(r) \/ Identify(r) \/ Find(r)

End(r) ==
    \/ EndLogin(r) \/ Enroll(r) \/ Settle(r)
    \/ Fail(r) \/ Reset(r) \/ Activate(r) \/ Deactivate(r) \/ Raise(r)

Next == (\E r \in Requests : Signup(r) \/ Begin(r) \/ End(r)) \/ Logout

Spec == Init /\ [][Next]_vars

-----------------------------------------------------------------------------
(* Correctness                                                             *)

\* No two accounts share an email or a phone number, though two signups may
\* both have found them free.
UniqueAccounts == Distinct(users)

\* A signup is answered 409 only if another account holds its email or its
\* phone number, and 201 only if its own account does.
SignupTruthful ==
    \A r \in Requests : form[r] # Nothing =>
        /\ stage[r] = "409" => /\ who[r] = Nothing
                               /\ EmailTaken(form[r].email) \/ PhoneTaken(form[r].phone)
        /\ stage[r] = "201" => /\ HasEmail(who[r], form[r].email)
                               /\ HasPhone(who[r], form[r].phone)

\* An account at the limit is locked, unless someone activated it: no order of
\* overlapping failures, resets and enrollments leaves it open by accident.
LockedUnlessActivated ==
    \A i \in Ids : users[i] # Nothing =>
        \/ Locked(users[i])
        \/ \E a \in audit : a.user = i /\ a.event = "ACCOUNT_ACTIVATED"

\* An account changes between active and inactive only in a commit that writes
\* the event to the audit log; no stale copy reverts it.
FlipsAudited ==
    [][\A i \in Ids : users[i] # Nothing /\ users'[i].active # users[i].active =>
          \E a \in audit' \ audit :
            /\ a.user = i
            /\ a.event = IF users'[i].active THEN "ACCOUNT_ACTIVATED"
                                             ELSE "ACCOUNT_DEACTIVATED"]_vars

-----------------------------------------------------------------------------
(* What the source says of itself; a run compares it with the code.        *)

\* deactivate_user_account "prevents future service interactions until the
\* account is reactivated": no payment is made by an account that was inactive
\* when its request came.
PaidByActive == \A r \in paid : mine[r].active
=============================================================================
