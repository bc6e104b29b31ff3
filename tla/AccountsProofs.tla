--------------------------- MODULE AccountsProofs ---------------------------
(***************************************************************************)
(* What Accounts guarantees for every number of accounts and overlapping   *)
(* requests and every limit, checked by TLAPS.                             *)
(*                                                                         *)
(* A request may write from a copy that is stale.  The invariant says what *)
(* a stale copy can hide: an account that became active behind it did so   *)
(* by an activation the audit log has.                                     *)
(***************************************************************************)
EXTENDS Accounts, TLAPS

Activated(i) == \E a \in audit : a.user = i /\ a.event = "ACCOUNT_ACTIVATED"

\* A loaded row is still there.
Present ==
    \A r \in Requests : stage[r] \in Loaded => users[who[r]] # Nothing

\* An account that is active behind an inactive copy was activated.
ActiveBehind ==
    \A r \in Requests :
        stage[r] \in Loaded /\ ~mine[r].active /\ users[who[r]].active => Activated(who[r])

\* Only a request that was answered has events in the audit log.
AuditAnswered == \A a \in audit : stage[a.by] \in Replied

\* What a signup was told is so; while it is open it has no account.
SignupSound ==
    \A r \in Requests : form[r] # Nothing =>
        /\ stage[r] \in {"phone", "insert", "409"} => who[r] = Nothing
        /\ stage[r] = "409" => EmailTaken(form[r].email) \/ PhoneTaken(form[r].phone)
        /\ stage[r] \in {"refresh", "201"} =>
              /\ who[r] \in Ids
              /\ HasEmail(who[r], form[r].email) /\ HasPhone(who[r], form[r].phone)

\* Each request is a signup or has no form, and before it begins no account.
Once ==
    \A r \in Requests :
        /\ stage[r] = "idle" => form[r] = Nothing /\ who[r] = Nothing
        /\ stage[r] \in SigningUp \cup {"201"} => form[r] # Nothing
        /\ stage[r] \in Loaded => form[r] = Nothing

Inv ==
    /\ TypeOK
    /\ Present
    /\ ActiveBehind
    /\ AuditAnswered
    /\ SignupSound
    /\ Once
    /\ UniqueAccounts
    /\ LockedUnlessActivated

-----------------------------------------------------------------------------

\* The tables the application starts on satisfy the invariant.
LEMMA InitInv == Init => Inv
  <1> SUFFICES ASSUME Init PROVE Inv
    OBVIOUS
  <1> USE ConstantsAssumption DEF Init
  <1>1. TypeOK
    BY DEF TypeOK, Loaded
  <1>2. Present /\ ActiveBehind /\ AuditAnswered /\ SignupSound /\ Once
    BY DEF Present, ActiveBehind, AuditAnswered, SignupSound, Once, Loaded, SigningUp, Replied
  <1>3. UniqueAccounts /\ LockedUnlessActivated
    BY DEF UniqueAccounts, LockedUnlessActivated
  <1> QED
    BY <1>1, <1>2, <1>3 DEF Inv

\* A refusal changes nothing but its own stage.
LEMMA RefuseStep ==
    ASSUME Inv, NEW r \in Requests, NEW code \in Replied, Refuse(r, code),
           stage[r] \in SigningUp \cup Loaded \cup {"idle"},
           code = "201" => stage[r] = "refresh",
           code = "409" => /\ stage[r] = "insert"
                           /\ Clash(form[r])
    PROVE  Inv'
  <1> USE DEF session
  <1>1. /\ stage' = [stage EXCEPT ![r] = code] /\ stage \in [Requests -> {"idle"} \cup SigningUp \cup Loaded \cup Replied]
        /\ UNCHANGED <<users, cookies, audit, paid, form, who, mine>>
    BY DEF Refuse, Reply, Inv, TypeOK
  <1>2. TypeOK'
    BY <1>1 DEF Inv, TypeOK, Loaded, SigningUp, Replied
  <1>3. Present' /\ ActiveBehind' /\ AuditAnswered'
    BY <1>1 DEF Inv, Present, ActiveBehind, AuditAnswered, Activated, Loaded, Replied
  <1>4. SignupSound'
    BY <1>1 DEF Inv, SignupSound, Once, Clash, EmailTaken, PhoneTaken, HasEmail, HasPhone,
       SigningUp, Loaded, Replied
  <1>5. Once'
    BY <1>1 DEF Inv, Once, Loaded, SigningUp, Replied
  <1>6. UniqueAccounts' /\ LockedUnlessActivated'
    BY <1>1 DEF Inv, UniqueAccounts, Distinct, LockedUnlessActivated
  <1> QED
    BY <1>2, <1>3, <1>4, <1>5, <1>6 DEF Inv

\* Loading a row that is there takes a fresh copy of it.
LEMMA LoadStep ==
    ASSUME Inv, NEW r \in Requests, NEW i \in Ids, NEW op \in Loaded, Load(r, i, op),
           stage[r] = "idle", users[i] # Nothing
    PROVE  Inv'
  <1> USE ConstantsAssumption
  <1>1. /\ stage' = [stage EXCEPT ![r] = op]
        /\ who' = [who EXCEPT ![r] = i]
        /\ mine' = [mine EXCEPT ![r] = users[i]]
        /\ UNCHANGED <<users, cookies, audit, paid, form>>
    BY DEF Load, Reply
  <1>t. TypeOK
    BY DEF Inv
  <1>2. TypeOK'
    BY <1>1, <1>t DEF TypeOK, Loaded, SigningUp, Replied
  <1>3. Present' /\ ActiveBehind'
    BY <1>1, <1>t DEF Inv, TypeOK, Present, ActiveBehind, Activated
  <1>4. AuditAnswered'
    BY <1>1, <1>t DEF Inv, TypeOK, AuditAnswered, Replied
  <1>5. SignupSound' /\ Once'
    BY <1>1, <1>t DEF Inv, TypeOK, SignupSound, Once, EmailTaken, PhoneTaken, HasEmail, HasPhone,
       Loaded, SigningUp
  <1>6. UniqueAccounts' /\ LockedUnlessActivated'
    BY <1>1 DEF Inv, UniqueAccounts, Distinct, LockedUnlessActivated
  <1> QED
    BY <1>2, <1>3, <1>4, <1>5, <1>6 DEF Inv

\* A write from a copy, however stale: it may deactivate, and activates only
\* with the event; a counter it raises to the limit locks what the copy saw open.
LEMMA WriteStep ==
    ASSUME Inv, NEW r \in Requests, NEW new \in Row, NEW events \in SUBSET Events,
           Write(r, new, events), stage[r] \in Loaded,
           new.active /\ ~mine[r].active => "ACCOUNT_ACTIVATED" \in events,
           new.failed # mine[r].failed /\ new.failed >= Limit => ~new.active
    PROVE  Inv'
  <1> USE ConstantsAssumption DEF session
  <1>t. TypeOK
    BY DEF Inv
  <1>i. PICK i \in Ids : i = who[r]
    BY <1>t DEF TypeOK
  <1> DEFINE row == Flushed(users[i], mine[r], new)
             log == {[by |-> r, user |-> i, event |-> e] : e \in events}
  <1>0. i \in Ids /\ i = who[r] /\ mine[r] \in Row /\ users[i] \in Row
    BY <1>t, <1>i DEF Inv, TypeOK, Present
  <1>1. /\ users' = [users EXCEPT ![i] = row]
        /\ audit' = audit \cup log
        /\ stage' = [stage EXCEPT ![r] = "200"]
        /\ UNCHANGED <<cookies, paid, form, who, mine>>
    BY <1>i DEF Write, Reply
  <1>2. /\ row \in Row
        /\ row.email = users[i].email /\ row.phone = users[i].phone
        /\ row.active = IF new.active = mine[r].active THEN users[i].active ELSE new.active
        /\ row.failed = IF new.failed = mine[r].failed THEN users[i].failed ELSE new.failed
    BY <1>0 DEF Flushed, Row
  <1>3. /\ \A a \in log : a \in [by : Requests, user : Ids, event : Events]
        /\ \A a \in log : a.by = r
        /\ "ACCOUNT_ACTIVATED" \in events =>
              \E a \in log : a.user = i /\ a.event = "ACCOUNT_ACTIVATED"
    <2>1. ASSUME NEW a \in log PROVE a \in [by : Requests, user : Ids, event : Events] /\ a.by = r
      <3>1. PICK e \in events : a = [by |-> r, user |-> i, event |-> e]
        OBVIOUS
      <3> QED
        BY <3>1, <1>0
    <2>2. ASSUME "ACCOUNT_ACTIVATED" \in events
          PROVE  \E a \in log : a.user = i /\ a.event = "ACCOUNT_ACTIVATED"
      <3>1. [by |-> r, user |-> i, event |-> "ACCOUNT_ACTIVATED"] \in log
        BY <2>2
      <3> QED
        BY <3>1
    <2> QED
      BY <2>1, <2>2
  <1>b. /\ new.active \in BOOLEAN /\ mine[r].active \in BOOLEAN /\ users[i].active \in BOOLEAN
        /\ mine[r].failed \in Nat /\ users[i].failed \in Nat /\ new.failed \in Nat
    BY <1>0 DEF Row
  <1>w. users[i].active /\ ~mine[r].active => Activated(i)
    BY <1>i DEF Inv, ActiveBehind
  <1> HIDE DEF row, log
  <1>4. TypeOK'
    BY <1>t, <1>0, <1>1, <1>2, <1>3 DEF TypeOK, Loaded, SigningUp, Replied
  <1>5. \A j \in Ids : Activated(j) => Activated(j)'
    BY <1>1 DEF Activated
  <1>6. row.active /\ ~users[i].active => Activated(i)'
    <2> SUFFICES ASSUME row.active, ~users[i].active PROVE Activated(i)'
      OBVIOUS
    <2>1. new.active /\ ~mine[r].active
      BY <1>b, <1>2
    <2> QED
      BY <2>1, <1>1, <1>3 DEF Activated
  <1>7. Present' /\ AuditAnswered' /\ Once'
    BY <1>t, <1>0, <1>1, <1>2, <1>3
    DEF Inv, TypeOK, Present, AuditAnswered, Once, Loaded, SigningUp, Replied
  <1>8. ActiveBehind'
    <2> SUFFICES ASSUME NEW q \in Requests, stage'[q] \in Loaded, ~mine[q].active,
                        users'[who[q]].active
                 PROVE  Activated(who[q])'
      BY <1>1 DEF ActiveBehind, Activated
    <2>1. q # r /\ stage[q] \in Loaded /\ who[q] \in Ids
      BY <1>t, <1>1 DEF TypeOK, Loaded
    <2>2. CASE who[q] # i
      BY <2>1, <2>2, <1>t, <1>1, <1>5 DEF Inv, ActiveBehind, TypeOK
    <2>3. CASE who[q] = i
      <3>1. users'[i] = row
        BY <1>t, <1>0, <1>1 DEF TypeOK
      <3>2. users[i].active => Activated(i)
        BY <2>1, <2>3 DEF Inv, ActiveBehind
      <3> QED
        BY <2>3, <3>1, <3>2, <1>0, <1>1, <1>5, <1>6
    <2> QED
      BY <2>2, <2>3
  <1>9. \A j \in Ids : /\ users'[j] = Nothing <=> users[j] = Nothing
                       /\ users[j] # Nothing => /\ users'[j].email = users[j].email
                                                /\ users'[j].phone = users[j].phone
    BY <1>t, <1>0, <1>1, <1>2 DEF TypeOK
  <1>10. SignupSound'
    BY <1>t, <1>1, <1>9 DEF Inv, TypeOK, SignupSound, Once, EmailTaken, PhoneTaken, HasEmail,
       HasPhone, Loaded
  <1>11. UniqueAccounts'
    BY <1>9 DEF Inv, UniqueAccounts, Distinct
  <1>12. LockedUnlessActivated'
    <2> SUFFICES ASSUME NEW j \in Ids, users'[j] # Nothing
                 PROVE  Locked(users'[j]) \/ Activated(j)'
      BY DEF LockedUnlessActivated, Activated
    <2>1. CASE j # i
      BY <2>1, <1>t, <1>1, <1>5 DEF Inv, TypeOK, LockedUnlessActivated, Activated
    <2>2. CASE j = i
      <3>1. users'[i] = row
        BY <1>t, <1>0, <1>1 DEF TypeOK
      <3>2. Locked(users[i]) \/ Activated(i)
        BY <1>0 DEF Inv, LockedUnlessActivated, Activated
      <3>3. ASSUME row.active, row.failed >= Limit PROVE Activated(i)'
        <4>1. CASE new.failed = mine[r].failed
          BY <4>1, <3>2, <3>3, <1>0, <1>2, <1>5, <1>6, <1>b DEF Locked
        <4>2. CASE new.failed # mine[r].failed
          <5>1. ~new.active /\ ~mine[r].active /\ users[i].active
            BY <4>2, <3>3, <1>b, <1>2
          <5> QED
            BY <5>1, <1>w, <1>0, <1>5
        <4> QED
          BY <4>1, <4>2
      <3>4. row.active \in BOOLEAN /\ row.failed \in Nat
        BY <1>2 DEF Row
      <3> QED
        BY <2>2, <3>1, <3>3, <3>4, ConstantsAssumption DEF Locked
    <2> QED
      BY <2>1, <2>2
  <1> QED
    BY <1>4, <1>7, <1>8, <1>10, <1>11, <1>12 DEF Inv

\* Signup: the checks may be out of date by the insert; the indexes are not.
LEMMA SignupStep ==
    ASSUME Inv, NEW r \in Requests, Signup(r)
    PROVE  Inv'
  <1> USE ConstantsAssumption DEF session
  <1>t. TypeOK
    BY DEF Inv
  <1>1. ASSUME CheckEmail(r) PROVE Inv'
    <2>1. PICK f \in [email : Emails, phone : Phones], code \in {"409", "phone"} :
            /\ form' = [form EXCEPT ![r] = f]
            /\ stage' = [stage EXCEPT ![r] = code]
            /\ code = "409" => EmailTaken(f.email)
      BY <1>1 DEF CheckEmail, Reply
    <2>2. stage[r] = "idle" /\ UNCHANGED <<users, cookies, audit, paid, who, mine>>
      BY <1>1 DEF CheckEmail
    <2>3. TypeOK'
      <3>1. /\ stage' \in [Requests -> {"idle"} \cup SigningUp \cup Loaded \cup Replied]
            /\ form' \in [Requests -> [email : Emails, phone : Phones] \cup {Nothing}]
        BY <1>t, <2>1 DEF TypeOK, SigningUp, Replied
      <3>2. form'[r] = f /\ f # Nothing
        BY <1>t, <2>1 DEF TypeOK
      <3> QED
        BY <1>t, <2>1, <2>2, <3>1, <3>2 DEF TypeOK, Loaded
    <2>4. Present' /\ ActiveBehind' /\ AuditAnswered'
      BY <1>t, <2>1, <2>2
      DEF Inv, TypeOK, Present, ActiveBehind, AuditAnswered, Activated, Loaded, Replied
    <2>5. Once'
      BY <1>t, <2>1, <2>2 DEF Inv, TypeOK, Once, Loaded, SigningUp
    <2>6. SignupSound'
      <3> SUFFICES ASSUME NEW q \in Requests, form'[q] # Nothing
                   PROVE  /\ stage'[q] \in {"phone", "insert", "409"} => who[q] = Nothing
                          /\ stage'[q] = "409" => EmailTaken(form'[q].email) \/ PhoneTaken(form'[q].phone)
                          /\ stage'[q] \in {"refresh", "201"} =>
                                /\ who[q] \in Ids
                                /\ HasEmail(who[q], form'[q].email) /\ HasPhone(who[q], form'[q].phone)
        BY <2>2 DEF SignupSound, EmailTaken, PhoneTaken, HasEmail, HasPhone
      <3>1. CASE q = r
        BY <3>1, <1>t, <2>1, <2>2 DEF Inv, TypeOK, Once
      <3>2. CASE q # r
        BY <3>2, <1>t, <2>1, <2>2 DEF Inv, TypeOK, SignupSound
      <3> QED
        BY <3>1, <3>2
    <2>7. UniqueAccounts' /\ LockedUnlessActivated'
      BY <2>2 DEF Inv, UniqueAccounts, Distinct, LockedUnlessActivated
    <2> QED
      BY <2>3, <2>4, <2>5, <2>6, <2>7 DEF Inv
  <1>2. ASSUME CheckPhone(r) PROVE Inv'
    <2>1. /\ stage' = [stage EXCEPT ![r] = IF PhoneTaken(form[r].phone) THEN "409" ELSE "insert"]
          /\ stage[r] = "phone" /\ UNCHANGED <<users, cookies, audit, paid, form, who, mine>>
      BY <1>2 DEF CheckPhone, Reply
    <2>2. TypeOK'
      BY <1>t, <2>1 DEF TypeOK, Loaded, SigningUp, Replied
    <2>3. Present' /\ ActiveBehind' /\ AuditAnswered'
      BY <1>t, <2>1
      DEF Inv, TypeOK, Present, ActiveBehind, AuditAnswered, Activated, Loaded, Replied
    <2>4. SignupSound' /\ Once'
      BY <1>t, <2>1
      DEF Inv, TypeOK, SignupSound, Once, EmailTaken, PhoneTaken, HasEmail, HasPhone, Loaded,
          SigningUp
    <2>5. UniqueAccounts' /\ LockedUnlessActivated'
      BY <2>1 DEF Inv, UniqueAccounts, Distinct, LockedUnlessActivated
    <2> QED
      BY <2>2, <2>3, <2>4, <2>5 DEF Inv
  <1>3. ASSUME Insert(r), ~Clash(form[r]) PROVE Inv'
    <2>1. PICK i \in Ids :
            /\ users[i] = Nothing
            /\ users' = [users EXCEPT ![i] =
                  [email |-> form[r].email, phone |-> form[r].phone,
                   active |-> TRUE, verified |-> FALSE, failed |-> 0]]
            /\ who' = [who EXCEPT ![r] = i]
      BY <1>3 DEF Insert
    <2>2. /\ stage[r] = "insert" /\ stage' = [stage EXCEPT ![r] = "refresh"]
          /\ UNCHANGED <<cookies, audit, paid, form, mine>>
      BY <1>3 DEF Insert, Reply
    <2>3. PICK row \in Row : /\ row = [email |-> form[r].email, phone |-> form[r].phone,
                                       active |-> TRUE, verified |-> FALSE, failed |-> 0]
      BY <1>t, <2>2 DEF TypeOK, Row
    <2>4. /\ users' = [users EXCEPT ![i] = row] /\ row \in Row /\ Locked(row)
          /\ row.email = form[r].email /\ row.phone = form[r].phone
          /\ users[i] = Nothing /\ who' = [who EXCEPT ![r] = i]
      BY <2>1, <2>3 DEF Locked
    <2>5. TypeOK'
      <3>1. users' \in [Ids -> Row \cup {Nothing}] /\ who' \in [Requests -> Ids \cup {Nothing}]
        BY <1>t, <2>4 DEF TypeOK
      <3>2. stage' \in [Requests -> {"idle"} \cup SigningUp \cup Loaded \cup Replied]
        BY <1>t, <2>2 DEF TypeOK, SigningUp
      <3>3. /\ \A q \in Requests : stage'[q] \in {"phone", "insert"} => form[q] # Nothing
            /\ \A q \in Requests : stage'[q] \in Loaded => who'[q] # Nothing /\ mine[q] # Nothing
        BY <1>t, <2>1, <2>2 DEF TypeOK, Loaded
      <3> QED
        BY <1>t, <2>2, <3>1, <3>2, <3>3 DEF TypeOK
    <2>6. Present' /\ ActiveBehind' /\ AuditAnswered'
      BY <1>t, <2>1, <2>2, <2>4
      DEF Inv, TypeOK, Present, ActiveBehind, AuditAnswered, Activated, Loaded, Replied
    <2>7. \A j \in Ids : users[j] # Nothing => users'[j] = users[j]
      BY <1>t, <2>1, <2>4 DEF TypeOK
    <2>8. SignupSound'
      <3>2. HasEmail(i, form[r].email)' /\ HasPhone(i, form[r].phone)'
        BY <1>t, <2>1, <2>2, <2>3, <2>4 DEF TypeOK, HasEmail, HasPhone
      <3>3. ASSUME NEW q \in Requests, q # r, form[q] # Nothing
            PROVE  /\ stage'[q] = stage[q] /\ who'[q] = who[q]
                   /\ stage[q] \in {"phone", "insert", "409"} => who[q] = Nothing
                   /\ stage[q] = "409" => EmailTaken(form[q].email)' \/ PhoneTaken(form[q].phone)'
                   /\ stage[q] \in {"refresh", "201"} =>
                         /\ who[q] \in Ids
                         /\ HasEmail(who[q], form[q].email)' /\ HasPhone(who[q], form[q].phone)'
        <4>1. stage'[q] = stage[q] /\ who'[q] = who[q]
          BY <3>3, <1>t, <2>1, <2>2 DEF TypeOK
        <4>2. stage[q] = "409" => EmailTaken(form[q].email)' \/ PhoneTaken(form[q].phone)'
          <5>1. ASSUME stage[q] = "409"
                PROVE  EmailTaken(form[q].email) \/ PhoneTaken(form[q].phone)
            BY <5>1, <3>3 DEF Inv, SignupSound
          <5>2. form'[q] = form[q]
            BY <2>2
          <5>3. EmailTaken(form[q].email) => EmailTaken(form[q].email)'
            BY <2>7, <5>2 DEF EmailTaken, HasEmail
          <5>4. PhoneTaken(form[q].phone) => PhoneTaken(form[q].phone)'
            BY <2>7, <5>2 DEF PhoneTaken, HasPhone
          <5> QED
            BY <5>1, <5>3, <5>4
        <4>3. ASSUME stage[q] \in {"refresh", "201"}
              PROVE  /\ who[q] \in Ids
                     /\ HasEmail(who[q], form[q].email)' /\ HasPhone(who[q], form[q].phone)'
          <5>1. who[q] \in Ids /\ HasEmail(who[q], form[q].email) /\ HasPhone(who[q], form[q].phone)
            BY <4>3, <3>3 DEF Inv, SignupSound
          <5> QED
            BY <5>1, <4>1, <2>7, <2>2 DEF HasEmail, HasPhone
        <4> QED
          BY <4>1, <4>2, <4>3, <3>3 DEF Inv, SignupSound
      <3>4. stage'[r] = "refresh" /\ who'[r] = i
        BY <1>t, <2>1, <2>2 DEF TypeOK
      <3> SUFFICES ASSUME NEW q \in Requests, form[q] # Nothing
                   PROVE  /\ stage'[q] \in {"phone", "insert", "409"} => who'[q] = Nothing
                          /\ stage'[q] = "409" => EmailTaken(form[q].email)' \/ PhoneTaken(form[q].phone)'
                          /\ stage'[q] \in {"refresh", "201"} =>
                                /\ who'[q] \in Ids
                                /\ HasEmail(who[q], form[q].email)' /\ HasPhone(who[q], form[q].phone)'
        BY <2>2 DEF SignupSound
      <3> QED
        BY <3>2, <3>3, <3>4, <2>1, <2>2
    <2>8o. Once'
      BY <1>t, <2>1, <2>2 DEF Inv, TypeOK, Once, Loaded, SigningUp
    <2>9. UniqueAccounts'
      <3> SUFFICES ASSUME NEW j \in Ids, NEW k \in Ids, j # k,
                          users'[j] # Nothing, users'[k] # Nothing
                   PROVE  users'[j].email # users'[k].email /\ users'[j].phone # users'[k].phone
        BY DEF UniqueAccounts, Distinct
      <3>1. \A m \in Ids : users[m] # Nothing =>
              users[m].email # form[r].email /\ users[m].phone # form[r].phone
        BY <1>3 DEF Clash, EmailTaken, PhoneTaken, HasEmail, HasPhone
      <3>2. \A m \in Ids : m # i => users'[m] = users[m]
        BY <1>t, <2>4 DEF TypeOK
      <3>3. users'[i] = row
        BY <1>t, <2>4 DEF TypeOK
      <3>4. CASE j = i
        BY <3>1, <3>2, <3>3, <3>4, <2>4
      <3>5. CASE k = i
        BY <3>1, <3>2, <3>3, <3>5, <2>4
      <3>6. CASE j # i /\ k # i
        BY <3>2, <3>6 DEF Inv, UniqueAccounts, Distinct
      <3> QED
        BY <3>4, <3>5, <3>6
    <2>10. LockedUnlessActivated'
      BY <1>t, <2>2, <2>4 DEF Inv, TypeOK, LockedUnlessActivated
    <2> QED
      BY <2>5, <2>6, <2>8, <2>8o, <2>9, <2>10 DEF Inv
  <1>4. ASSUME (Insert(r) /\ Clash(form[r])) \/ Refresh(r) \/ SignupFails(r) PROVE Inv'
    <2>1. PICK code \in {"409", "201", "500"} :
            /\ Refuse(r, code)
            /\ stage[r] \in SigningUp
            /\ code = "201" => stage[r] = "refresh"
            /\ code = "409" => stage[r] = "insert" /\ Clash(form[r])
      BY <1>4 DEF Insert, Refresh, SignupFails, SigningUp
    <2> QED
      BY <2>1, RefuseStep DEF Replied
  <1> QED
    BY <1>1, <1>2, <1>3, <1>4 DEF Signup, Insert

\* A request that begins either is refused or takes a copy.
LEMMA BeginStep ==
    ASSUME Inv, NEW r \in Requests, Begin(r)
    PROVE  Inv'
  <1>1. /\ stage[r] = "idle"
        /\ \/ \E code \in {"401", "403", "404"} : Refuse(r, code)
           \/ \E i \in Ids, op \in Loaded : users[i] # Nothing /\ Load(r, i, op)
    BY DEF Begin, Login, Authorize, Identify, Find, Loaded, Inv, TypeOK
  <1>2. ASSUME NEW code \in {"401", "403", "404"}, Refuse(r, code) PROVE Inv'
    BY <1>1, <1>2, RefuseStep DEF Replied
  <1> QED
    BY <1>1, <1>2, LoadStep

\* What each operation assigns leaves a row.
LEMMA RowUpdate ==
    ASSUME NEW row \in Row, NEW n \in Nat, NEW flag \in BOOLEAN
    PROVE  /\ [row EXCEPT !.verified = TRUE] \in Row
           /\ [row EXCEPT !.active = flag] \in Row
           /\ [row EXCEPT !.failed = n, !.active = flag] \in Row
  BY DEF Row

Event(active) == IF active THEN "ACCOUNT_ACTIVATED" ELSE "ACCOUNT_DEACTIVATED"

\* What r may commit over its copy: a change of active is logged, and a counter
\* it changes to the limit locks.
Commits(r, new, events) ==
    /\ stage[r] \in Loaded
    /\ Write(r, new, events)
    /\ new.active # mine[r].active => Event(new.active) \in events
    /\ new.failed # mine[r].failed /\ new.failed >= Limit => ~new.active

\* Every operation that writes a row commits in that way.
LEMMA Writes ==
    ASSUME TypeOK, NEW r \in Requests,
           Enroll(r) \/ Fail(r) \/ Reset(r) \/ Activate(r) \/ Deactivate(r)
    PROVE  \E new \in Row, events \in SUBSET Events : Commits(r, new, events)
  <1> USE ConstantsAssumption DEF Commits
  <1>m. ASSUME stage[r] \in Loaded
        PROVE  /\ mine[r] \in Row /\ mine[r].active \in BOOLEAN
               /\ mine[r].verified \in BOOLEAN /\ mine[r].failed \in Nat
    BY <1>m DEF TypeOK, Row
  <1>1. CASE Enroll(r)
    <2> DEFINE new == [mine[r] EXCEPT !.verified = TRUE]
    <2>1. stage[r] \in Loaded /\ Write(r, new, {})
      BY <1>1 DEF Enroll, Loaded
    <2>2. new \in Row
      BY <2>1, <1>m, RowUpdate
    <2>3. new.active = mine[r].active /\ new.failed = mine[r].failed
      BY <2>1, <1>m DEF Row
    <2> HIDE DEF new
    <2>4. Commits(r, new, {})
      BY <2>1, <2>3
    <2> QED
      BY <2>2, <2>4
  <1>2. CASE Fail(r)
    <2> DEFINE n == mine[r].failed + 1
               locks == Reached(n) /\ mine[r].active
               flag == mine[r].active /\ ~locks
               new == [mine[r] EXCEPT !.failed = n, !.active = flag]
               events == {"FAILED_AUTHENTICATION"} \cup
                         IF locks THEN {"ACCOUNT_DEACTIVATED"} ELSE {}
    <2>1. stage[r] \in Loaded /\ Write(r, new, events)
      BY <1>2 DEF Fail, Loaded
    <2>2. n \in Nat /\ flag \in BOOLEAN
      BY <1>m, <2>1
    <2>3. new \in Row
      BY <1>m, <2>1, <2>2, RowUpdate
    <2>4. new.failed = n /\ new.active = flag
      BY <2>3, <1>m, <2>1, <2>2 DEF Row
    <2>5. events \in SUBSET Events
      BY DEF Events
    <2>6. flag # mine[r].active => ~flag /\ locks
      BY <1>m, <2>1, <2>2
    <2>7. new.active # mine[r].active => Event(new.active) \in events
      BY <2>4, <2>6 DEF Event
    <2>8. new.failed >= Limit => ~new.active
      BY <2>4 DEF Reached
    <2> QED
      BY <2>1, <2>3, <2>5, <2>7, <2>8
  <1>3. CASE Reset(r)
    <2> DEFINE new == [mine[r] EXCEPT !.failed = 0]
    <2>1. stage[r] \in Loaded /\ Write(r, new, {})
      BY <1>3 DEF Reset, Loaded
    <2>2. new \in Row
      BY <2>1, <1>m DEF Row
    <2>3. new.active = mine[r].active /\ new.failed = 0
      BY <2>1, <1>m DEF Row
    <2> HIDE DEF new
    <2>4. Commits(r, new, {})
      BY <2>1, <2>3
    <2> QED
      BY <2>2, <2>4
  <1>4. CASE Activate(r)
    <2> DEFINE new == [mine[r] EXCEPT !.active = TRUE]
               events == IF mine[r].active THEN {} ELSE {"ACCOUNT_ACTIVATED"}
    <2>1. stage[r] \in Loaded /\ Write(r, new, events)
      BY <1>4 DEF Activate, Loaded
    <2>2. new \in Row
      BY <2>1, <1>m, RowUpdate
    <2>3. new.active = TRUE /\ new.failed = mine[r].failed
      BY <2>1, <1>m DEF Row
    <2>4. events \in SUBSET Events
      BY DEF Events
    <2>5. new.active # mine[r].active => Event(new.active) \in events
      BY <2>1, <2>3, <1>m DEF Event
    <2> QED
      BY <2>1, <2>2, <2>3, <2>4, <2>5
  <1>5. CASE Deactivate(r)
    <2> DEFINE new == [mine[r] EXCEPT !.active = FALSE]
               events == IF mine[r].active THEN {"ACCOUNT_DEACTIVATED"} ELSE {}
    <2>1. stage[r] \in Loaded /\ Write(r, new, events)
      BY <1>5 DEF Deactivate, Loaded
    <2>2. new \in Row
      BY <2>1, <1>m, RowUpdate
    <2>3. new.active = FALSE /\ new.failed = mine[r].failed
      BY <2>1, <1>m DEF Row
    <2>4. events \in SUBSET Events
      BY DEF Events
    <2>5. new.active # mine[r].active => Event(new.active) \in events
      BY <2>1, <2>3, <1>m DEF Event
    <2> QED
      BY <2>1, <2>2, <2>3, <2>4, <2>5
  <1> QED
    BY <1>1, <1>2, <1>3, <1>4, <1>5

\* How a request ends preserves the invariant.
LEMMA EndStep ==
    ASSUME Inv, NEW r \in Requests, End(r)
    PROVE  Inv'
  <1>t. TypeOK
    BY DEF Inv
  <1>1. ASSUME EndLogin(r) \/ Settle(r) PROVE Inv'
    <2>0. who[r] \in Ids \/ stage[r] # "login"
      BY <1>t DEF TypeOK, Loaded
    <2>1. /\ stage[r] \in {"login", "pay"} /\ stage' = [stage EXCEPT ![r] = "200"]
          /\ cookies' \subseteq Ids /\ paid' \subseteq Requests
          /\ UNCHANGED <<users, audit, form, who, mine>>
      BY <1>1, <1>t, <2>0 DEF EndLogin, Settle, Reply, session, TypeOK
    <2>2. TypeOK'
      BY <1>t, <2>1 DEF TypeOK, Loaded, SigningUp, Replied
    <2>3. Present' /\ ActiveBehind' /\ AuditAnswered' /\ Once'
      BY <1>t, <2>1 DEF Inv, TypeOK, Present, ActiveBehind, Activated, AuditAnswered, Once,
         Loaded, SigningUp, Replied
    <2>4. SignupSound'
      BY <1>t, <2>1 DEF Inv, TypeOK, SignupSound, EmailTaken, PhoneTaken, HasEmail, HasPhone
    <2>5. UniqueAccounts' /\ LockedUnlessActivated'
      BY <2>1 DEF Inv, UniqueAccounts, Distinct, LockedUnlessActivated
    <2> QED
      BY <2>2, <2>3, <2>4, <2>5 DEF Inv
  <1>2. ASSUME NEW new \in Row, NEW events \in SUBSET Events, Commits(r, new, events) PROVE Inv'
    <2>1. mine[r] \in Row /\ mine[r].active \in BOOLEAN /\ new.active \in BOOLEAN
      BY <1>2, <1>t, ConstantsAssumption DEF Commits, TypeOK, Row
    <2>2. new.active /\ ~mine[r].active => "ACCOUNT_ACTIVATED" \in events
      BY <1>2, <2>1 DEF Commits, Event
    <2> QED
      BY <1>2, <2>2, WriteStep DEF Commits
  <1>3. ASSUME Raise(r) PROVE Inv'
    BY <1>3, RefuseStep DEF Raise, Replied
  <1> QED
    BY <1>t, <1>1, <1>2, <1>3, Writes DEF End

\* Every step preserves the invariant.
LEMMA NextInv == Inv /\ [Next]_vars => Inv'
  <1> SUFFICES ASSUME Inv, [Next]_vars PROVE Inv'
    OBVIOUS
  <1>1. ASSUME NEW r \in Requests, Signup(r) \/ Begin(r) \/ End(r) PROVE Inv'
    BY <1>1, SignupStep, BeginStep, EndStep
  <1>2. ASSUME Logout \/ UNCHANGED vars PROVE Inv'
    <2>1. cookies' \subseteq Ids /\ UNCHANGED <<users, audit, paid, stage, form, who, mine>>
      BY <1>2 DEF Logout, vars, session, Inv, TypeOK
    <2>2. TypeOK'
      BY <2>1 DEF Inv, TypeOK
    <2>3. Present' /\ ActiveBehind' /\ AuditAnswered' /\ Once'
      BY <2>1 DEF Inv, Present, ActiveBehind, Activated, AuditAnswered, Once
    <2>4. SignupSound'
      BY <2>1 DEF Inv, SignupSound, EmailTaken, PhoneTaken, HasEmail, HasPhone
    <2>5. UniqueAccounts' /\ LockedUnlessActivated'
      BY <2>1 DEF Inv, UniqueAccounts, Distinct, LockedUnlessActivated
    <2> QED
      BY <2>2, <2>3, <2>4, <2>5 DEF Inv
  <1> QED
    BY <1>1, <1>2 DEF Next

\* A change of active is one commit's, with its event, which nobody logged before.
LEMMA FlipStep ==
    ASSUME Inv, Next, NEW i \in Ids, users[i] # Nothing, users'[i].active # users[i].active
    PROVE  \E a \in audit' \ audit : a.user = i /\ a.event = Event(users'[i].active)
  <1> USE ConstantsAssumption
  <1>t. TypeOK
    BY DEF Inv
  <1>1. PICK r \in Requests : Signup(r) \/ Begin(r) \/ End(r)
    BY DEF Next, Logout
  <1>2. ~Signup(r) /\ ~Begin(r) /\ ~EndLogin(r) /\ ~Settle(r) /\ ~Raise(r)
    <2>1. users'[i] # users[i]
      OBVIOUS
    <2>2. ASSUME Insert(r) PROVE users'[i] = users[i]
      BY <2>2, <1>t DEF Insert, Refuse, TypeOK
    <2>3. ASSUME Signup(r), ~Insert(r) PROVE users' = users
      BY <2>3 DEF Signup, CheckEmail, CheckPhone, Refresh, SignupFails, Refuse
    <2>4. ASSUME Begin(r) PROVE users' = users
      BY <2>4 DEF Begin, Login, Authorize, Identify, Find, Load, Refuse
    <2>5. ASSUME EndLogin(r) \/ Settle(r) \/ Raise(r) PROVE users' = users
      BY <2>5 DEF EndLogin, Settle, Raise, Refuse
    <2> QED
      BY <2>1, <2>2, <2>3, <2>4, <2>5
  <1>3. PICK new \in Row, events \in SUBSET Events : Commits(r, new, events)
    BY <1>1, <1>2, <1>t, Writes DEF End
  <1>4. /\ users' = [users EXCEPT ![who[r]] = Flushed(users[who[r]], mine[r], new)]
        /\ audit' = audit \cup {[by |-> r, user |-> who[r], event |-> e] : e \in events}
    BY <1>3 DEF Commits, Write
  <1>5. who[r] = i /\ users'[i] = Flushed(users[i], mine[r], new)
    BY <1>4, <1>t DEF TypeOK
  <1>6. new.active # mine[r].active /\ users'[i].active = new.active
    <2>1. users[i] \in Row
      BY <1>t DEF TypeOK
    <2> QED
      BY <1>5, <2>1 DEF Flushed, Row
  <1>7. Event(new.active) \in events
    BY <1>3, <1>6 DEF Commits
  <1> DEFINE a == [by |-> r, user |-> i, event |-> Event(new.active)]
  <1>8. a \in audit'
    BY <1>4, <1>5, <1>7
  <1>9. a \notin audit
    BY <1>3 DEF Inv, AuditAnswered, Commits, Loaded, Replied
  <1> QED
    BY <1>6, <1>8, <1>9

-----------------------------------------------------------------------------

\* The invariant holds in every state of every behaviour.
THEOREM Invariance == Spec => []Inv
  BY InitInv, NextInv, PTL DEF Spec

\* The state has its types, and whoever works on a row has loaded one.
THEOREM TypeCorrect == Spec => []TypeOK
  <1>1. Inv => TypeOK
    BY DEF Inv
  <1> QED
    BY <1>1, Invariance, PTL

\* No two accounts share an email or a phone number, whatever the signups that
\* overlap have found free (signup, auth.py, and the UNIQUE columns of users).
THEOREM Unique == Spec => []UniqueAccounts
  <1>1. Inv => UniqueAccounts
    BY DEF Inv
  <1> QED
    BY <1>1, Invariance, PTL

\* A 409 means that another account holds the email or phone number, and a 201
\* that the signup's own account does.
THEOREM SignupsTruthful == Spec => []SignupTruthful
  <1>1. Inv => SignupTruthful
    BY DEF Inv, SignupSound, SignupTruthful
  <1> QED
    BY <1>1, Invariance, PTL

\* The lockout of increment_failed_attempts holds whatever copies the requests
\* that overlap it write from, until an activation the log has.
THEOREM LockoutHolds == Spec => []LockedUnlessActivated
  <1>1. Inv => LockedUnlessActivated
    BY DEF Inv
  <1> QED
    BY <1>1, Invariance, PTL

\* The audit log has every change of active, and no write from a stale copy
\* reverts one (the partial UPDATE of a flush, activate and deactivate).
THEOREM FlipsLogged == Spec => FlipsAudited
  <1>1. Inv /\ [Next]_vars =>
          [\A i \in Ids : users[i] # Nothing /\ users'[i].active # users[i].active =>
             \E a \in audit' \ audit :
               /\ a.user = i
               /\ a.event = IF users'[i].active THEN "ACCOUNT_ACTIVATED"
                                                ELSE "ACCOUNT_DEACTIVATED"]_vars
    BY FlipStep DEF Event
  <1> QED
    BY <1>1, Invariance, PTL DEF Spec, FlipsAudited
=============================================================================
