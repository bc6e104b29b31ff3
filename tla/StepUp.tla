------------------------------- MODULE StepUp -------------------------------
(***************************************************************************)
(* The step-up core of VocalPay: the tail of POST /transaction/initiate,   *)
(* which freezes a MEDIUM or HIGH risk payment in the pending_transactions *)
(* table (and mails the OTP) or settles a LOW risk one at once, and the    *)
(* whole of POST /transaction/verify, which turns a frozen payment into a  *)
(* row of the immutable transactions ledger.                               *)
(*                                                                         *)
(* Every handler runs on its own AsyncSession.  A handler is cut into      *)
(* atomic actions at the awaits where another handler's commit becomes     *)
(* visible: SQLite has one writer, so the flush and commit that end a      *)
(* handler are one step, while a SELECT and the write that later uses what *)
(* it returned are two.  The session's identity map returns the object a   *)
(* first SELECT loaded, unrefreshed, from a later SELECT of the same row:  *)
(* seen[r] is that object.                                                 *)
(***************************************************************************)
EXTENDS Integers, FiniteSets

CONSTANTS
    MaxTxns,      \* how many payments the model initiates
    MaxAttempts,  \* max_verification_attempts (5 in crud.freeze_transaction)
    TTL,          \* the five-minute freeze window, in ticks
    MaxTime,      \* bound on the clock
    Requests,     \* concurrent /verify handlers
    Payloads,     \* (user_id, amount) pairs a payment may carry
    Otps,         \* digests of one-time codes
    Phrases,      \* randomised challenge phrases
    Answers,      \* what a client may submit to /verify
    Nothing       \* an absent row, an omitted form field, a NULL

Tids == 1..MaxTxns

PendingStatus == {"PENDING_OTP", "PENDING_CHALLENGE"}

\* A row of pending_transactions.  is_active is always TRUE (nothing calls
\* invalidate_transaction) and risk_level follows status.
Row == [payload : Payloads, status : PendingStatus, secret : Otps \cup Phrases,
        expires : Nat, attempts : Nat]

\* A form posted to /verify: the digest of otp_code (Nothing when omitted),
\* whether audio_file and photo_file are both present, the phrases the
\* transcript matches by containment ({} for an empty transcript), and
\* whether the frame's liveness score passes the threshold.
Answer == [otp : Otps \cup {Nothing}, media : BOOLEAN,
           said : SUBSET Phrases, live : BOOLEAN]

ASSUME ConstantsAssumption ==
    /\ MaxTxns \in Nat /\ MaxTime \in Nat
    /\ MaxAttempts \in Nat \ {0}
    /\ TTL \in Nat \ {0}
    /\ Answers \subseteq Answer
    /\ Otps \cap Phrases = {}
    /\ Nothing \notin Row
    /\ Nothing \notin Otps \cup Phrases
    /\ Nothing \notin Tids
    /\ Nothing \notin Answer
    /\ Nothing \notin Requests
    /\ Nothing \notin Payloads

VARIABLES
    now,        \* utc_now_naive()
    pending,    \* [Tids -> Row or Nothing]: the pending_transactions table
    ledger,     \* the transactions table: a set of rows
    flow,       \* progress of the /initiate handler of each payment
    pc,         \* progress of each /verify handler
    target,     \* its transaction_id
    answer,     \* its form
    seen,       \* the PendingTransaction object in its session
    checked,    \* history: the time of its expiry check
    issued,     \* history: the row as it was frozen
    failures,   \* history: failed verifications answered, per payment
    exhausted   \* history: payments deleted for too many failures

vars == <<now, pending, ledger, flow, pc, target, answer, seen, checked,
          issued, failures, exhausted>>

handler == <<pc, target, answer, seen, checked>>
history == <<issued, failures, exhausted>>

\* How an /initiate handler may stand.  The answered ones are named by status.
FlowState == {"unborn", "emailing", "200", "403", "500", "503", "lost"}

\* Where a /verify handler awaits, and how it may have ended.
Awaiting == {"found", "active"}
Ended    == {"idle", "200", "401", "inactive", "404", "422", "500", "lost"}

\* A row of transactions; by, answer and checkedAt say which verification
\* wrote it (Nothing for a LOW risk payment), settledAt when.
Entry == [tid : Tids, payload : Payloads, by : Requests \cup {Nothing},
          answer : Answer \cup {Nothing}, checkedAt : Nat, settledAt : Nat]

TypeOK ==
    /\ now \in Nat
    /\ pending \in [Tids -> Row \cup {Nothing}]
    /\ ledger \in SUBSET Entry
    /\ flow \in [Tids -> FlowState]
    /\ pc \in [Requests -> Awaiting \cup Ended]
    /\ target \in [Requests -> Tids \cup {Nothing}]
    /\ answer \in [Requests -> Answers \cup {Nothing}]
    /\ seen \in [Requests -> Row \cup {Nothing}]
    /\ checked \in [Requests -> Nat]
    /\ issued \in [Tids -> Row \cup {Nothing}]
    /\ failures \in [Tids -> Nat]
    /\ exhausted \in SUBSET Tids

Init ==
    /\ now \in 0..MaxTime
    /\ pending = [t \in Tids |-> Nothing]
    /\ ledger = {}
    /\ flow = [t \in Tids |-> "unborn"]
    /\ pc = [r \in Requests |-> "idle"]
    /\ target = [r \in Requests |-> Nothing]
    /\ answer = [r \in Requests |-> Nothing]
    /\ seen = [r \in Requests |-> Nothing]
    /\ checked = [r \in Requests |-> 0]
    /\ issued = [t \in Tids |-> Nothing]
    /\ failures = [t \in Tids |-> 0]
    /\ exhausted = {}

-----------------------------------------------------------------------------
(* The tail of POST /initiate: user, amount and risk tier are decided.     *)

\* Faulty variant: an id that is already taken.
FreshReused(t) == flow[t] \in {"unborn", "403"}

\* Rows get ascending primary keys, so payments are numbered as they are written.
Fresh(t) == flow[t] = "unborn" /\ \A u \in Tids : u < t => flow[u] # "unborn"

\* Faulty variant: the window is subtracted.
FreezeBackdated(t, status, secret) ==
    \E p \in Payloads :
        LET row == [payload |-> p, status |-> status, secret |-> secret,
                    expires |-> now - TTL, attempts |-> 0]
        IN  /\ pending' = [pending EXCEPT ![t] = row]
            /\ issued' = [issued EXCEPT ![t] = row]

\* freeze_transaction and the commit that follows it.
Freeze(t, status, secret) ==
    \E p \in Payloads :
        LET row == [payload |-> p, status |-> status, secret |-> secret,
                    expires |-> now + TTL, attempts |-> 0]
        IN  /\ pending' = [pending EXCEPT ![t] = row]
            /\ issued' = [issued EXCEPT ![t] = row]

\* HIGH risk: the challenge is frozen, committed and returned in the 403.
FreezeChallenge(t) ==
    /\ Fresh(t)
    /\ \E phrase \in Phrases : Freeze(t, "PENDING_CHALLENGE", phrase)
    /\ flow' = [flow EXCEPT ![t] = "403"]
    /\ UNCHANGED <<now, ledger, handler, failures, exhausted>>

\* MEDIUM risk: the digest of a random code is frozen and committed, then the
\* handler awaits the delivery of the code.
FreezeOtp(t) ==
    /\ Fresh(t)
    /\ \E otp \in Otps : Freeze(t, "PENDING_OTP", otp)
    /\ flow' = [flow EXCEPT ![t] = "emailing"]
    /\ UNCHANGED <<now, ledger, handler, failures, exhausted>>

EmailDelivered(t) ==
    /\ flow[t] = "emailing"
    /\ flow' = [flow EXCEPT ![t] = "403"]
    /\ UNCHANGED <<now, pending, ledger, handler, history>>

\* Faulty variant: the object is never marked for deletion.
KeepRow(t) == UNCHANGED pending

\* session.delete and commit.  Deleting a row that is already gone only warns.
DeleteRow(t) == pending' = [pending EXCEPT ![t] = Nothing]

\* EmailServiceError: the frozen row is deleted and committed before the 503.
EmailRefused(t) ==
    /\ flow[t] = "emailing"
    /\ DeleteRow(t)
    /\ flow' = [flow EXCEPT ![t] = "503"]
    /\ UNCHANGED <<now, ledger, handler, history>>

\* LOW risk: one ledger row, committed before the 200.
AutoApprove(t) ==
    /\ Fresh(t)
    /\ \E p \in Payloads :
        ledger' = ledger \cup
            {[tid |-> t, payload |-> p, by |-> Nothing, answer |-> Nothing,
              checkedAt |-> now, settledAt |-> now]}
    /\ flow' = [flow EXCEPT ![t] = "200"]
    /\ UNCHANGED <<now, pending, handler, history>>

\* Any other exception rolls the session back and answers 500.  Before the
\* freeze nothing was written; after it the row is already committed (the
\* delete that follows a refused mail may itself fail).
InitiateError(t) ==
    /\ Fresh(t) \/ flow[t] = "emailing"
    /\ flow' = [flow EXCEPT ![t] = "500"]
    /\ UNCHANGED <<now, pending, ledger, handler, history>>

-----------------------------------------------------------------------------
(* POST /verify                                                            *)

\* A client knows the ids its replies carried; an id nobody issued is one no
\* initiate has written yet.
Submittable(t) == flow[t] \in {"unborn", "200", "403"}

\* The handler replies; its session, with the objects it loaded, is closed.
Reply(r, code) ==
    /\ pc' = [pc EXCEPT ![r] = code]
    /\ answer' = [answer EXCEPT ![r] = Nothing]
    /\ seen' = [seen EXCEPT ![r] = Nothing]
    /\ checked' = [checked EXCEPT ![r] = 0]
    /\ target' = [target EXCEPT ![r] = Nothing]

\* The SELECT by transaction_id.
Lookup(r) ==
    /\ pc[r] \in Ended
    /\ \E t \in Tids, a \in Answers :
        /\ Submittable(t)
        /\ pending[t] # Nothing
        /\ target' = [target EXCEPT ![r] = t]
        /\ answer' = [answer EXCEPT ![r] = a]
        /\ seen' = [seen EXCEPT ![r] = pending[t]]
        /\ pc' = [pc EXCEPT ![r] = "found"]
    /\ UNCHANGED <<now, pending, ledger, flow, checked, history>>

\* It finds no row: 404.
LookupMissing(r) ==
    /\ pc[r] \in Ended
    /\ \E t \in Tids : Submittable(t) /\ pending[t] = Nothing
    /\ Reply(r, "404")
    /\ UNCHANGED <<now, pending, ledger, flow, history>>

\* The active rows with a secret.
Sharing(secret) ==
    {t \in Tids : pending[t] # Nothing /\ pending[t].secret = secret}

\* The row get_active_transaction selects: the first in primary-key order.
FirstSharing(secret, t) ==
    t \in Sharing(secret) /\ \A u \in Sharing(secret) : t <= u

\* Faulty variants: the window is not enforced, or closes a tick early.
ExpiredNever(row) == FALSE
ExpiredEarly(row) == row.expires <= now + 1

Expired(row) == row.expires <= now

\* Faulty variant: a result of None is not expected.
NoneActiveUnhandled(secret) == FALSE

NoneActive(secret) == Sharing(secret) = {}

\* get_active_transaction finds the request's own row, unexpired.  The session
\* keeps the attributes it loaded first.
CheckActive(r) ==
    /\ pc[r] = "found"
    /\ FirstSharing(seen[r].secret, target[r])
    /\ ~Expired(seen[r])
    /\ checked' = [checked EXCEPT ![r] = now]
    /\ pc' = [pc EXCEPT ![r] = "active"]
    /\ UNCHANGED <<now, pending, ledger, flow, target, answer, seen, history>>

\* It finds no row, an expired one (which it deletes, whoever's it is) or a row
\* of another payment: the deletion is committed and the reply is 401.
CheckInactive(r) ==
    /\ pc[r] = "found"
    /\ \/ NoneActive(seen[r].secret) /\ UNCHANGED pending
       \/ \E t \in Tids :
            /\ FirstSharing(seen[r].secret, t)
            /\ \/ Expired(pending[t]) /\ DeleteRow(t)
               \/ ~Expired(pending[t]) /\ t # target[r] /\ UNCHANGED pending
    /\ Reply(r, "inactive")
    /\ UNCHANGED <<now, ledger, flow, history>>

\* Faulty variant: either factor passes the challenge.
ProvesEither(a, row) ==
    \/ row.status = "PENDING_OTP" /\ a.otp = row.secret
    \/ row.status = "PENDING_CHALLENGE" /\ (row.secret \in a.said \/ a.live)

\* The compared proof: the OTP's digest, or phrase and liveness together.
Proves(a, row) ==
    \/ row.status = "PENDING_OTP" /\ a.otp = row.secret
    \/ row.status = "PENDING_CHALLENGE" /\ row.secret \in a.said /\ a.live

\* A HIGH risk form without both uploads is a 422 and no attempt.
Incomplete(a, row) == row.status = "PENDING_CHALLENGE" /\ ~a.media

RefuseIncomplete(r) ==
    /\ pc[r] = "active"
    /\ Incomplete(answer[r], seen[r])
    /\ Reply(r, "422")
    /\ UNCHANGED <<now, pending, ledger, flow, history>>

CountFailure(t) == failures' = [failures EXCEPT ![t] = @ + 1]

Spent(n) == n >= MaxAttempts

\* Faulty variant: the write does not notice that the row is gone.
RowGoneIgnored(t) == FALSE

RowGone(t) == pending[t] = Nothing

\* A wrong answer that leaves no attempt: the row is deleted.
RejectLast(r) ==
    LET t == target[r]
    IN  /\ pc[r] = "active"
        /\ ~Incomplete(answer[r], seen[r])
        /\ ~Proves(answer[r], seen[r])
        /\ Spent(seen[r].attempts + 1)
        /\ DeleteRow(t)
        /\ exhausted' = exhausted \cup {u \in {t} : pending[u] # Nothing}
        /\ CountFailure(t)
        /\ Reply(r, "401")
        /\ UNCHANGED <<now, ledger, flow, issued>>

\* A wrong answer that leaves some: the counter as it was loaded, plus one, is
\* written over the stored one (the other columns never change).  Updating a
\* row that is gone is a StaleDataError, hence a 500.
Reject(r) ==
    LET t == target[r]
        n == seen[r].attempts + 1
    IN  /\ pc[r] = "active"
        /\ ~Incomplete(answer[r], seen[r])
        /\ ~Proves(answer[r], seen[r])
        /\ ~Spent(n)
        /\ \/ /\ ~RowGone(t)
              /\ pending' = [pending EXCEPT ![t] = [seen[r] EXCEPT !.attempts = n]]
              /\ CountFailure(t)
              /\ Reply(r, "401")
           \/ /\ RowGone(t)
              /\ Reply(r, "500")
              /\ UNCHANGED <<pending, failures>>
        /\ UNCHANGED <<now, ledger, flow, issued, exhausted>>

\* Faulty variant: no UNIQUE index on transaction_id.
SettledUnindexed(t) == FALSE

\* transactions.transaction_id is UNIQUE.
Settled(t) == \E e \in ledger : e.tid = t

\* The right answer: the ledger row is inserted and the pending row deleted in
\* one commit.  A second insert of the id violates UNIQUE, hence a 500.
Accept(r) ==
    LET t == target[r]
    IN  /\ pc[r] = "active"
        /\ ~Incomplete(answer[r], seen[r])
        /\ Proves(answer[r], seen[r])
        /\ \/ /\ ~Settled(t)
              /\ ledger' = ledger \cup
                    {[tid |-> t, payload |-> seen[r].payload, by |-> r,
                      answer |-> answer[r], checkedAt |-> checked[r],
                      settledAt |-> now]}
              /\ DeleteRow(t)
              /\ Reply(r, "200")
           \/ /\ Settled(t)
              /\ Reply(r, "500")
              /\ UNCHANGED <<ledger, pending>>
        /\ UNCHANGED <<now, flow, history>>

\* Undecodable media, a model failure, a locked database: the session is rolled
\* back and the reply is a 500 (or the converter's own 4xx).
VerifyError(r) ==
    /\ pc[r] \in Awaiting
    /\ Reply(r, "500")
    /\ UNCHANGED <<now, pending, ledger, flow, history>>

-----------------------------------------------------------------------------
(* Time, and a crash of the single worker: the tables keep what was        *)
(* committed, every handler in flight is gone.                             *)

Tick ==
    /\ now < MaxTime
    /\ now' = now + 1
    /\ UNCHANGED <<pending, ledger, flow, handler, history>>

Crash ==
    /\ pc' = [r \in Requests |-> IF pc[r] \in Awaiting THEN "lost" ELSE pc[r]]
    /\ flow' = [t \in Tids |-> IF flow[t] = "emailing" THEN "lost" ELSE flow[t]]
    /\ answer' = [r \in Requests |-> Nothing]
    /\ seen' = [r \in Requests |-> Nothing]
    /\ checked' = [r \in Requests |-> 0]
    /\ target' = [r \in Requests |-> Nothing]
    /\ UNCHANGED <<now, pending, ledger, history>>

Initiate(t) ==
    \/ FreezeChallenge(t) \/ FreezeOtp(t) \/ AutoApprove(t)
    \/ EmailDelivered(t) \/ EmailRefused(t) \/ InitiateError(t)

\* The normal course of a verification, errors aside.
Proceed(r) ==
    \/ CheckActive(r) \/ CheckInactive(r) \/ RefuseIncomplete(r)
    \/ RejectLast(r) \/ Reject(r) \/ Accept(r)

Next ==
    \/ \E t \in Tids : Initiate(t)
    \/ \E r \in Requests : Lookup(r) \/ LookupMissing(r) \/ Proceed(r) \/ VerifyError(r)
    \/ Tick
    \/ Crash

Spec == Init /\ [][Next]_vars

-----------------------------------------------------------------------------
(* Safety                                                                  *)

\* However many verifications of one payment overlap, and whoever read the row
\* before it was deleted, at most one ledger row is written for it.
SettledOnce == \A d, e \in ledger : d.tid = e.tid => d = e

\* A settled payment is never also still frozen, not even across a crash: the
\* insert and the delete share one commit.
SettledNotFrozen == \A e \in ledger : pending[e.tid] = Nothing

\* A stepped-up ledger row carries the user and amount that were frozen under
\* its own id, and a proof of that id's own secret: an answer for one payment
\* never settles another, even when two share a secret.
SettledAsFrozen ==
    \A e \in ledger : e.by # Nothing =>
        /\ issued[e.tid] # Nothing
        /\ e.payload = issued[e.tid].payload
        /\ IF issued[e.tid].status = "PENDING_OTP"
           THEN e.answer.otp = issued[e.tid].secret
           ELSE e.answer.live /\ issued[e.tid].secret \in e.answer.said

\* No stepped-up payment settles unless it was found unexpired when its
\* verification looked it up.
CheckedInTime ==
    \A e \in ledger : e.by # Nothing => e.checkedAt < issued[e.tid].expires

\* What clients were told is what the tables hold: a payment whose mail failed
\* is neither frozen nor ever settled, and a 500 from /initiate never settles.
UndeliveredNeverSettles ==
    /\ \A t \in Tids : flow[t] = "503" => pending[t] = Nothing
    /\ \A e \in ledger : flow[e.tid] \in {"200", "403"}

\* Once deleted, a frozen row never comes back: no stale UPDATE recreates it.
NoResurrection ==
    [][\A t \in Tids : issued[t] # Nothing /\ pending[t] = Nothing
                          => pending'[t] = Nothing]_vars

\* A frozen row leaves the table only as settled, expired, exhausted or
\* undelivered; no error path and no refusal drops a live payment.
NoSilentLoss ==
    [][\A t \in Tids : pending[t] # Nothing /\ pending'[t] = Nothing =>
          \/ \E e \in ledger' : e.tid = t
          \/ pending[t].expires <= now
          \/ t \in exhausted'
          \/ flow'[t] = "503"]_vars

\* verify refuses a payment as "expired or inactive" only when its row is gone,
\* its window closed, or an earlier payment's row has the same secret.
RefusedOnlyIfDeadOrShared ==
    [][\A r \in Requests : pc[r] = "found" /\ pc'[r] = "inactive" =>
          LET t == target[r]
          IN  \/ pending[t] = Nothing
              \/ pending[t].expires <= now
              \/ \E u \in Tids : u < t /\ u \in Sharing(seen[r].secret)]_vars

\* Every verification in flight is answered (or lost with the process).
Answered == \A r \in Requests : pc[r] \in Awaiting ~> pc[r] \in Ended

\* The tables keep the promise of Settlement: terms are those of the frozen
\* row, whether it is still there or not, and the book is the ledger.
Contract == INSTANCE Settlement WITH
    terms <- [t \in Tids |-> IF issued[t] = Nothing THEN Nothing
                                                   ELSE issued[t].payload],
    book  <- {[tid |-> e.tid, payload |-> e.payload] : e \in ledger}

\* Every behaviour of the handlers, with overlapping verifications, lost mails
\* and crashes, is one of the abstract settlement.
ImplementsSettlement == Contract!Spec

-----------------------------------------------------------------------------
(* What the documents promise                                              *)

\* README: "bounded attempts"; SYSTEM_ARCHITECTURE 2.3: "terminal retry limit".
\* No more wrong answers are taken for a payment than its row allows.
AttemptsBounded == \A t \in Tids : failures[t] <= MaxAttempts

\* SYSTEM_ARCHITECTURE 5.3: on exhaustion the payment is terminally failed; no
\* verification in flight settles it afterwards.
ExhaustedNeverSettles == \A e \in ledger : e.tid \notin exhausted
=============================================================================
