------------------------------ MODULE Initiate ------------------------------
(***************************************************************************)
(* POST /transaction/initiate from the upload to the reply, in the order   *)
(* its gates run: the DSP replay gate, the transcript and its amount, the  *)
(* speaker, the network country, the agent; then one branch per risk tier, *)
(* each with its own commits; and the audit middleware around it.          *)
(*                                                                         *)
(* What the gates find in a request is drawn with the upload; every commit *)
(* may fail, every stage may raise, and the worker may stop at any point.  *)
(***************************************************************************)
EXTENDS Naturals

CONSTANTS
    Requests,
    Signals,  \* the combinations of findings a request may carry
    Nothing

Tiers == {"LOW", "MEDIUM", "HIGH", "CRITICAL"}

\* replay: the DSP gate's; amount: of the transcript, "none" when it has none;
\* voice: whether an enrolled speaker passes the threshold and still exists;
\* country: "home" for India, "unknown" when unresolved; agent: Ollama's tier.
Signal == [replay : BOOLEAN, amount : {"none", "small", "large"},
           voice : {"known", "stranger"}, country : {"home", "foreign", "unknown"},
           agent : Tiers]

ASSUME ConstantsAssumption == Signals \subseteq Signal /\ Nothing \notin Signal

VARIABLES
    stage,    \* progress of each request
    signal,   \* what it carries
    files,    \* the requests whose raw audio is in a temporary file
    ran,      \* the models each request has run
    ledger,   \* transactions: the requests that wrote a row
    frozen,   \* pending_transactions: each request's row, by its risk level
    fraud,    \* fraud_events: the requests that wrote a row
    audit,    \* audit_logs: the requests that wrote a row
    reply     \* the status each client got

vars == <<stage, signal, files, ran, ledger, frozen, fraud, audit, reply>>

tables == <<ledger, frozen, fraud, audit>>

\* The handler's stages in which an exception is a rollback and a 500.
Fallible == {"screening", "transcribing", "identifying", "challenging", "assessing",
             "approving", "freezing", "mailing", "withdrawing"}

InFlight == Fallible \cup {"blocking", "auditing"}

TypeOK ==
    /\ stage \in [Requests -> InFlight \cup {"idle", "done", "lost"}]
    /\ signal \in [Requests -> Signals \cup {Nothing}]
    /\ files \subseteq Requests
    /\ ran \in [Requests -> SUBSET {"whisper", "speechbrain", "ollama"}]
    /\ ledger \subseteq Requests
    /\ frozen \in [Requests -> {"none", "MEDIUM", "HIGH"}]
    /\ fraud \subseteq Requests
    /\ audit \subseteq Requests
    /\ reply \in [Requests -> {"none", "200", "401", "403", "404", "422", "500", "503"}]
    /\ \A r \in Requests : stage[r] = "auditing" => reply[r] \in {"401", "403"}

Init ==
    /\ stage = [r \in Requests |-> "idle"]
    /\ signal = [r \in Requests |-> Nothing]
    /\ files = {}
    /\ ran = [r \in Requests |-> {}]
    /\ ledger = {}
    /\ frozen = [r \in Requests |-> "none"]
    /\ fraud = {}
    /\ audit = {}
    /\ reply = [r \in Requests |-> "none"]

-----------------------------------------------------------------------------

Go(r, next) == stage' = [stage EXCEPT ![r] = next]

\* Faulty variant: the unlink is not in a finally.
UnlinkOnSuccess(r, code) == files' = IF code = "500" THEN files ELSE files \ {r}

Unlink(r, code) == files' = files \ {r}

\* Faulty variant: the middleware audits whatever is not a success.
AuditedErrors == {"401", "403", "404", "422", "500", "503"}

\* The statuses the middleware audits.
Audited == {"401", "403"}

\* The handler returns or raises.
Reply(r, code) ==
    /\ Unlink(r, code)
    /\ reply' = [reply EXCEPT ![r] = code]
    /\ Go(r, IF code \in Audited THEN "auditing" ELSE "done")

Run(r, m) == ran' = [ran EXCEPT ![r] = @ \cup m]

-----------------------------------------------------------------------------
(* The gates                                                               *)

\* The upload is copied to a temporary file for the DSP gate.
Upload(r) ==
    /\ stage[r] = "idle"
    /\ \E s \in Signals : signal' = [signal EXCEPT ![r] = s]
    /\ files' = files \cup {r}
    /\ Go(r, "screening")
    /\ UNCHANGED <<ran, tables, reply>>

UploadEmpty(r) ==
    /\ stage[r] = "idle"
    /\ Reply(r, "422")
    /\ UNCHANGED <<signal, ran, tables>>

\* Writing the file fails before its path is kept, so nothing unlinks it.
UploadUnwritten(r) ==
    /\ stage[r] = "idle"
    /\ files' = files \cup {r}
    /\ reply' = [reply EXCEPT ![r] = "500"]
    /\ Go(r, "done")
    /\ UNCHANGED <<signal, ran, tables>>

\* Faulty variant: the gate only logs.
ReplayIgnored(s) == FALSE

Replayed(s) == s.replay

Screen(r) ==
    /\ stage[r] = "screening"
    /\ Go(r, IF Replayed(signal[r]) THEN "blocking" ELSE "transcribing")
    /\ UNCHANGED <<signal, files, ran, tables, reply>>

\* No transcript, or no positive amount in it.
Transcribe(r) ==
    /\ stage[r] = "transcribing"
    /\ Run(r, {"whisper"})
    /\ \/ signal[r].amount = "none" /\ Reply(r, "422")
       \/ signal[r].amount # "none" /\ Go(r, "identifying") /\ UNCHANGED <<files, reply>>
    /\ UNCHANGED <<signal, tables>>

\* Faulty variant: the amount is compared with the wrong bound.
LargeNever(s) == FALSE

\* 500 or more goes to a challenge whatever the agent would say.
Large(s) == s.amount = "large"

Identify(r) ==
    /\ stage[r] = "identifying"
    /\ Run(r, {"speechbrain"})
    /\ \/ signal[r].voice # "known" /\ Reply(r, "404")
       \/ /\ signal[r].voice = "known"
          /\ Go(r, IF Large(signal[r]) THEN "challenging" ELSE "assessing")
          /\ UNCHANGED <<files, reply>>
    /\ UNCHANGED <<signal, tables>>

\* Faulty variant: the country is only telemetry.
AgentTier(s) == s.agent

\* A foreign country replaces the agent's decision.
Tier(s) == IF s.country = "foreign" THEN "MEDIUM" ELSE s.agent

\* Faulty variant: an agent that says CRITICAL is asked again.
BranchAgain(tier) ==
    CASE tier = "LOW" -> "approving" [] tier = "MEDIUM" -> "freezing"
      [] tier = "HIGH" -> "challenging" [] OTHER -> "assessing"

Branch(tier) ==
    CASE tier = "LOW" -> "approving" [] tier = "MEDIUM" -> "freezing"
      [] tier = "HIGH" -> "challenging" [] OTHER -> "blocking"

Assess(r) ==
    /\ stage[r] = "assessing"
    /\ Run(r, {"ollama"})
    /\ Go(r, Branch(Tier(signal[r])))
    /\ UNCHANGED <<signal, files, tables, reply>>

-----------------------------------------------------------------------------
(* The branches                                                            *)

Approve(r) ==
    /\ stage[r] = "approving"
    /\ ledger' = ledger \cup {r}
    /\ Reply(r, "200")
    /\ UNCHANGED <<signal, ran, frozen, fraud, audit>>

Challenge(r) ==
    /\ stage[r] = "challenging"
    /\ frozen' = [frozen EXCEPT ![r] = "HIGH"]
    /\ Reply(r, "403")
    /\ UNCHANGED <<signal, ran, ledger, fraud, audit>>

Freeze(r) == frozen' = [frozen EXCEPT ![r] = "MEDIUM"]

FreezeOtp(r) ==
    /\ stage[r] = "freezing"
    /\ Freeze(r)
    /\ Go(r, "mailing")
    /\ UNCHANGED <<signal, files, ran, ledger, fraud, audit, reply>>

Mailed(r) ==
    /\ stage[r] = "mailing"
    /\ Reply(r, "403")
    /\ UNCHANGED <<signal, ran, tables>>

MailRefused(r) ==
    /\ stage[r] = "mailing"
    /\ Go(r, "withdrawing")
    /\ UNCHANGED <<signal, files, ran, tables, reply>>

\* Faulty variant: the delete is rolled back with the 503.
WithdrawRolledBack(r) == UNCHANGED frozen

Withdraw(r) == frozen' = [frozen EXCEPT ![r] = "none"]

Undeliver(r) ==
    /\ stage[r] = "withdrawing"
    /\ Withdraw(r)
    /\ Reply(r, "503")
    /\ UNCHANGED <<signal, ran, ledger, fraud, audit>>

\* The fraud event is committed, or its failure swallowed: 401 either way.
Block(r) ==
    /\ stage[r] = "blocking"
    /\ fraud' \in {fraud, fraud \cup {r}}
    /\ Reply(r, "401")
    /\ UNCHANGED <<signal, ran, ledger, frozen, audit>>

\* Undecodable audio, a model or agent that fails, a failed flush or commit.
Error(r) ==
    /\ stage[r] \in Fallible
    /\ Reply(r, "500")
    /\ UNCHANGED <<signal, ran, tables>>

\* The middleware's own session; a failure is swallowed.
Audit(r) ==
    /\ stage[r] = "auditing"
    /\ audit' \in {audit, audit \cup {r}}
    /\ Go(r, "done")
    /\ UNCHANGED <<signal, files, ran, ledger, frozen, fraud, reply>>

\* The worker stops: what is on disk stays, temporary files included.
Crash ==
    /\ stage' = [r \in Requests |-> IF stage[r] \in InFlight THEN "lost" ELSE stage[r]]
    /\ UNCHANGED <<signal, files, ran, tables, reply>>

Proceed(r) ==
    \/ Screen(r) \/ Transcribe(r) \/ Identify(r) \/ Assess(r)
    \/ Approve(r) \/ Challenge(r) \/ FreezeOtp(r) \/ Mailed(r) \/ MailRefused(r)
    \/ Undeliver(r) \/ Block(r) \/ Audit(r)

Next ==
    \/ \E r \in Requests : Upload(r) \/ UploadEmpty(r) \/ UploadUnwritten(r)
                               \/ Proceed(r) \/ Error(r)
    \/ Crash

Spec == Init /\ [][Next]_vars

\* Handlers are resumed, inference ends and SMTP times out.
FairSpec == Spec /\ \A r \in Requests : WF_vars(Proceed(r))

-----------------------------------------------------------------------------
(* Correctness                                                             *)

\* Money moves without a step-up only for a small amount, a recognised live
\* voice, no foreign country and an agent that said LOW; an error, a missing
\* score or an agent that fails never approves.
ApprovedOnTrust ==
    \A r \in ledger :
        /\ ~signal[r].replay /\ signal[r].amount = "small" /\ signal[r].voice = "known"
        /\ signal[r].country # "foreign" /\ signal[r].agent = "LOW"
        /\ ran[r] = {"whisper", "speechbrain", "ollama"}

\* A replayed recording is stopped before any model runs, and leaves no payment.
ReplayShortCircuits ==
    \A r \in Requests : signal[r] # Nothing /\ signal[r].replay =>
        ran[r] = {} /\ r \notin ledger /\ frozen[r] = "none"

\* What a client is told is what the tables hold: a 200 has its ledger row, a
\* 403 its frozen row, anything else but a 500 neither; a 500 leaves at most a
\* code that was frozen and never confirmed.
RepliesMatchTables ==
    \A r \in Requests : reply[r] # "none" =>
        /\ (r \in ledger) <=> (reply[r] = "200")
        /\ reply[r] = "403" => frozen[r] # "none"
        /\ frozen[r] = "HIGH" => reply[r] = "403"
        /\ frozen[r] = "MEDIUM" => reply[r] \in {"403", "500"}

\* Raw audio outlives its request only through a crash or a write that failed.
AudioRemoved == \A r \in files : reply[r] # "none" => signal[r] = Nothing

\* Every upload is answered and its audit is over, unless the worker stops.
AnswersAll == \A r \in Requests : stage[r] \in InFlight ~> stage[r] \in {"done", "lost"}

\* What the tables and the reply make of a payment.
Verdict(r) ==
    IF r \in ledger THEN "approved"
    ELSE IF frozen[r] # "none" THEN IF frozen[r] = "HIGH" THEN "challenge" ELSE "otp"
    ELSE IF reply[r] = "none" THEN "open"
    ELSE IF reply[r] = "401" THEN "blocked" ELSE "refused"

Matrix == INSTANCE RiskMatrix WITH
    case <- signal, verdict <- [r \in Requests |-> Verdict(r)]

\* The pipeline implements the risk matrix: one verdict per payment, the one
\* its signals call for, through every failure and crash.
ImplementsMatrix == Matrix!Spec
=============================================================================
