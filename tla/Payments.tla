------------------------------ MODULE Payments ------------------------------
(***************************************************************************)
(* A spoken payment from its upload to the ledger: the pipeline of         *)
(* Initiate in front of the tables and the verifications of StepUp.  A     *)
(* branch of the pipeline that writes is one step with the write it makes; *)
(* what the pipeline sees of the tables is read off them.                  *)
(*                                                                         *)
(* Here the findings an approval rests on, the tier they call for and the  *)
(* proof a client gives meet in one state.                                 *)
(***************************************************************************)
EXTENDS StepUp

CONSTANTS
    Uploads,  \* the requests to /transaction/initiate
    Signals,  \* the findings they may carry
    Small     \* the payloads below the limit of the challenge

VARIABLES
    stage, signal, files, ran, fraud, audit, reply,  \* as in Initiate
    payment   \* [Uploads -> Tids or Nothing]: the payment each upload has entered

pipeline == <<stage, signal, files, ran, fraud, audit, reply>>

\* The uploads that were paid without a step-up.
Outright == {u \in Uploads : \E e \in ledger : e.tid = payment[u] /\ e.by = Nothing}

\* The level at which each upload was frozen, unless that was taken back.
Frozen ==
    [u \in Uploads |->
        IF payment[u] \notin {t \in Tids : issued[t] # Nothing /\ flow[t] # "503"} THEN "none"
        ELSE IF issued[payment[u]].status = "PENDING_OTP" THEN "MEDIUM" ELSE "HIGH"]

Pipe == INSTANCE Initiate WITH Requests <- Uploads, ledger <- Outright, frozen <- Frozen

ASSUME PaymentsAssumption ==
    /\ Signals \subseteq Pipe!Signal /\ Nothing \notin Pipe!Signal
    /\ Small \subseteq Payloads

PaymentsInit ==
    /\ Init
    /\ payment = [u \in Uploads |-> Nothing]
    /\ Pipe!Init

-----------------------------------------------------------------------------

\* The amount extracted is the one that is written.
Worth(p, s) == p \in Small <=> s.amount = "small"

Takes(u, t) == payment' = [payment EXCEPT ![u] = t]

\* What an upload does before it writes, and after: the payment tables are left alone.
Quiet(u) ==
    /\ UNCHANGED <<vars, payment>>
    /\ \/ Pipe!Upload(u) \/ Pipe!UploadEmpty(u) \/ Pipe!UploadUnwritten(u)
       \/ Pipe!Screen(u) \/ Pipe!Transcribe(u) \/ Pipe!Identify(u) \/ Pipe!Assess(u)
       \/ Pipe!MailRefused(u) \/ Pipe!Block(u) \/ Pipe!Audit(u)
       \/ stage[u] \notin {"mailing", "withdrawing"} /\ Pipe!Error(u)

ApproveOutright(u) ==
    \E t \in Tids :
        /\ AutoApprove(t) /\ Takes(u, t)
        /\ Pipe!Approve(u)
        /\ \A e \in ledger' : e.tid = t => Worth(e.payload, signal[u])

FreezeForChallenge(u) ==
    \E t \in Tids :
        /\ FreezeChallenge(t) /\ Takes(u, t)
        /\ Pipe!Challenge(u)
        /\ Worth(issued'[t].payload, signal[u])

FreezeForOtp(u) ==
    \E t \in Tids :
        /\ FreezeOtp(t) /\ Takes(u, t)
        /\ Pipe!FreezeOtp(u)
        /\ Worth(issued'[t].payload, signal[u])

\* The delivery's outcome, for the row the upload has frozen.
Conclude(u) ==
    \E t \in Tids :
        /\ payment[u] = t
        /\ UNCHANGED payment
        /\ \/ EmailDelivered(t) /\ Pipe!Mailed(u)
           \/ EmailRefused(t) /\ Pipe!Undeliver(u)
           \/ InitiateError(t) /\ Pipe!Error(u)

Verify(r) ==
    /\ Lookup(r) \/ LookupMissing(r) \/ Proceed(r) \/ VerifyError(r)
    /\ UNCHANGED <<pipeline, payment>>

\* The worker stops for both.
Stop == Crash /\ UNCHANGED payment /\ Pipe!Crash

Pass == Tick /\ UNCHANGED <<pipeline, payment>>

PaymentsNext ==
    \/ \E u \in Uploads : \/ Quiet(u) \/ ApproveOutright(u) \/ FreezeForChallenge(u)
                          \/ FreezeForOtp(u) \/ Conclude(u)
    \/ \E r \in Requests : Verify(r)
    \/ Pass \/ Stop

paymentsVars == <<vars, pipeline, payment>>

PaymentsSpec == PaymentsInit /\ [][PaymentsNext]_paymentsVars

\* The event loop runs every handler whose await has completed: an upload that has
\* begun goes on, and so does a verification, neither by an error.  Nobody need send
\* a request, and the clock need not advance.
Onward(u) ==
    /\ \/ Quiet(u) \/ ApproveOutright(u) \/ FreezeForChallenge(u)
       \/ FreezeForOtp(u) \/ Conclude(u)
    /\ stage[u] # "idle" /\ reply'[u] # "500"

Respond(r) == Proceed(r) /\ UNCHANGED <<pipeline, payment>>

PaymentsFairness ==
    /\ \A u \in Uploads : WF_paymentsVars(Onward(u))
    /\ \A r \in Requests : WF_paymentsVars(Respond(r))

FairPaymentsSpec == PaymentsSpec /\ PaymentsFairness

-----------------------------------------------------------------------------

\* Whatever is paid was spoken by an enrolled voice and no recording of it, has the
\* amount that was heard, and went the way the risk matrix calls for: outright when
\* every gate and the agent trusted it, by the code mailed to the account or by
\* phrase and live face otherwise, whatever handlers overlap, fail or crash in between.
PaidAsAssessed ==
    \A e \in ledger : \E u \in Uploads :
        /\ payment[u] = e.tid
        /\ ~signal[u].replay /\ signal[u].voice = "known"
        /\ Worth(e.payload, signal[u])
        /\ IF e.by = Nothing
           THEN /\ Pipe!Matrix!Calls(signal[u], "approved")
                /\ ran[u] = {"whisper", "speechbrain", "ollama"}
           ELSE \/ /\ Pipe!Matrix!Calls(signal[u], "otp")
                   /\ e.answer.otp = issued[e.tid].secret
                \/ /\ Pipe!Matrix!Calls(signal[u], "challenge")
                   /\ e.answer.live /\ issued[e.tid].secret \in e.answer.said

\* 500 rupees or more never move without the phrase and a live face.
FaceForLarge ==
    \A e \in ledger : e.payload \notin Small =>
        e.by # Nothing /\ e.answer.live /\ issued[e.tid].secret \in e.answer.said

\* Every upload and every verification in flight is answered, or lost with the process.
EveryoneAnswered == Answered /\ Pipe!AnswersAll
=============================================================================
