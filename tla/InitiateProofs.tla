-------------------------- MODULE InitiateProofs ---------------------------
(***************************************************************************)
(* The initiation pipeline keeps its promises for any number of requests   *)
(* and whatever combinations of findings they carry, checked by TLAPS.     *)
(* The invariant says what a request's stage tells of its findings, of     *)
(* the models it has run and of the rows it has written.                   *)
(***************************************************************************)
EXTENDS Initiate, TLAPS

\* A request that has a handler has findings; one without has run nothing.
Known(r) ==
    /\ stage[r] = "idle" => signal[r] = Nothing /\ ran[r] = {}
    /\ stage[r] \in InFlight => signal[r] # Nothing

\* What each stage tells of the findings.
Passed(r) ==
    /\ stage[r] \in {"transcribing", "identifying", "assessing"} => ~signal[r].replay
    /\ stage[r] \in {"identifying", "assessing"} => signal[r].amount # "none"
    /\ stage[r] = "assessing" => signal[r].voice = "known" /\ signal[r].amount = "small"
    /\ stage[r] = "approving" => Matrix!Calls(signal[r], "approved")
    /\ stage[r] = "challenging" => Matrix!Calls(signal[r], "challenge") /\ ~signal[r].replay
    /\ stage[r] \in {"freezing", "mailing", "withdrawing"} => Matrix!Calls(signal[r], "otp")
    /\ stage[r] = "blocking" => Matrix!Calls(signal[r], "blocked")

\* And of the models that have run.
RanBy(r) ==
    /\ stage[r] \in {"screening", "transcribing"} => ran[r] = {}
    /\ stage[r] = "identifying" => ran[r] = {"whisper"}
    /\ stage[r] = "assessing" => ran[r] = {"whisper", "speechbrain"}
    /\ stage[r] = "approving" => ran[r] = {"whisper", "speechbrain", "ollama"}

\* And of the rows that are written.
Written(r) ==
    /\ r \in ledger <=> reply[r] = "200"
    /\ frozen[r] = "HIGH" => reply[r] = "403"
    /\ frozen[r] = "MEDIUM" => /\ reply[r] \in {"none", "403", "500"}
                               /\ reply[r] = "none" => stage[r] \in {"mailing", "withdrawing", "lost"}
    /\ reply[r] = "403" => frozen[r] # "none"
    /\ stage[r] \in {"mailing", "withdrawing"} => frozen[r] = "MEDIUM"
    /\ stage[r] \in Fallible \cup {"idle", "blocking"} => reply[r] = "none"

ReplayFirst(r) ==
    signal[r] # Nothing /\ signal[r].replay => ran[r] = {} /\ r \notin ledger /\ frozen[r] = "none"

TrustFirst(r) ==
    r \in ledger => /\ signal[r] # Nothing /\ Matrix!Calls(signal[r], "approved")
                    /\ ran[r] = {"whisper", "speechbrain", "ollama"}

Sound(r) == Known(r) /\ Passed(r) /\ RanBy(r) /\ Written(r) /\ ReplayFirst(r) /\ TrustFirst(r)

Inv == TypeOK /\ \A r \in Requests : Sound(r)

LEMMA InitInv == Init => Inv
  BY DEF Init, Inv, TypeOK, Sound, Known, Passed, RanBy, Written, ReplayFirst, TrustFirst,
         InFlight, Fallible

\* A request whose own part of the state is untouched stays sound.
LEMMA Frame ==
    ASSUME NEW r, Sound(r),
           stage'[r] = stage[r], signal'[r] = signal[r], ran'[r] = ran[r],
           r \in ledger' <=> r \in ledger, frozen'[r] = frozen[r], reply'[r] = reply[r]
    PROVE  Sound(r)'
  BY DEF Sound, Known, Passed, RanBy, Written, ReplayFirst, TrustFirst

\* The steps a request takes by itself, all but a crash.
Move(r) ==
    \/ Upload(r) \/ UploadEmpty(r) \/ UploadUnwritten(r) \/ Proceed(r) \/ Error(r)

\* Everything such a step writes is the request's own.
LEMMA Own ==
    ASSUME TypeOK, NEW r \in Requests, Move(r), NEW q \in Requests, q # r
    PROVE  /\ stage'[q] = stage[q] /\ signal'[q] = signal[q] /\ ran'[q] = ran[q]
           /\ q \in ledger' <=> q \in ledger
           /\ frozen'[q] = frozen[q] /\ reply'[q] = reply[q]
  <1> USE DEF TypeOK, Go, Run, Reply, Unlink, tables
  <1>1. CASE Upload(r) \/ UploadEmpty(r) \/ UploadUnwritten(r)
    BY <1>1 DEF Upload, UploadEmpty, UploadUnwritten
  <1>2. CASE Screen(r) \/ Transcribe(r) \/ Identify(r) \/ Assess(r)
    BY <1>2 DEF Screen, Transcribe, Identify, Assess
  <1>3. CASE Approve(r) \/ Challenge(r) \/ FreezeOtp(r) \/ Undeliver(r)
    BY <1>3 DEF Approve, Challenge, FreezeOtp, Undeliver, Freeze, Withdraw
  <1>4. CASE Mailed(r) \/ MailRefused(r) \/ Block(r) \/ Audit(r) \/ Error(r)
    BY <1>4 DEF Mailed, MailRefused, Block, Audit, Error
  <1> QED
    BY <1>1, <1>2, <1>3, <1>4 DEF Move, Proceed

LEMMA TypeStep ==
    ASSUME Inv, NEW r \in Requests, Move(r)
    PROVE  TypeOK'
  <1> USE DEF Inv, TypeOK, Go, Run, Reply, Unlink, tables, InFlight, Fallible, Audited
  <1>1. CASE Upload(r) \/ UploadEmpty(r) \/ UploadUnwritten(r)
    BY <1>1 DEF Upload, UploadEmpty, UploadUnwritten
  <1>2. CASE Screen(r) \/ Transcribe(r) \/ Identify(r) \/ Assess(r)
    BY <1>2 DEF Screen, Transcribe, Identify, Assess, Branch
  <1>3. CASE Approve(r) \/ Challenge(r) \/ FreezeOtp(r) \/ Undeliver(r)
    BY <1>3 DEF Approve, Challenge, FreezeOtp, Undeliver, Freeze, Withdraw
  <1>4. CASE Mailed(r) \/ MailRefused(r) \/ Block(r) \/ Audit(r) \/ Error(r)
    BY <1>4 DEF Mailed, MailRefused, Block, Audit, Error
  <1> QED
    BY <1>1, <1>2, <1>3, <1>4 DEF Move, Proceed

\* Each step keeps its own request sound.
LEMMA SoundStep ==
    ASSUME Inv, NEW r \in Requests, Move(r)
    PROVE  Sound(r)'
  <1>0. Sound(r)
    BY DEF Inv
  <1> USE <1>0 DEF Inv, TypeOK, Sound, Known, Passed, RanBy, Written, ReplayFirst, TrustFirst,
                   InFlight, Fallible, Go, Run, Reply, Unlink, Audited, tables
  <1>1. CASE Upload(r)
    <2>1. PICK s \in Signals : signal' = [signal EXCEPT ![r] = s]
      BY <1>1 DEF Upload
    <2>2. signal'[r] # Nothing
      BY <2>1, ConstantsAssumption
    <2> QED
      BY <1>1, <2>2 DEF Upload
  <1>2. CASE UploadEmpty(r)
    BY <1>2 DEF UploadEmpty
  <1>3. CASE UploadUnwritten(r)
    BY <1>3 DEF UploadUnwritten
  <1>4. CASE Screen(r)
    BY <1>4 DEF Screen, Replayed, Matrix!Calls
  <1>5. CASE Transcribe(r)
    BY <1>5 DEF Transcribe
  <1>6. CASE Identify(r)
    BY <1>6, ConstantsAssumption DEF Identify, Large, Matrix!Calls, Matrix!Trusted, Signal
  <1>7. CASE Assess(r)
    BY <1>7, ConstantsAssumption DEF Assess, Branch, Tier, Tiers, Signal, Matrix!Calls,
         Matrix!AgentDecides, Matrix!Trusted
  <1>8. CASE Approve(r)
    BY <1>8 DEF Approve, Matrix!Calls, Matrix!AgentDecides, Matrix!Trusted
  <1>9. CASE Challenge(r)
    BY <1>9 DEF Challenge
  <1>10. CASE FreezeOtp(r)
    BY <1>10 DEF FreezeOtp, Freeze, Matrix!Calls, Matrix!AgentDecides, Matrix!Trusted
  <1>11. CASE Mailed(r) \/ MailRefused(r)
    BY <1>11 DEF Mailed, MailRefused
  <1>12. CASE Undeliver(r)
    BY <1>12 DEF Undeliver, Withdraw
  <1>13. CASE Block(r)
    BY <1>13 DEF Block
  <1>14. CASE Error(r)
    BY <1>14 DEF Error
  <1>15. CASE Audit(r)
    BY <1>15 DEF Audit
  <1> QED
    BY <1>1, <1>2, <1>3, <1>4, <1>5, <1>6, <1>7, <1>8, <1>9, <1>10, <1>11, <1>12, <1>13,
       <1>14, <1>15 DEF Move, Proceed

\* A crash ends every handler and writes nothing.
LEMMA CrashInv == Inv /\ Crash => Inv'
  <1> SUFFICES ASSUME Inv, Crash PROVE Inv'
    OBVIOUS
  <1>1. TypeOK'
    BY DEF Inv, TypeOK, Crash, tables, InFlight, Fallible
  <1>2. ASSUME NEW r \in Requests PROVE Sound(r)'
    <2>1. /\ stage'[r] = IF stage[r] \in InFlight THEN "lost" ELSE stage[r]
          /\ UNCHANGED <<signal, ran, ledger, frozen, reply>>
      BY DEF Crash, tables
    <2>2. Sound(r)
      BY DEF Inv
    <2> QED
      BY <2>1, <2>2 DEF Sound, Known, Passed, RanBy, Written, ReplayFirst, TrustFirst,
           InFlight, Fallible
  <1> QED
    BY <1>1, <1>2 DEF Inv

\* Every step preserves Inv.
LEMMA NextInv == Inv /\ [Next]_vars => Inv'
  <1> SUFFICES ASSUME Inv, [Next]_vars PROVE Inv'
    OBVIOUS
  <1>1. ASSUME NEW r \in Requests, Move(r) PROVE Inv'
    <2>1. TypeOK'
      BY <1>1, TypeStep
    <2>2. ASSUME NEW q \in Requests, q # r PROVE Sound(q)'
      <3>1. Sound(q) /\ TypeOK
        BY DEF Inv
      <3> QED
        BY <1>1, <2>2, <3>1, Own, Frame
    <2>3. Sound(r)'
      BY <1>1, SoundStep
    <2> QED
      BY <2>1, <2>2, <2>3 DEF Inv
  <1>2. CASE Crash
    BY <1>2, CrashInv
  <1>3. CASE UNCHANGED vars
    BY <1>3 DEF vars, tables, Inv, TypeOK, Sound, Known, Passed, RanBy, Written, ReplayFirst,
         TrustFirst
  <1> QED
    BY <1>1, <1>2, <1>3 DEF Next, Move

\* The pipeline's inductive invariant.
THEOREM Invariance == Spec => []Inv
  BY InitInv, NextInv, PTL DEF Spec

\* A file stays under a reply only where nothing was ever uploaded.
LEMMA AudioStep == Inv /\ AudioRemoved /\ [Next]_vars => AudioRemoved'
  <1> SUFFICES ASSUME Inv, AudioRemoved, [Next]_vars PROVE AudioRemoved'
    OBVIOUS
  <1>1. ASSUME NEW r \in Requests, Move(r) PROVE AudioRemoved'
    <2>1. ASSUME NEW q \in files', q # r, reply'[q] # "none" PROVE signal'[q] = Nothing
      <3>1. q \in files
        BY <1>1, <2>1
        DEF Move, Proceed, Go, Run, Reply, Unlink, tables, Upload, UploadEmpty, UploadUnwritten,
            Screen, Transcribe, Identify, Assess, Approve, Challenge, FreezeOtp, Mailed,
            MailRefused, Undeliver, Block, Audit, Error
      <3>2. q \in Requests
        BY <3>1 DEF Inv, TypeOK
      <3> QED BY <1>1, <2>1, <3>1, <3>2, Own DEF AudioRemoved, Inv
    <2>2. ASSUME r \in files', reply'[r] # "none" PROVE signal'[r] = Nothing
      <3>1. Sound(r) /\ TypeOK
        BY DEF Inv
      <3> USE <2>2, <3>1 DEF TypeOK, Sound, Go, Run, Reply, Unlink, tables
      <3>2. CASE Upload(r) \/ UploadEmpty(r) \/ UploadUnwritten(r)
        BY <3>2 DEF Upload, UploadEmpty, UploadUnwritten, Known, Written
      <3>3. CASE Screen(r) \/ Transcribe(r) \/ Identify(r) \/ Assess(r)
        BY <3>3 DEF Screen, Transcribe, Identify, Assess, Written, Fallible
      <3>4. CASE Approve(r) \/ Challenge(r) \/ FreezeOtp(r) \/ Undeliver(r)
        BY <3>4 DEF Approve, Challenge, FreezeOtp, Undeliver, Written, Fallible
      <3>5. CASE Mailed(r) \/ MailRefused(r) \/ Block(r) \/ Error(r)
        BY <3>5 DEF Mailed, MailRefused, Block, Error, Written, Fallible
      <3>6. CASE Audit(r)
        BY <3>6 DEF Audit, AudioRemoved
      <3> QED BY <1>1, <3>2, <3>3, <3>4, <3>5, <3>6 DEF Move, Proceed
    <2> QED BY <2>1, <2>2 DEF AudioRemoved
  <1>2. CASE Crash
    BY <1>2 DEF Crash, tables, AudioRemoved
  <1>3. CASE UNCHANGED vars
    BY <1>3 DEF vars, AudioRemoved
  <1> QED BY <1>1, <1>2, <1>3 DEF Next, Move

\* Raw audio is on disk under a reply only if it could not be written in the first
\* place, whichever gate, branch or error ended the request.
THEOREM AudioUnlinked == Spec => []AudioRemoved
  <1>1. Init => AudioRemoved
    BY DEF Init, AudioRemoved
  <1> QED BY <1>1, AudioStep, Invariance, PTL DEF Spec

\* Every variable keeps its type, and only a 401 or a 403 waits for its audit.
THEOREM TypeCorrect == Spec => []TypeOK
  <1>1. Inv => TypeOK
    BY DEF Inv
  <1> QED
    BY <1>1, Invariance, PTL

\* No payment is approved without a step-up unless every gate trusted it.
THEOREM ApprovalsTrusted == Spec => []ApprovedOnTrust
  <1>1. Inv => ApprovedOnTrust
    BY DEF Inv, TypeOK, Sound, TrustFirst, ApprovedOnTrust, Matrix!Calls, Matrix!AgentDecides,
           Matrix!Trusted
  <1> QED
    BY <1>1, Invariance, PTL

\* A replayed recording reaches no model and no table of payments.
THEOREM ReplaysStopped == Spec => []ReplayShortCircuits
  <1>1. Inv => ReplayShortCircuits
    BY DEF Inv, Sound, ReplayFirst, ReplayShortCircuits
  <1> QED
    BY <1>1, Invariance, PTL

\* Whatever fails and wherever the worker stops, replies and tables agree.
THEOREM RepliesTruthful == Spec => []RepliesMatchTables
  <1>1. Inv => RepliesMatchTables
    BY DEF Inv, Sound, Written, RepliesMatchTables
  <1> QED
    BY <1>1, Invariance, PTL

-----------------------------------------------------------------------------
(* Refinement                                                              *)

Verdicts == [r \in Requests |-> Verdict(r)]

\* While a request has no reply and no row, its verdict is open.
LEMMA OpenVerdict ==
    ASSUME NEW r \in Requests, Sound(r), frozen[r] \in {"none", "MEDIUM", "HIGH"},
           stage[r] \in (InFlight \ {"auditing", "mailing", "withdrawing"}) \cup {"idle"}
    PROVE  Verdict(r) = "open" /\ reply[r] = "none" /\ r \notin ledger /\ frozen[r] = "none"
  <1>1. reply[r] = "none" /\ r \notin ledger
    BY DEF Sound, Written, InFlight, Fallible
  <1>2. frozen[r] = "none"
    BY <1>1 DEF Sound, Written, InFlight, Fallible
  <1> QED
    BY <1>1, <1>2 DEF Verdict

\* Once its code is frozen and no reply has gone out, it is "otp".
LEMMA OtpVerdict ==
    ASSUME NEW r \in Requests, Sound(r), stage[r] \in {"mailing", "withdrawing"}
    PROVE  Verdict(r) = "otp" /\ reply[r] = "none" /\ r \notin ledger /\ frozen[r] = "MEDIUM"
  <1>1. reply[r] = "none" /\ r \notin ledger /\ frozen[r] = "MEDIUM"
    BY DEF Sound, Written, Fallible
  <1> QED
    BY <1>1 DEF Verdict

\* How a step moves its request's verdict.
Draws(r) ==
    /\ signal[r] = Nothing /\ Verdict(r) = "open" /\ Verdict(r)' = "open"
    /\ \E s \in Signals : signal' = [signal EXCEPT ![r] = s]

Decides(r) ==
    /\ UNCHANGED signal
    /\ Verdict(r) = "open" /\ signal[r] # Nothing
    /\ \E v \in {"approved", "otp", "challenge", "blocked"} :
        Matrix!Calls(signal[r], v) /\ Verdict(r)' = v

Refuses(r) ==
    /\ UNCHANGED signal
    /\ Verdict(r) \in {"open", "otp"} /\ Verdict(r)' = "refused"

Stays(r) == UNCHANGED signal /\ Verdict(r)' = Verdict(r)

LEMMA VerdictStep ==
    ASSUME Inv, NEW r \in Requests, Move(r)
    PROVE  Draws(r) \/ Decides(r) \/ Refuses(r) \/ Stays(r)
  <1>0. Sound(r) /\ frozen[r] \in {"none", "MEDIUM", "HIGH"}
    BY DEF Inv, TypeOK
  <1>t. TypeOK
    BY DEF Inv
  <1> USE <1>0, <1>t DEF Go, Run, Reply, Unlink, tables
  <1>1. CASE Upload(r)
    <2>1. Verdict(r) = "open" /\ signal[r] = Nothing /\ reply[r] = "none" /\ r \notin ledger
             /\ frozen[r] = "none"
      BY <1>1, OpenVerdict DEF Upload, Sound, Known
    <2>2. Verdict(r)' = "open"
      BY <1>1, <2>1 DEF Upload, Verdict
    <2> QED
      BY <1>1, <2>1, <2>2 DEF Draws, Upload
  <1>2. CASE UploadEmpty(r) \/ UploadUnwritten(r)
    <2>1. Verdict(r) = "open" /\ r \notin ledger /\ frozen[r] = "none"
      BY <1>2, OpenVerdict DEF UploadEmpty, UploadUnwritten
    <2>2. UNCHANGED signal /\ Verdict(r)' = "refused"
      BY <1>2, <2>1 DEF UploadEmpty, UploadUnwritten, Verdict, TypeOK
    <2> QED
      BY <2>1, <2>2 DEF Refuses
  <1>3. CASE Screen(r) \/ Assess(r) \/ MailRefused(r)
    BY <1>3 DEF Stays, Screen, Assess, MailRefused, Verdict
  <1>4. CASE Transcribe(r) \/ Identify(r)
    <2>1. /\ Verdict(r) = "open" /\ r \notin ledger /\ frozen[r] = "none"
          /\ reply[r] = "none" /\ UNCHANGED <<signal, ledger, frozen>>
      BY <1>4, OpenVerdict DEF Transcribe, Identify, InFlight, Fallible
    <2>2. reply'[r] \in {"none", "404", "422"}
      BY <1>4, <2>1 DEF Transcribe, Identify, TypeOK
    <2>3. Verdict(r)' \in {"open", "refused"}
      BY <2>1, <2>2 DEF Verdict
    <2> QED
      BY <2>1, <2>3 DEF Refuses, Stays
  <1>5. CASE Approve(r)
    <2>1. /\ Verdict(r) = "open" /\ signal[r] # Nothing /\ UNCHANGED signal
          /\ Matrix!Calls(signal[r], "approved")
      BY <1>5, OpenVerdict DEF Approve, InFlight, Fallible, Sound, Known, Passed
    <2>2. Verdict(r)' = "approved"
      BY <1>5 DEF Approve, Verdict
    <2> QED
      BY <2>1, <2>2 DEF Decides
  <1>6. CASE Challenge(r)
    <2>1. /\ Verdict(r) = "open" /\ signal[r] # Nothing /\ UNCHANGED signal
          /\ r \notin ledger /\ Matrix!Calls(signal[r], "challenge")
      BY <1>6, OpenVerdict DEF Challenge, InFlight, Fallible, Sound, Known, Passed
    <2>2. Verdict(r)' = "challenge"
      BY <1>6, <2>1 DEF Challenge, Verdict, TypeOK
    <2> QED
      BY <2>1, <2>2 DEF Decides
  <1>7. CASE FreezeOtp(r)
    <2>1. /\ Verdict(r) = "open" /\ signal[r] # Nothing /\ UNCHANGED signal
          /\ r \notin ledger /\ Matrix!Calls(signal[r], "otp")
      BY <1>7, OpenVerdict DEF FreezeOtp, InFlight, Fallible, Sound, Known, Passed
    <2>2. Verdict(r)' = "otp"
      BY <1>7, <2>1 DEF FreezeOtp, Freeze, Verdict, TypeOK
    <2> QED
      BY <2>1, <2>2 DEF Decides
  <1>8. CASE Mailed(r)
    <2>1. Verdict(r) = "otp" /\ r \notin ledger /\ frozen[r] = "MEDIUM"
      BY <1>8, OtpVerdict DEF Mailed
    <2> QED
      BY <1>8, <2>1 DEF Mailed, Stays, Verdict
  <1>9. CASE Undeliver(r)
    <2>1. Verdict(r) = "otp" /\ r \notin ledger
      BY <1>9, OtpVerdict DEF Undeliver
    <2>2. UNCHANGED signal /\ Verdict(r)' = "refused"
      BY <1>9, <2>1 DEF Undeliver, Withdraw, Verdict, TypeOK
    <2> QED
      BY <2>1, <2>2 DEF Refuses
  <1>10. CASE Block(r)
    <2>1. /\ Verdict(r) = "open" /\ signal[r] # Nothing /\ UNCHANGED signal
          /\ r \notin ledger /\ frozen[r] = "none" /\ Matrix!Calls(signal[r], "blocked")
      BY <1>10, OpenVerdict DEF Block, InFlight, Fallible, Sound, Known, Passed
    <2>2. Verdict(r)' = "blocked"
      BY <1>10, <2>1 DEF Block, Verdict, TypeOK
    <2> QED
      BY <2>1, <2>2 DEF Decides
  <1>11. CASE Error(r) /\ stage[r] \in {"mailing", "withdrawing"}
    <2>1. Verdict(r) = "otp" /\ r \notin ledger /\ frozen[r] = "MEDIUM"
      BY <1>11, OtpVerdict
    <2> QED
      BY <1>11, <2>1 DEF Error, Stays, Verdict
  <1>12. CASE Error(r) /\ stage[r] \notin {"mailing", "withdrawing"}
    <2>1. Verdict(r) = "open" /\ r \notin ledger /\ frozen[r] = "none"
      BY <1>12, OpenVerdict DEF Error, InFlight, Fallible
    <2>2. UNCHANGED signal /\ Verdict(r)' = "refused"
      BY <1>12, <2>1 DEF Error, Verdict, TypeOK
    <2> QED
      BY <2>1, <2>2 DEF Refuses
  <1>13. CASE Audit(r)
    BY <1>13 DEF Audit, Stays, Verdict
  <1> QED
    BY <1>1, <1>2, <1>3, <1>4, <1>5, <1>6, <1>7, <1>8, <1>9, <1>10, <1>11, <1>12, <1>13
       DEF Move, Proceed

\* The initial states map to the matrix's.
LEMMA MatrixInit == Init => Matrix!Init
  BY DEF Init, Matrix!Init, Verdict

\* Every step maps to a step of the matrix or to none.
LEMMA MatrixStep == Inv /\ [Next]_vars => [Matrix!Next]_<<signal, Verdicts>>
  <1> SUFFICES ASSUME Inv, [Next]_vars PROVE [Matrix!Next]_<<signal, Verdicts>>
    OBVIOUS
  <1>1. ASSUME NEW r \in Requests, Move(r) PROVE [Matrix!Next]_<<signal, Verdicts>>
    <2>1. \A q \in Requests : q # r => Verdict(q)' = Verdict(q)
      <3> SUFFICES ASSUME NEW q \in Requests, q # r PROVE Verdict(q)' = Verdict(q)
        OBVIOUS
      <3>1. /\ q \in ledger' <=> q \in ledger
            /\ frozen'[q] = frozen[q] /\ reply'[q] = reply[q]
        BY <1>1, Own DEF Inv
      <3> QED
        BY <3>1 DEF Verdict
    <2>2. PICK v : v = Verdict(r)'
      OBVIOUS
    <2>3. Verdicts' = [Verdicts EXCEPT ![r] = v] /\ Verdicts[r] = Verdict(r)
      BY <2>1, <2>2 DEF Verdicts
    <2>4. CASE Draws(r)
      <3>1. Verdicts' = Verdicts
        BY <2>2, <2>3, <2>4 DEF Draws, Verdicts
      <3> QED
        BY <2>3, <2>4, <3>1 DEF Draws, Matrix!Next, Matrix!Arrive, Verdicts
    <2>5. CASE Decides(r)
      BY <2>2, <2>3, <2>5 DEF Decides, Matrix!Next, Matrix!Decide, Verdicts
    <2>6. CASE Refuses(r)
      BY <2>2, <2>3, <2>6 DEF Refuses, Matrix!Next, Matrix!Refuse, Verdicts
    <2>7. CASE Stays(r)
      BY <2>2, <2>3, <2>7 DEF Stays, Verdicts
    <2> QED
      BY <1>1, <2>4, <2>5, <2>6, <2>7, VerdictStep
  <1>2. CASE Crash \/ UNCHANGED vars
    BY <1>2 DEF Crash, vars, tables, Verdicts, Verdict
  <1> QED
    BY <1>1, <1>2 DEF Next, Move

\* The pipeline implements the risk matrix.
THEOREM Refinement == Spec => ImplementsMatrix
  <1>1. Inv /\ [Next]_vars => [Matrix!Next]_<<signal, [r \in Requests |-> Verdict(r)]>>
    BY MatrixStep DEF Verdicts
  <1> QED
    BY <1>1, MatrixInit, Invariance, PTL DEF Spec, ImplementsMatrix, Matrix!Spec
=============================================================================
