--------------------------- MODULE PaymentsProofs ---------------------------
(***************************************************************************)
(* What StepUp guarantees for every number of payments, requests, users,   *)
(* secrets and attempts and, at the end, what Payments guarantees of the   *)
(* whole way from an upload to the ledger, checked by TLAPS.               *)
(*                                                                         *)
(* Inv is StepUp's inductive invariant: the type invariant, what each      *)
(* table and each handler in flight knows of the row as it was issued, and *)
(* the ledger facts that follow.  A verification decides on seen[r], a     *)
(* copy that may be stale; Copies says it is stale in its counter only.    *)
(***************************************************************************)
EXTENDS Payments, TLAPS

\* Two versions of one row: only the attempt counter may differ.
SameTerms(a, b) ==
    /\ a.payload = b.payload
    /\ a.status = b.status
    /\ a.secret = b.secret
    /\ a.expires = b.expires

\* What was not initiated has no row.
UnbornUnwritten ==
    \A t \in Tids : flow[t] = "unborn" => pending[t] = Nothing /\ issued[t] = Nothing

\* A stored row is the issued one, and its initiate did not disown it.
RowsIssued ==
    \A t \in Tids : pending[t] # Nothing =>
        /\ issued[t] # Nothing
        /\ SameTerms(pending[t], issued[t])
        /\ flow[t] \notin {"unborn", "200", "503"}

\* A verification in flight holds a copy of a row whose id its client was told.
Copies ==
    \A r \in Requests : pc[r] \in Awaiting =>
        /\ target[r] \in Tids
        /\ answer[r] \in Answers
        /\ seen[r] \in Row
        /\ issued[target[r]] # Nothing
        /\ SameTerms(seen[r], issued[target[r]])
        /\ flow[target[r]] = "403"

\* Past the expiry check, the copy was unexpired when it was checked.
CheckedAlive ==
    \A r \in Requests : pc[r] = "active" => checked[r] < seen[r].expires

\* A ledger row belongs to an initiate that was answered 200 or 403.
LedgerAnswered == \A e \in ledger : flow[e.tid] \in {"200", "403"}

\* An outright row was never frozen; a stepped-up one always was.
LedgerOrigin == \A e \in ledger : e.by = Nothing <=> issued[e.tid] = Nothing

Inv ==
    /\ TypeOK
    /\ UnbornUnwritten
    /\ RowsIssued
    /\ Copies
    /\ CheckedAlive
    /\ LedgerAnswered
    /\ LedgerOrigin
    /\ SettledOnce
    /\ SettledNotFrozen
    /\ SettledAsFrozen
    /\ CheckedInTime

-----------------------------------------------------------------------------

\* The initial state, with empty tables and idle handlers, satisfies Inv.
LEMMA InitInv == Init => Inv
  <1> SUFFICES ASSUME Init PROVE Inv
    OBVIOUS
  <1> USE DEF Init
  <1>1. TypeOK
    BY ConstantsAssumption DEF TypeOK, FlowState, Awaiting, Ended
  <1>2. UnbornUnwritten /\ RowsIssued
    BY DEF UnbornUnwritten, RowsIssued
  <1>3. Copies /\ CheckedAlive
    BY DEF Copies, CheckedAlive, Awaiting
  <1>4. /\ LedgerAnswered /\ LedgerOrigin /\ SettledOnce
        /\ SettledNotFrozen /\ SettledAsFrozen /\ CheckedInTime
    BY DEF LedgerAnswered, LedgerOrigin, SettledOnce,
           SettledNotFrozen, SettledAsFrozen, CheckedInTime
  <1> QED
    BY <1>1, <1>2, <1>3, <1>4 DEF Inv

\* Every step keeps every variable in its type.
LEMMA TypeStep == TypeOK /\ Copies /\ [Next]_vars => TypeOK'
  <1> SUFFICES ASSUME TypeOK, Copies, [Next]_vars PROVE TypeOK'
    OBVIOUS
  <1> USE ConstantsAssumption DEF TypeOK, handler, history, DeleteRow
  <1>1. ASSUME NEW t \in Tids, FreezeChallenge(t) PROVE TypeOK'
    BY <1>1 DEF FreezeChallenge, Freeze, Row, PendingStatus, FlowState
  <1>2. ASSUME NEW t \in Tids, FreezeOtp(t) PROVE TypeOK'
    BY <1>2 DEF FreezeOtp, Freeze, Row, PendingStatus, FlowState
  <1>3. ASSUME NEW t \in Tids, AutoApprove(t) PROVE TypeOK'
    BY <1>3 DEF AutoApprove, Entry, FlowState
  <1>4. ASSUME NEW t \in Tids, EmailDelivered(t) PROVE TypeOK'
    BY <1>4 DEF EmailDelivered, FlowState
  <1>5. ASSUME NEW t \in Tids, EmailRefused(t) PROVE TypeOK'
    BY <1>5 DEF EmailRefused, FlowState
  <1>6. ASSUME NEW t \in Tids, InitiateError(t) PROVE TypeOK'
    BY <1>6 DEF InitiateError, FlowState
  <1>7. ASSUME NEW r \in Requests, Lookup(r) PROVE TypeOK'
    BY <1>7 DEF Lookup, Awaiting
  <1>8. ASSUME NEW r \in Requests, LookupMissing(r) PROVE TypeOK'
    BY <1>8 DEF LookupMissing, Reply, Ended
  <1>9. ASSUME NEW r \in Requests, CheckActive(r) PROVE TypeOK'
    BY <1>9 DEF CheckActive, Awaiting
  <1>10. ASSUME NEW r \in Requests, CheckInactive(r) PROVE TypeOK'
    BY <1>10 DEF CheckInactive, Reply, Ended
  <1>11. ASSUME NEW r \in Requests, RefuseIncomplete(r) PROVE TypeOK'
    BY <1>11 DEF RefuseIncomplete, Reply, Ended
  <1>12. ASSUME NEW r \in Requests, Reject(r) PROVE TypeOK'
    <2>1. [seen[r] EXCEPT !.attempts = seen[r].attempts + 1] \in Row
      BY <1>12, SMTT(30) DEF Reject, Copies, Awaiting, Row
    <2> QED
      BY <1>12, <2>1 DEF Reject, Reply, CountFailure, Ended
  <1>12a. ASSUME NEW r \in Requests, RejectLast(r) PROVE TypeOK'
    <2>0. target[r] \in Tids
      BY <1>12a DEF RejectLast, Copies, Awaiting
    <2>1. exhausted' \in SUBSET Tids
      BY <1>12a DEF RejectLast, Copies, Awaiting
    <2>2. /\ pending' \in [Tids -> Row \cup {Nothing}]
          /\ failures' \in [Tids -> Nat]
      BY <1>12a, <2>0 DEF RejectLast, CountFailure
    <2> QED
      BY <1>12a, <2>1, <2>2 DEF RejectLast, Reply, Ended
  <1>13. ASSUME NEW r \in Requests, Accept(r) PROVE TypeOK'
    <2>1. /\ target[r] \in Tids /\ answer[r] \in Answer /\ checked[r] \in Nat
          /\ seen[r].payload \in Payloads
      BY <1>13 DEF Accept, Copies, Awaiting, Row
    <2>2. ledger' \in SUBSET Entry
      BY <1>13, <2>1 DEF Accept, Entry
    <2>3. pending' \in [Tids -> Row \cup {Nothing}]
      BY <1>13 DEF Accept
    <2> QED
      BY <1>13, <2>2, <2>3 DEF Accept, Reply, Ended
  <1>14. ASSUME NEW r \in Requests, VerifyError(r) PROVE TypeOK'
    BY <1>14 DEF VerifyError, Reply, Ended
  <1>15. ASSUME Tick PROVE TypeOK'
    BY <1>15 DEF Tick
  <1>16. ASSUME Crash PROVE TypeOK'
    BY <1>16 DEF Crash, Ended, FlowState
  <1>17. ASSUME UNCHANGED vars PROVE TypeOK'
    BY <1>17 DEF vars
  <1> QED
    BY <1>1, <1>2, <1>3, <1>4, <1>5, <1>6, <1>7, <1>8, <1>9, <1>10, <1>11,
       <1>12, <1>12a, <1>13, <1>14, <1>15, <1>16, <1>17 DEF Next, Initiate, Proceed

\* The terms of the stored rows and of the copies survive every step.
LEMMA RowsStep == Inv /\ [Next]_vars => UnbornUnwritten' /\ RowsIssued'
  <1> SUFFICES ASSUME Inv, [Next]_vars PROVE UnbornUnwritten' /\ RowsIssued'
    OBVIOUS
  <1> USE ConstantsAssumption
      DEF Inv, TypeOK, UnbornUnwritten, RowsIssued, handler, history, DeleteRow
  <1>1. ASSUME NEW t \in Tids, FreezeChallenge(t) PROVE UnbornUnwritten' /\ RowsIssued'
    BY <1>1 DEF FreezeChallenge, Freeze, Fresh, SameTerms
  <1>2. ASSUME NEW t \in Tids, FreezeOtp(t) PROVE UnbornUnwritten' /\ RowsIssued'
    BY <1>2 DEF FreezeOtp, Freeze, Fresh, SameTerms
  <1>3. ASSUME NEW t \in Tids, AutoApprove(t) PROVE UnbornUnwritten' /\ RowsIssued'
    BY <1>3 DEF AutoApprove, Fresh, SameTerms
  <1>4. ASSUME NEW t \in Tids, EmailDelivered(t) PROVE UnbornUnwritten' /\ RowsIssued'
    BY <1>4 DEF EmailDelivered, Fresh, SameTerms
  <1>5. ASSUME NEW t \in Tids, EmailRefused(t) PROVE UnbornUnwritten' /\ RowsIssued'
    BY <1>5 DEF EmailRefused, Fresh, SameTerms
  <1>6. ASSUME NEW t \in Tids, InitiateError(t) PROVE UnbornUnwritten' /\ RowsIssued'
    BY <1>6 DEF InitiateError, Fresh, SameTerms
  <1>7. ASSUME NEW r \in Requests, Lookup(r) PROVE UnbornUnwritten' /\ RowsIssued'
    BY <1>7 DEF Lookup, Fresh, SameTerms
  <1>8. ASSUME NEW r \in Requests, LookupMissing(r) PROVE UnbornUnwritten' /\ RowsIssued'
    BY <1>8 DEF LookupMissing, Reply, Fresh, SameTerms
  <1>9. ASSUME NEW r \in Requests, CheckActive(r) PROVE UnbornUnwritten' /\ RowsIssued'
    BY <1>9 DEF CheckActive
  <1>10. ASSUME NEW r \in Requests, CheckInactive(r) PROVE UnbornUnwritten' /\ RowsIssued'
    BY <1>10 DEF CheckInactive, Reply, Fresh, SameTerms
  <1>11. ASSUME NEW r \in Requests, RefuseIncomplete(r) PROVE UnbornUnwritten' /\ RowsIssued'
    BY <1>11 DEF RefuseIncomplete, Reply, Fresh, SameTerms
  <1>12. ASSUME NEW r \in Requests, Reject(r) PROVE UnbornUnwritten' /\ RowsIssued'
    <2>1. /\ issued' = issued /\ flow' = flow /\ target[r] \in Tids
      BY <1>12 DEF Reject, Copies, Awaiting
    <2>2. /\ seen[r] \in Row /\ SameTerms(seen[r], issued[target[r]])
      BY <1>12 DEF Reject, Copies, Awaiting
    <2>3. \A t \in Tids : pending'[t] # pending[t] =>
            pending[t] # Nothing /\ SameTerms(pending'[t], issued[t])
      BY <1>12, <2>1, <2>2 DEF Reject, RowGone, SameTerms, Row
    <2> QED
      BY <2>1, <2>3
  <1>12a. ASSUME NEW r \in Requests, RejectLast(r) PROVE UnbornUnwritten' /\ RowsIssued'
    BY <1>12a DEF RejectLast, SameTerms
  <1>13. ASSUME NEW r \in Requests, Accept(r) PROVE UnbornUnwritten' /\ RowsIssued'
    BY <1>13 DEF Accept, Reply, Fresh, SameTerms
  <1>14. ASSUME NEW r \in Requests, VerifyError(r) PROVE UnbornUnwritten' /\ RowsIssued'
    BY <1>14 DEF VerifyError, Reply, Fresh, SameTerms
  <1>15. ASSUME Tick PROVE UnbornUnwritten' /\ RowsIssued'
    BY <1>15 DEF Tick, Fresh, SameTerms
  <1>16. ASSUME Crash PROVE UnbornUnwritten' /\ RowsIssued'
    BY <1>16 DEF Crash, Fresh, SameTerms
  <1>17. ASSUME UNCHANGED vars PROVE UnbornUnwritten' /\ RowsIssued'
    BY <1>17 DEF vars, Fresh, SameTerms
  <1> QED
    BY <1>1, <1>2, <1>3, <1>4, <1>5, <1>6, <1>7, <1>8, <1>9, <1>10,
       <1>11, <1>12, <1>12a, <1>13, <1>14, <1>15, <1>16, <1>17 DEF Next, Initiate, Proceed

\* Handlers in flight keep a copy of the terms their payment was issued with.
LEMMA CopiesStep == Inv /\ [Next]_vars => Copies' /\ CheckedAlive'
  <1> SUFFICES ASSUME Inv, [Next]_vars PROVE Copies' /\ CheckedAlive'
    OBVIOUS
  <1> USE ConstantsAssumption
      DEF Inv, TypeOK, Copies, CheckedAlive, Awaiting, handler, history, DeleteRow, Expired
  <1>1. ASSUME NEW t \in Tids, FreezeChallenge(t) PROVE Copies' /\ CheckedAlive'
    BY <1>1 DEF FreezeChallenge, Freeze, Fresh, SameTerms
  <1>2. ASSUME NEW t \in Tids, FreezeOtp(t) PROVE Copies' /\ CheckedAlive'
    BY <1>2 DEF FreezeOtp, Freeze, Fresh, SameTerms
  <1>3. ASSUME NEW t \in Tids, AutoApprove(t) PROVE Copies' /\ CheckedAlive'
    BY <1>3 DEF AutoApprove, Fresh, SameTerms
  <1>4. ASSUME NEW t \in Tids, EmailDelivered(t) PROVE Copies' /\ CheckedAlive'
    BY <1>4 DEF EmailDelivered, Fresh, SameTerms
  <1>5. ASSUME NEW t \in Tids, EmailRefused(t) PROVE Copies' /\ CheckedAlive'
    BY <1>5 DEF EmailRefused, Fresh, SameTerms
  <1>6. ASSUME NEW t \in Tids, InitiateError(t) PROVE Copies' /\ CheckedAlive'
    BY <1>6 DEF InitiateError, Fresh, SameTerms
  <1>7. ASSUME NEW r \in Requests, Lookup(r) PROVE Copies' /\ CheckedAlive'
    <2>1. PICK t \in Tids, a \in Answers :
            /\ pending[t] # Nothing /\ Submittable(t)
            /\ target' = [target EXCEPT ![r] = t]
            /\ answer' = [answer EXCEPT ![r] = a]
            /\ seen' = [seen EXCEPT ![r] = pending[t]]
            /\ pc' = [pc EXCEPT ![r] = "found"]
      BY <1>7 DEF Lookup
    <2>2. /\ issued[t] # Nothing /\ pending[t] \in Row
          /\ SameTerms(pending[t], issued[t])
          /\ flow[t] = "403"
      BY <2>1 DEF RowsIssued, Submittable
    <2>3. issued' = issued /\ flow' = flow /\ checked' = checked
      BY <1>7 DEF Lookup
    <2> QED
      BY <2>1, <2>2, <2>3
  <1>8. ASSUME NEW r \in Requests, LookupMissing(r) PROVE Copies' /\ CheckedAlive'
    BY <1>8 DEF LookupMissing, Reply, Fresh, SameTerms
  <1>9. ASSUME NEW r \in Requests, CheckActive(r) PROVE Copies' /\ CheckedAlive'
    <2>1. seen[r].expires \in Nat /\ now < seen[r].expires
      BY <1>9 DEF CheckActive, Row
    <2> QED
      BY <1>9, <2>1 DEF CheckActive
  <1>10. ASSUME NEW r \in Requests, CheckInactive(r) PROVE Copies' /\ CheckedAlive'
    BY <1>10 DEF CheckInactive, Reply, Fresh, SameTerms
  <1>11. ASSUME NEW r \in Requests, RefuseIncomplete(r) PROVE Copies' /\ CheckedAlive'
    BY <1>11 DEF RefuseIncomplete, Reply, Fresh, SameTerms
  <1>12. ASSUME NEW r \in Requests, Reject(r) PROVE Copies' /\ CheckedAlive'
    BY <1>12 DEF Reject, Reply, Fresh, SameTerms
  <1>12a. ASSUME NEW r \in Requests, RejectLast(r) PROVE Copies' /\ CheckedAlive'
    BY <1>12a DEF RejectLast, Reply, SameTerms
  <1>13. ASSUME NEW r \in Requests, Accept(r) PROVE Copies' /\ CheckedAlive'
    BY <1>13 DEF Accept, Reply, Fresh, SameTerms
  <1>14. ASSUME NEW r \in Requests, VerifyError(r) PROVE Copies' /\ CheckedAlive'
    BY <1>14 DEF VerifyError, Reply, Fresh, SameTerms
  <1>15. ASSUME Tick PROVE Copies' /\ CheckedAlive'
    BY <1>15 DEF Tick, Fresh, SameTerms
  <1>16. ASSUME Crash PROVE Copies' /\ CheckedAlive'
    BY <1>16 DEF Crash, Fresh, SameTerms
  <1>17. ASSUME UNCHANGED vars PROVE Copies' /\ CheckedAlive'
    BY <1>17 DEF vars, Fresh, SameTerms
  <1> QED
    BY <1>1, <1>2, <1>3, <1>4, <1>5, <1>6, <1>7, <1>8, <1>9, <1>10,
       <1>11, <1>12, <1>12a, <1>13, <1>14, <1>15, <1>16, <1>17 DEF Next, Initiate, Proceed

\* The facts about the ledger, as one formula.
Book ==
    /\ LedgerAnswered
    /\ LedgerOrigin
    /\ SettledOnce
    /\ SettledNotFrozen
    /\ SettledAsFrozen
    /\ CheckedInTime

\* A payment being initiated has no ledger row: its ledger rows would be answered.
LEMMA FreshUnsettled ==
    ASSUME Inv, NEW t \in Tids, Fresh(t)
    PROVE  /\ ~Settled(t)
           /\ pending[t] = Nothing
           /\ issued[t] = Nothing
  BY DEF Inv, TypeOK, Fresh, Settled, LedgerAnswered, UnbornUnwritten

\* A step that leaves the ledger alone, issues nothing that is already in it,
\* changes no answered initiate and freezes nothing that is settled keeps Book.
LEMMA BookKept ==
    ASSUME Inv, ledger' = ledger,
           \A t \in Tids : Settled(t) =>
                /\ issued'[t] = issued[t]
                /\ flow'[t] = flow[t]
                /\ pending'[t] = Nothing
    PROVE  Book'
  BY DEF Inv, TypeOK, Book, Entry, Settled, LedgerAnswered, LedgerOrigin, SettledOnce,
         SettledNotFrozen, SettledAsFrozen, CheckedInTime, Proves

\* Every step keeps the ledger facts.
LEMMA BookStep == Inv /\ [Next]_vars => Book'
  <1> SUFFICES ASSUME Inv, [Next]_vars PROVE Book'
    OBVIOUS
  <1> USE ConstantsAssumption DEF handler, history, DeleteRow
  <1>a. \A t \in Tids : Settled(t) =>
            pending[t] = Nothing /\ flow[t] \in {"200", "403"}
    BY DEF Inv, Settled, LedgerAnswered, SettledNotFrozen
  <1>t. /\ pending \in [Tids -> Row \cup {Nothing}]
        /\ flow \in [Tids -> FlowState]
        /\ issued \in [Tids -> Row \cup {Nothing}]
    BY DEF Inv, TypeOK
  <1>1. ASSUME NEW t \in Tids, FreezeChallenge(t) PROVE Book'
    BY <1>1, <1>a, <1>t, FreshUnsettled, BookKept DEF FreezeChallenge, Freeze
  <1>2. ASSUME NEW t \in Tids, FreezeOtp(t) PROVE Book'
    BY <1>2, <1>a, <1>t, FreshUnsettled, BookKept DEF FreezeOtp, Freeze
  <1>3. ASSUME NEW t \in Tids, AutoApprove(t) PROVE Book'
    <2>1. ~Settled(t) /\ pending[t] = Nothing /\ issued[t] = Nothing
      BY <1>3, FreshUnsettled DEF AutoApprove
    <2>p. PICK p \in Payloads : ledger' = ledger \cup
            {[tid |-> t, payload |-> p, by |-> Nothing, answer |-> Nothing,
              checkedAt |-> now, settledAt |-> now]}
      BY <1>3 DEF AutoApprove
    <2> DEFINE e == [tid |-> t, payload |-> p, by |-> Nothing, answer |-> Nothing,
                     checkedAt |-> now, settledAt |-> now]
    <2>2. ledger' = ledger \cup {e} /\ e.tid = t /\ e.by = Nothing
      BY <2>p
    <2> HIDE DEF e
    <2>3. /\ flow' = [flow EXCEPT ![t] = "200"]
          /\ pending' = pending /\ issued' = issued
      BY <1>3 DEF AutoApprove
    <2>4. \A d \in ledger : d.tid # t /\ d.tid \in Tids
      BY <2>1 DEF Settled, Inv, TypeOK, Entry
    <2>5. LedgerAnswered' /\ LedgerOrigin'
      BY <1>t, <2>1, <2>2, <2>3, <2>4 DEF Inv, LedgerAnswered, LedgerOrigin
    <2>6. SettledOnce' /\ SettledNotFrozen'
      BY <2>1, <2>2, <2>3, <2>4 DEF Inv, SettledOnce, SettledNotFrozen
    <2>7. SettledAsFrozen' /\ CheckedInTime'
      BY <2>2, <2>3 DEF Inv, SettledAsFrozen, CheckedInTime, Proves
    <2> QED
      BY <2>5, <2>6, <2>7 DEF Book
  <1>4. ASSUME NEW t \in Tids, EmailDelivered(t) PROVE Book'
    BY <1>4, <1>a, <1>t, BookKept DEF EmailDelivered
  <1>5. ASSUME NEW t \in Tids, EmailRefused(t) PROVE Book'
    BY <1>5, <1>a, <1>t, BookKept DEF EmailRefused
  <1>6. ASSUME NEW t \in Tids, InitiateError(t) PROVE Book'
    BY <1>6, <1>a, <1>t, BookKept DEF InitiateError, Fresh
  <1>7. ASSUME NEW r \in Requests, Lookup(r) PROVE Book'
    BY <1>7, <1>a, BookKept DEF Lookup
  <1>8. ASSUME NEW r \in Requests, LookupMissing(r) PROVE Book'
    BY <1>8, <1>a, BookKept DEF LookupMissing
  <1>9. ASSUME NEW r \in Requests, CheckActive(r) PROVE Book'
    BY <1>9, <1>a, BookKept DEF CheckActive
  <1>10. ASSUME NEW r \in Requests, CheckInactive(r) PROVE Book'
    BY <1>10, <1>a, <1>t, BookKept DEF CheckInactive
  <1>11. ASSUME NEW r \in Requests, RefuseIncomplete(r) PROVE Book'
    BY <1>11, <1>a, BookKept DEF RefuseIncomplete
  <1>12. ASSUME NEW r \in Requests, Reject(r) PROVE Book'
    <2>1. \A t \in Tids : pending[t] = Nothing => pending'[t] = Nothing
      BY <1>12, <1>t DEF Reject, RowGone
    <2> QED
      BY <1>12, <1>a, <2>1, BookKept DEF Reject
  <1>12a. ASSUME NEW r \in Requests, RejectLast(r) PROVE Book'
    BY <1>12a, <1>a, <1>t, BookKept DEF RejectLast
  <1>13. ASSUME NEW r \in Requests, Accept(r) PROVE Book'
    <2> DEFINE t == target[r]
    <2>1. /\ t \in Tids /\ issued[t] # Nothing /\ flow[t] = "403"
          /\ SameTerms(seen[r], issued[t])
          /\ checked[r] < seen[r].expires
      BY <1>13 DEF Accept, Inv, Copies, CheckedAlive, Awaiting
    <2>2. CASE Settled(t)
      BY <1>13, <1>a, <2>2, BookKept DEF Accept
    <2>3. CASE ~Settled(t)
      <3> DEFINE e == [tid |-> t, payload |-> seen[r].payload, by |-> r,
                       answer |-> answer[r], checkedAt |-> checked[r],
                       settledAt |-> now]
      <3>1. /\ ledger' = ledger \cup {e}
            /\ e.tid = t /\ e.by = r /\ e.checkedAt = checked[r]
            /\ e.payload = seen[r].payload /\ e.answer = answer[r]
        BY <1>13, <2>3 DEF Accept
      <3> HIDE DEF e
      <3>2. /\ pending' = [pending EXCEPT ![t] = Nothing]
            /\ flow' = flow /\ issued' = issued
        BY <1>13, <2>3 DEF Accept
      <3>3. \A d \in ledger : d.tid # t /\ d.tid \in Tids
        BY <2>3 DEF Settled, Inv, TypeOK, Entry
      <3>4. Proves(e.answer, issued[t]) /\ e.payload = issued[t].payload
        BY <1>13, <2>1, <3>1 DEF Accept, Proves, SameTerms
      <3>5. e.by # Nothing /\ e.checkedAt < issued[t].expires
        BY <2>1, <3>1 DEF SameTerms
      <3>6. LedgerAnswered' /\ LedgerOrigin'
        BY <2>1, <3>1, <3>2, <3>3, <3>5 DEF Inv, LedgerAnswered, LedgerOrigin
      <3>7a. SettledOnce'
        BY <3>1, <3>3 DEF Inv, SettledOnce
      <3>7b. SettledNotFrozen'
        BY <1>t, <2>1, <3>1, <3>2, <3>3 DEF Inv, SettledNotFrozen
      <3>8. SettledAsFrozen'
        BY <2>1, <3>1, <3>2, <3>4 DEF Inv, SettledAsFrozen, Proves
      <3>9. CheckedInTime'
        BY <3>1, <3>2, <3>5 DEF Inv, CheckedInTime
      <3> QED
        BY <3>6, <3>7a, <3>7b, <3>8, <3>9 DEF Book
    <2> QED
      BY <2>2, <2>3
  <1>14. ASSUME NEW r \in Requests, VerifyError(r) PROVE Book'
    BY <1>14, <1>a, BookKept DEF VerifyError
  <1>15. ASSUME Tick PROVE Book'
    BY <1>15, <1>a, BookKept DEF Tick
  <1>16. ASSUME Crash PROVE Book'
    BY <1>16, <1>a, <1>t, BookKept DEF Crash
  <1>17. ASSUME UNCHANGED vars PROVE Book'
    BY <1>17, <1>a, BookKept DEF vars
  <1> QED
    BY <1>1, <1>2, <1>3, <1>4, <1>5, <1>6, <1>7, <1>8, <1>9, <1>10, <1>11,
       <1>12, <1>12a, <1>13, <1>14, <1>15, <1>16, <1>17 DEF Next, Initiate, Proceed

-----------------------------------------------------------------------------

\* The inductive invariant holds of every reachable state.
THEOREM Invariance == Spec => []Inv
  <1>1. Inv /\ [Next]_vars => Inv'
    BY TypeStep, RowsStep, CopiesStep, BookStep DEF Inv, Book
  <1> QED
    BY InitInv, <1>1, PTL DEF Spec

\* Type correctness, for all constants.
THEOREM TypeCorrect == Spec => []TypeOK
  <1>1. Inv => TypeOK
    BY DEF Inv
  <1> QED
    BY Invariance, <1>1, PTL

\* However verifications overlap, fail and crash, the ledger holds at most one
\* row per payment (transaction.py verify, models.py UNIQUE transaction_id).
THEOREM SettlesOnce == Spec => []SettledOnce
  <1>1. Inv => SettledOnce
    BY DEF Inv
  <1> QED
    BY Invariance, <1>1, PTL

\* A payment in the ledger is never still frozen: verify's insert and delete
\* commit together, and no stale write brings the row back.
THEOREM SettlesWhole == Spec => []SettledNotFrozen
  <1>1. Inv => SettledNotFrozen
    BY DEF Inv
  <1> QED
    BY Invariance, <1>1, PTL

\* A stepped-up ledger row has the frozen user and amount and was earned by a
\* proof of its own secret, stale copies and shared secrets notwithstanding.
THEOREM SettlesAsFrozen == Spec => []SettledAsFrozen
  <1>1. Inv => SettledAsFrozen
    BY DEF Inv
  <1> QED
    BY Invariance, <1>1, PTL

\* Nothing settles whose verification found it already expired.
THEOREM SettlesInTime == Spec => []CheckedInTime
  <1>1. Inv => CheckedInTime
    BY DEF Inv
  <1> QED
    BY Invariance, <1>1, PTL

\* No stale UPDATE or late commit ever brings a deleted frozen row back.
THEOREM NoRowReturns == Spec => NoResurrection
  <1>1. Inv /\ [Next]_vars =>
            [\A t \in Tids : issued[t] # Nothing /\ pending[t] = Nothing
                                => pending'[t] = Nothing]_vars
    <2> SUFFICES ASSUME Inv, [Next]_vars, NEW t \in Tids,
                        issued[t] # Nothing, pending[t] = Nothing
                 PROVE  pending'[t] = Nothing
      BY DEF vars
    <2>t. pending \in [Tids -> Row \cup {Nothing}] /\ flow[t] # "unborn"
      BY DEF Inv, TypeOK, UnbornUnwritten
    <2>1. ASSUME NEW u \in Tids, Initiate(u) PROVE pending'[t] = Nothing
      BY <2>1, <2>t DEF Initiate, FreezeChallenge, FreezeOtp, Freeze, Fresh, AutoApprove,
         EmailDelivered, EmailRefused, InitiateError, DeleteRow
    <2>2. ASSUME NEW r \in Requests, Lookup(r) \/ LookupMissing(r) \/ Proceed(r) \/ VerifyError(r)
          PROVE  pending'[t] = Nothing
      BY <2>2, <2>t DEF Lookup, LookupMissing, Proceed, CheckActive, CheckInactive,
         RefuseIncomplete, RejectLast, Reject, RowGone, Accept, VerifyError, DeleteRow
    <2>3. ASSUME Tick \/ Crash \/ UNCHANGED vars PROVE pending'[t] = Nothing
      BY <2>3 DEF Tick, Crash, vars
    <2> QED
      BY <2>1, <2>2, <2>3 DEF Next
  <1> QED
    BY Invariance, <1>1, PTL DEF Spec, NoResurrection

\* A payment whose code could not be delivered is gone and never settles, nor does
\* one whose initiate ended in an error.
THEOREM UndeliveredStays == Spec => []UndeliveredNeverSettles
  <1>1. Inv => UndeliveredNeverSettles
    BY DEF Inv, UndeliveredNeverSettles, RowsIssued, LedgerAnswered
  <1> QED
    BY Invariance, <1>1, PTL

\* A frozen payment leaves the table settled, expired, exhausted or undelivered:
\* no error path, refusal or crash drops a live one.
THEOREM NothingLost == Spec => NoSilentLoss
  <1>1. Inv /\ [Next]_vars =>
            [\A t \in Tids : pending[t] # Nothing /\ pending'[t] = Nothing =>
                \/ \E e \in ledger' : e.tid = t
                \/ pending[t].expires <= now
                \/ t \in exhausted'
                \/ flow'[t] = "503"]_vars
    <2> SUFFICES ASSUME Inv, [Next]_vars, NEW t \in Tids,
                        pending[t] # Nothing, pending'[t] = Nothing
                 PROVE  \/ \E e \in ledger' : e.tid = t
                        \/ pending[t].expires <= now
                        \/ t \in exhausted'
                        \/ flow'[t] = "503"
      BY DEF vars
    <2>t. /\ pending \in [Tids -> Row \cup {Nothing}] /\ flow \in [Tids -> FlowState]
          /\ pending' # pending
      BY DEF Inv, TypeOK
    <2>1. ASSUME NEW u \in Tids, FreezeChallenge(u) \/ FreezeOtp(u) PROVE FALSE
      BY <2>1, <2>t, ConstantsAssumption
      DEF FreezeChallenge, FreezeOtp, Freeze, Row, PendingStatus, Fresh, Inv, RowsIssued
    <2>2. ASSUME NEW u \in Tids, EmailRefused(u) PROVE flow'[t] = "503"
      BY <2>2, <2>t DEF EmailRefused, DeleteRow
    <2>3. ASSUME NEW r \in Requests, CheckInactive(r) PROVE pending[t].expires <= now
      BY <2>3, <2>t DEF CheckInactive, DeleteRow, Expired, FirstSharing, Sharing
    <2>4. ASSUME NEW r \in Requests, RejectLast(r) PROVE t \in exhausted'
      BY <2>4, <2>t DEF RejectLast, DeleteRow
    <2>5. ASSUME NEW r \in Requests, Reject(r) PROVE FALSE
      <3>1. seen[r] \in Row /\ target[r] \in Tids
        BY <2>5 DEF Reject, Inv, Copies, Awaiting
      <3>2. [seen[r] EXCEPT !.attempts = seen[r].attempts + 1] \in Row
        BY <3>1 DEF Row
      <3> QED
        BY <2>5, <2>t, <3>1, <3>2, ConstantsAssumption DEF Reject, RowGone
    <2>6. ASSUME NEW r \in Requests, Accept(r) PROVE \E e \in ledger' : e.tid = t
      <3>1. t = target[r] /\ ~Settled(t)
        BY <2>6, <2>t DEF Accept, DeleteRow
      <3>2. PICK e : e = [tid |-> t, payload |-> seen[r].payload, by |-> r,
                          answer |-> answer[r], checkedAt |-> checked[r], settledAt |-> now]
        OBVIOUS
      <3>3. e \in ledger' /\ e.tid = t
        BY <2>6, <3>1, <3>2 DEF Accept
      <3> QED
        BY <3>3
    <2>7. ASSUME NEW u \in Tids, AutoApprove(u) \/ EmailDelivered(u) \/ InitiateError(u)
          PROVE  FALSE
      BY <2>7, <2>t DEF AutoApprove, EmailDelivered, InitiateError
    <2>8. ASSUME NEW r \in Requests, \/ Lookup(r) \/ LookupMissing(r) \/ CheckActive(r)
                                     \/ RefuseIncomplete(r) \/ VerifyError(r)
          PROVE  FALSE
      BY <2>8, <2>t DEF Lookup, LookupMissing, CheckActive, RefuseIncomplete, VerifyError
    <2>9. ASSUME Tick \/ Crash \/ UNCHANGED vars
          PROVE  FALSE
      BY <2>9, <2>t DEF Tick, Crash, vars
    <2> QED
      BY <2>1, <2>2, <2>3, <2>4, <2>5, <2>6, <2>7, <2>8, <2>9 DEF Next, Initiate, Proceed
  <1> QED
    BY Invariance, <1>1, PTL DEF Spec, NoSilentLoss

\* A payment is called expired or inactive only when it is, or when an earlier one
\* shares its secret: a copy that is merely stale is never the reason.
THEOREM RefusalsFounded == Spec => RefusedOnlyIfDeadOrShared
  <1>1. Inv /\ [Next]_vars =>
            [\A r \in Requests : pc[r] = "found" /\ pc'[r] = "inactive" =>
                LET t == target[r]
                IN  \/ pending[t] = Nothing
                    \/ pending[t].expires <= now
                    \/ \E u \in Tids : u < t /\ u \in Sharing(seen[r].secret)]_vars
    <2> SUFFICES ASSUME Inv, [Next]_vars, NEW r \in Requests,
                        pc[r] = "found", pc'[r] = "inactive", pending[target[r]] # Nothing
                 PROVE  \/ pending[target[r]].expires <= now
                        \/ \E u \in Tids : u < target[r] /\ u \in Sharing(seen[r].secret)
      BY DEF vars
    <2>t. /\ pc \in [Requests -> Awaiting \cup Ended]
          /\ target[r] \in Tids /\ target[r] \in Sharing(seen[r].secret)
      BY DEF Inv, TypeOK, Copies, RowsIssued, SameTerms, Awaiting, Sharing
    <2>1. CheckInactive(r)
      <3>1. ASSUME NEW q \in Requests, Lookup(q) \/ LookupMissing(q) \/ Proceed(q)
                                         \/ VerifyError(q), q # r
            PROVE  FALSE
        BY <3>1, <2>t
        DEF Lookup, LookupMissing, Proceed, CheckActive, CheckInactive, RefuseIncomplete,
            RejectLast, Reject, Accept, VerifyError, Reply
      <3>2. ASSUME Lookup(r) \/ LookupMissing(r) \/ VerifyError(r) \/ CheckActive(r)
                   \/ RefuseIncomplete(r) \/ RejectLast(r) \/ Reject(r) \/ Accept(r)
            PROVE  FALSE
        BY <3>2, <2>t
        DEF Lookup, LookupMissing, CheckActive, RefuseIncomplete, RejectLast, Reject, Accept,
            VerifyError, Reply, Ended
      <3>3. ASSUME Tick \/ Crash \/ UNCHANGED vars \/ \E u \in Tids : Initiate(u)
            PROVE  FALSE
        BY <3>3, <2>t
        DEF Tick, Crash, vars, handler, Initiate, FreezeChallenge, FreezeOtp, AutoApprove,
            EmailDelivered, EmailRefused, InitiateError, Awaiting
      <3> QED
        BY <3>1, <3>2, <3>3 DEF Next, Proceed
    <2>2. PICK u \in Tids : /\ FirstSharing(seen[r].secret, u)
                            /\ Expired(pending[u]) \/ u # target[r]
      BY <2>1, <2>t DEF CheckInactive, NoneActive, FirstSharing, Sharing
    <2>3. u <= target[r] /\ u \in Sharing(seen[r].secret)
      BY <2>2, <2>t DEF FirstSharing
    <2>4. CASE u = target[r]
      BY <2>2, <2>4 DEF Expired
    <2>5. CASE u # target[r]
      <3>1. u < target[r]
        BY <2>3, <2>5, <2>t, ConstantsAssumption DEF Tids
      <3> QED BY <3>1, <2>3
    <2> QED BY <2>4, <2>5
  <1> QED
    BY Invariance, <1>1, PTL DEF Spec, RefusedOnlyIfDeadOrShared

-----------------------------------------------------------------------------

\* The handlers implement the abstract settlement: each step freezes terms,
\* settles them, settles outright, or changes nothing a reader of the ledger
\* sees.
THEOREM Refinement == Spec => ImplementsSettlement
  <1> DEFINE terms == [t \in Tids |-> IF issued[t] = Nothing THEN Nothing
                                                       ELSE issued[t].payload]
             book == {[tid |-> e.tid, payload |-> e.payload] : e \in ledger}
  <1>1. Init => Contract!Init
    BY DEF Init, Contract!Init
  <1>2. Inv /\ [Next]_vars => [Contract!Next]_<<terms, book>>
    <2> SUFFICES ASSUME Inv, [Next]_vars
                 PROVE  [Contract!Next]_<<terms, book>>
      OBVIOUS
    <2> USE ConstantsAssumption DEF handler, history
    <2>t. /\ issued \in [Tids -> Row \cup {Nothing}]
          /\ ledger \in SUBSET Entry
      BY DEF Inv, TypeOK
    <2>e. ASSUME NEW t \in Tids, ~Settled(t) PROVE ~Contract!Entered(t)
      BY <2>e DEF Settled, Contract!Entered
    <2>1. ASSUME NEW t \in Tids, Fresh(t), UNCHANGED ledger,
                 NEW row \in Row, issued' = [issued EXCEPT ![t] = row]
          PROVE  Contract!Next
      <3>1. ~Contract!Entered(t) /\ issued[t] = Nothing
        BY <2>1, <2>e, FreshUnsettled
      <3>2. terms' = [terms EXCEPT ![t] = row.payload] /\ terms[t] = Nothing
        BY <2>1, <2>t, <3>1
      <3>3. Contract!FreezeTerms(t)
        BY <2>1, <3>1, <3>2 DEF Contract!FreezeTerms, Row
      <3> QED
        BY <3>3 DEF Contract!Next
    <2>2. ASSUME NEW t \in Tids, FreezeChallenge(t) \/ FreezeOtp(t)
          PROVE  Contract!Next
      <3>1. PICK p \in Payloads, secret \in Otps \cup Phrases, st \in PendingStatus :
              issued' = [issued EXCEPT ![t] =
                [payload |-> p, status |-> st, secret |-> secret,
                 expires |-> now + TTL, attempts |-> 0]]
        BY <2>2 DEF FreezeChallenge, FreezeOtp, Freeze, PendingStatus
      <3>2. [payload |-> p, status |-> st, secret |-> secret,
             expires |-> now + TTL, attempts |-> 0] \in Row
        BY DEF Row, Inv, TypeOK
      <3> QED
        BY <2>1, <2>2, <3>1, <3>2 DEF FreezeChallenge, FreezeOtp
    <2>3. ASSUME NEW t \in Tids, AutoApprove(t) PROVE Contract!Next
      <3>1. ~Contract!Entered(t) /\ issued[t] = Nothing /\ UNCHANGED issued
        BY <2>3, <2>e, FreshUnsettled DEF AutoApprove
      <3>p. PICK p \in Payloads : ledger' = ledger \cup
              {[tid |-> t, payload |-> p, by |-> Nothing, answer |-> Nothing,
                checkedAt |-> now, settledAt |-> now]}
        BY <2>3 DEF AutoApprove
      <3> DEFINE e == [tid |-> t, payload |-> p, by |-> Nothing, answer |-> Nothing,
                       checkedAt |-> now, settledAt |-> now]
      <3>2. ledger' = ledger \cup {e} /\ e.tid = t /\ e.payload = p
        BY <3>p
      <3> HIDE DEF e
      <3>3. book' = book \cup {[tid |-> t, payload |-> p]}
        BY <3>2
      <3>4. Contract!SettleOutright(t)
        BY <3>1, <3>3 DEF Contract!SettleOutright, Contract!Enter
      <3> QED
        BY <3>4 DEF Contract!Next
    <2>4. ASSUME NEW r \in Requests, NEW t \in Tids, t = target[r],
                 Accept(r), ~Settled(t)
          PROVE  Contract!Next
      <3>1. /\ issued[t] # Nothing /\ issued[t] \in Row
            /\ seen[r].payload = issued[t].payload
        BY <2>4, <2>t DEF Accept, Inv, Copies, Awaiting, SameTerms
      <3> DEFINE e == [tid |-> t, payload |-> seen[r].payload, by |-> r,
                       answer |-> answer[r], checkedAt |-> checked[r],
                       settledAt |-> now]
      <3>2. ledger' = ledger \cup {e} /\ e.tid = t /\ e.payload = seen[r].payload
        BY <2>4 DEF Accept
      <3> HIDE DEF e
      <3>3. book' = book \cup {[tid |-> t, payload |-> issued[t].payload]}
        BY <3>1, <3>2
      <3>4. UNCHANGED issued /\ terms[t] = issued[t].payload /\ terms[t] # Nothing
        BY <2>4, <3>1 DEF Accept, Row
      <3>5. Contract!SettleFrozen(t)
        BY <2>4, <2>e, <3>1, <3>3, <3>4 DEF Contract!SettleFrozen, Contract!Enter
      <3> QED
        BY <3>5 DEF Contract!Next
    <2>5. ASSUME UNCHANGED <<issued, ledger>> PROVE UNCHANGED <<terms, book>>
      BY <2>5
    <2>6. ASSUME NEW t \in Tids, EmailDelivered(t) \/ EmailRefused(t) \/ InitiateError(t)
          PROVE  UNCHANGED <<issued, ledger>>
      BY <2>6 DEF EmailDelivered, EmailRefused, InitiateError
    <2>7. ASSUME NEW r \in Requests,
                 \/ Lookup(r) \/ LookupMissing(r) \/ CheckActive(r) \/ CheckInactive(r)
                 \/ RefuseIncomplete(r) \/ RejectLast(r) \/ Reject(r) \/ VerifyError(r)
                 \/ Accept(r) /\ Settled(target[r])
          PROVE  UNCHANGED <<issued, ledger>>
      BY <2>7 DEF Lookup, LookupMissing, CheckActive, CheckInactive, RefuseIncomplete,
         RejectLast, Reject, VerifyError, Accept
    <2>8. ASSUME Tick \/ Crash \/ UNCHANGED vars PROVE UNCHANGED <<issued, ledger>>
      BY <2>8 DEF Tick, Crash, vars
    <2>9. ASSUME NEW r \in Requests, Accept(r), ~Settled(target[r])
          PROVE  Contract!Next
      BY <2>4, <2>9 DEF Accept, Inv, Copies, Awaiting
    <2> QED
      BY <2>2, <2>3, <2>5, <2>6, <2>7, <2>8, <2>9 DEF Next, Initiate, Proceed
  <1> QED
    BY Invariance, <1>1, <1>2, PTL DEF Spec, ImplementsSettlement, Contract!Spec

-----------------------------------------------------------------------------
(* One verification at a time                                              *)

\* A verification in flight holds the row as it is stored.
HoldsRow(r) ==
    pc[r] \in Awaiting => pending[target[r]] = seen[r] /\ flow[target[r]] # "emailing"

\* The stored counter counts the failures, and stays under the limit.
CountsFailures ==
    \A t \in Tids :
        /\ failures[t] <= MaxAttempts
        /\ flow[t] = "unborn" => failures[t] = 0
        /\ pending[t] # Nothing => failures[t] = pending[t].attempts
                                     /\ failures[t] < MaxAttempts

\* An exhausted payment is gone.
Gone ==
    \A t \in exhausted : flow[t] # "unborn" /\ pending[t] = Nothing /\ ~Settled(t)

Serial(r) == HoldsRow(r) /\ CountsFailures /\ Gone

\* A lone verifier keeps its copy, the stored row and the failures in step.
LEMMA SerialStep ==
    ASSUME NEW r \in Requests, Requests = {r}, Inv, Inv', Serial(r), [Next]_vars
    PROVE  Serial(r)'
  <1> USE ConstantsAssumption DEF handler, history
  <1>t. /\ pending \in [Tids -> Row \cup {Nothing}]
        /\ flow \in [Tids -> FlowState]
        /\ failures \in [Tids -> Nat]
        /\ pc \in [Requests -> Awaiting \cup Ended]
        /\ target \in [Requests -> Tids \cup {Nothing}]
        /\ seen \in [Requests -> Row \cup {Nothing}]
        /\ exhausted \in SUBSET Tids
        /\ now \in Nat
        /\ \A t \in Tids : flow[t] = "unborn" => pending[t] = Nothing
        /\ pc[r] \in Awaiting => target[r] \in Tids /\ seen[r] \in Row
    BY DEF Inv, TypeOK, UnbornUnwritten, Copies
  <1>a. ASSUME NEW t \in Tids, FreezeChallenge(t) \/ FreezeOtp(t) PROVE Serial(r)'
    <2>1. PICK row \in Row : row.attempts = 0 /\ pending' = [pending EXCEPT ![t] = row]
      BY <1>a, <1>t DEF FreezeChallenge, FreezeOtp, Freeze, Row, PendingStatus
    <2>2. /\ Fresh(t) /\ UNCHANGED <<ledger, handler, failures, exhausted>>
          /\ flow' \in {[flow EXCEPT ![t] = "403"], [flow EXCEPT ![t] = "emailing"]}
      BY <1>a DEF FreezeChallenge, FreezeOtp
    <2>3. HoldsRow(r)'
      BY <2>1, <2>2, <1>t DEF Serial, HoldsRow, Fresh
    <2>4. CountsFailures'
      BY <2>1, <2>2, <1>t DEF Serial, CountsFailures, Fresh, Row
    <2>5. Gone'
      BY <2>1, <2>2, <1>t DEF Serial, Gone, Fresh, Settled
    <2> QED
      BY <2>3, <2>4, <2>5 DEF Serial
  <1>b. ASSUME NEW t \in Tids, EmailDelivered(t) \/ EmailRefused(t) \/ InitiateError(t)
        PROVE  Serial(r)'
    <2>1. /\ UNCHANGED <<ledger, handler, failures, exhausted>>
          /\ flow[t] \in {"emailing", "unborn"}
          /\ \/ pending' = pending
             \/ flow[t] = "emailing" /\ pending' = [pending EXCEPT ![t] = Nothing]
          /\ \/ flow' = [flow EXCEPT ![t] = "403"]
             \/ flow' = [flow EXCEPT ![t] = "500"]
             \/ flow' = [flow EXCEPT ![t] = "503"]
      BY <1>b DEF EmailDelivered, EmailRefused, InitiateError, DeleteRow, Fresh
    <2>2. HoldsRow(r)'
      BY <2>1, <1>t DEF Serial, HoldsRow
    <2>3. CountsFailures'
      BY <2>1, <1>t DEF Serial, CountsFailures, Row
    <2>4. Gone'
      BY <2>1, <1>t DEF Serial, Gone, Settled
    <2> QED
      BY <2>2, <2>3, <2>4 DEF Serial
  <1>c. ASSUME NEW t \in Tids, AutoApprove(t) PROVE Serial(r)'
    <2>1. /\ flow[t] = "unborn" /\ UNCHANGED <<pending, handler, failures, exhausted>>
          /\ flow' = [flow EXCEPT ![t] = "200"]
          /\ \A u \in Tids : Settled(u)' => Settled(u) \/ u = t
      BY <1>c DEF AutoApprove, Fresh, Settled
    <2> QED
      BY <2>1, <1>t DEF Serial, HoldsRow, CountsFailures, Gone
  <1>d. ASSUME Lookup(r) PROVE Serial(r)'
    <2>1. PICK t \in Tids : /\ Submittable(t) /\ pending[t] # Nothing
                           /\ target' = [target EXCEPT ![r] = t]
                           /\ seen' = [seen EXCEPT ![r] = pending[t]]
      BY <1>d DEF Lookup
    <2>2. UNCHANGED <<pending, ledger, flow, failures, exhausted>>
      BY <1>d DEF Lookup
    <2>3. HoldsRow(r)'
      BY <2>1, <2>2, <1>t DEF HoldsRow, Submittable
    <2> QED
      BY <2>2, <2>3 DEF Serial, CountsFailures, Gone, Settled
  <1>e. ASSUME CheckActive(r) PROVE Serial(r)'
    BY <1>e, <1>t DEF CheckActive, Serial, HoldsRow, CountsFailures, Gone, Settled, Awaiting
  <1>f. ASSUME LookupMissing(r) \/ RefuseIncomplete(r) \/ VerifyError(r) \/ CheckInactive(r)
        PROVE  Serial(r)'
    <2>1. /\ pc'[r] \notin Awaiting
          /\ UNCHANGED <<ledger, flow, failures, exhausted>>
          /\ pending' = pending \/ \E t \in Tids : pending' = [pending EXCEPT ![t] = Nothing]
      BY <1>f, <1>t DEF LookupMissing, RefuseIncomplete, VerifyError, CheckInactive, DeleteRow,
         Reply, Awaiting
    <2> QED
      BY <2>1, <1>t DEF Serial, HoldsRow, CountsFailures, Gone, Settled
  <1>g. ASSUME RejectLast(r) PROVE Serial(r)'
    <2> DEFINE t == target[r]
    <2>1. /\ t \in Tids /\ pending[t] = seen[r] /\ seen[r] \in Row /\ pending[t] # Nothing
          /\ flow[t] # "unborn" /\ ~Settled(t)
      BY <1>g, <1>t DEF RejectLast, Serial, HoldsRow, Awaiting, Inv, SettledNotFrozen, Settled
    <2>2. /\ pc'[r] \notin Awaiting /\ UNCHANGED <<ledger, flow>>
          /\ pending' = [pending EXCEPT ![t] = Nothing]
          /\ failures' = [failures EXCEPT ![t] = @ + 1]
          /\ exhausted' = exhausted \cup {t}
      BY <1>g, <1>t, <2>1 DEF RejectLast, DeleteRow, CountFailure, Reply, Awaiting
    <2> HIDE DEF t
    <2>3. CountsFailures'
      BY <2>1, <2>2, <1>t DEF Serial, CountsFailures
    <2>4. Gone'
      BY <2>1, <2>2, <1>t DEF Serial, Gone, Settled
    <2> QED
      BY <2>2, <2>3, <2>4 DEF Serial, HoldsRow
  <1>h. ASSUME Reject(r) PROVE Serial(r)'
    <2> DEFINE t == target[r]
               row == [seen[r] EXCEPT !.attempts = seen[r].attempts + 1]
    <2>1. /\ t \in Tids /\ pending[t] = seen[r] /\ seen[r] \in Row /\ pending[t] # Nothing
          /\ flow[t] # "unborn" /\ pc'[r] \notin Awaiting
          /\ UNCHANGED <<ledger, flow, exhausted>>
      BY <1>h, <1>t DEF Reject, Serial, HoldsRow, Awaiting, Reply
    <2>2. /\ seen[r].attempts + 1 < MaxAttempts
          /\ pending' = [pending EXCEPT ![t] = row]
          /\ failures' = [failures EXCEPT ![t] = @ + 1]
      BY <1>h, <1>t, <2>1 DEF Reject, Spent, RowGone, CountFailure, Row
    <2>3. row \in Row /\ row.attempts = seen[r].attempts + 1
      BY <2>1 DEF Row
    <2>4. t \notin exhausted
      BY <2>1 DEF Serial, Gone
    <2> HIDE DEF t, row
    <2>5. CountsFailures'
      BY <2>1, <2>2, <2>3, <1>t DEF Serial, CountsFailures
    <2>6. Gone'
      BY <2>1, <2>2, <2>4, <1>t DEF Serial, Gone, Settled
    <2> QED
      BY <2>1, <2>5, <2>6 DEF Serial, HoldsRow
  <1>i. ASSUME Accept(r) PROVE Serial(r)'
    <2> DEFINE t == target[r]
    <2>1. /\ t \in Tids /\ pending[t] # Nothing /\ pc'[r] \notin Awaiting
          /\ UNCHANGED <<flow, failures, exhausted>> /\ t \notin exhausted
      BY <1>i, <1>t DEF Accept, Serial, HoldsRow, Gone, Awaiting, Reply
    <2>2. /\ pending' = pending \/ pending' = [pending EXCEPT ![t] = Nothing]
          /\ \A u \in Tids : Settled(u)' => Settled(u) \/ u = t
      BY <1>i DEF Accept, Settled, DeleteRow
    <2> HIDE DEF t
    <2> QED
      BY <2>1, <2>2, <1>t DEF Serial, HoldsRow, CountsFailures, Gone
  <1>j. ASSUME Tick \/ UNCHANGED vars PROVE Serial(r)'
    BY <1>j DEF Tick, vars, Serial, HoldsRow, CountsFailures, Gone, Settled
  <1>k. ASSUME Crash PROVE Serial(r)'
    <2>1. /\ pc'[r] \notin Awaiting /\ UNCHANGED <<pending, ledger, failures, exhausted>>
          /\ \A t \in Tids : flow'[t] = "unborn" <=> flow[t] = "unborn"
      BY <1>k, <1>t DEF Crash, Awaiting
    <2> QED
      BY <2>1, <1>t DEF Serial, HoldsRow, CountsFailures, Gone, Settled
  <1>l. ASSUME NEW t \in Tids, Initiate(t) PROVE Serial(r)'
    BY <1>l, <1>a, <1>b, <1>c DEF Initiate
  <1>m. ASSUME Proceed(r) PROVE Serial(r)'
    BY <1>m, <1>e, <1>f, <1>g, <1>h, <1>i DEF Proceed
  <1>n. ASSUME Next PROVE Serial(r)'
    BY <1>n, <1>d, <1>f, <1>j, <1>k, <1>l, <1>m DEF Next
  <1> QED
    BY <1>j, <1>n

\* With one verification at a time the retry limit holds and is final: only
\* overlapping verifications can take more wrong answers than the limit, or
\* settle a payment another has exhausted.
THEOREM SerialLimit ==
    ASSUME NEW r, Requests = {r}
    PROVE  Spec => [](AttemptsBounded /\ ExhaustedNeverSettles)
  <1>r. r \in Requests
    OBVIOUS
  <1>1. Init => Serial(r)
    BY <1>r, ConstantsAssumption
    DEF Init, Serial, HoldsRow, CountsFailures, Gone, Awaiting
  <1>2. Inv /\ Inv' /\ Serial(r) /\ [Next]_vars => Serial(r)'
    BY <1>r, SerialStep
  <1>3. Inv /\ Serial(r) => AttemptsBounded /\ ExhaustedNeverSettles
    BY DEF Serial, CountsFailures, Gone, Settled, AttemptsBounded, ExhaustedNeverSettles,
       Inv, TypeOK
  <1> QED
    BY Invariance, <1>1, <1>2, <1>3, PTL DEF Spec

-----------------------------------------------------------------------------
(* From the upload to the ledger                                           *)

\* What is proved of the pipeline alone, read for the uploads of Payments.
Alone == INSTANCE InitiateProofs WITH Requests <- Uploads, ledger <- Outright, frozen <- Frozen

\* The pipeline in front of the tables and the pipeline alone are the same.
LEMMA SameStart == Pipe!Init <=> Alone!Init
  BY DEF Pipe!Init, Alone!Init

LEMMA SameSteps == Pipe!Next <=> Alone!Next
  BY DEF Pipe!Next, Pipe!Proceed, Pipe!Upload, Pipe!UploadEmpty, Pipe!UploadUnwritten, Pipe!Screen,
     Pipe!Transcribe, Pipe!Identify, Pipe!Assess, Pipe!Approve, Pipe!Challenge, Pipe!FreezeOtp,
     Pipe!Freeze, Pipe!Mailed, Pipe!MailRefused, Pipe!Withdraw, Pipe!Undeliver, Pipe!Block,
     Pipe!Error, Pipe!Audit, Pipe!Crash, Pipe!Go, Pipe!Reply, Pipe!Unlink, Pipe!Run, Pipe!tables,
     Pipe!Replayed, Pipe!Large, Pipe!Branch, Pipe!Tier, Pipe!Fallible, Pipe!InFlight, Pipe!Audited,
     Alone!Next, Alone!Proceed, Alone!Upload, Alone!UploadEmpty, Alone!UploadUnwritten, Alone!Screen,
     Alone!Transcribe, Alone!Identify, Alone!Assess, Alone!Approve, Alone!Challenge, Alone!FreezeOtp,
     Alone!Freeze, Alone!Mailed, Alone!MailRefused, Alone!Withdraw, Alone!Undeliver, Alone!Block,
     Alone!Error, Alone!Audit, Alone!Crash, Alone!Go, Alone!Reply, Alone!Unlink, Alone!Run,
     Alone!tables, Alone!Replayed, Alone!Large, Alone!Branch, Alone!Tier, Alone!Fallible,
     Alone!InFlight, Alone!Audited

\* The tables and the verifications do in Payments what they do alone.
THEOREM Settling == PaymentsSpec => Spec
  <1>1. PaymentsInit => Init
    BY DEF PaymentsInit
  <1>2. [PaymentsNext]_paymentsVars => [Next]_vars
    BY DEF PaymentsNext, paymentsVars, Quiet, ApproveOutright, FreezeForChallenge, FreezeForOtp,
       Conclude, Verify, Stop, Pass, Next, Initiate
  <1> QED
    BY <1>1, <1>2, PTL DEF PaymentsSpec, Spec

\* A verification and the clock change nothing the pipeline has written.
LEMMA Unseen ==
    ASSUME NEW r \in Requests, Verify(r)
    PROVE  /\ issued' = issued /\ flow' = flow
           /\ ledger \subseteq ledger' /\ \A e \in ledger' \ ledger : e.by = r
           /\ Outright' = Outright /\ Frozen' = Frozen
  <1>1. issued' = issued /\ flow' = flow /\ payment' = payment
    BY DEF Verify, Lookup, LookupMissing, Proceed, CheckActive, CheckInactive, RefuseIncomplete,
       RejectLast, Reject, Accept, VerifyError, history
  <1>2. ledger \subseteq ledger' /\ \A e \in ledger' \ ledger : e.by = r
    <2>1. CASE Accept(r)
      BY <2>1 DEF Accept
    <2>2. CASE ledger' = ledger
      BY <2>2
    <2> QED
      BY <2>1, <2>2 DEF Verify, Lookup, LookupMissing, Proceed, CheckActive, CheckInactive,
         RefuseIncomplete, RejectLast, Reject, VerifyError
  <1>3. Outright' = Outright
    <2>1. r # Nothing
      BY ConstantsAssumption
    <2> QED
      BY <1>1, <1>2, <2>1 DEF Outright
  <1>4. Frozen' = Frozen
    BY <1>1 DEF Frozen
  <1> QED
    BY <1>1, <1>2, <1>3, <1>4

\* Every step of Payments is one of the pipeline or one it does not see.
LEMMA PipeStep == [PaymentsNext]_paymentsVars => [Pipe!Next]_(Pipe!vars)
  <1> SUFFICES ASSUME [PaymentsNext]_paymentsVars PROVE [Pipe!Next]_(Pipe!vars)
    OBVIOUS
  <1>1. ASSUME NEW u \in Uploads,
               \/ Quiet(u) \/ ApproveOutright(u) \/ FreezeForChallenge(u)
               \/ FreezeForOtp(u) \/ Conclude(u)
        PROVE  Pipe!Next
    BY <1>1 DEF Quiet, ApproveOutright, FreezeForChallenge, FreezeForOtp, Conclude,
       Pipe!Next, Pipe!Proceed
  <1>2. ASSUME NEW r \in Requests, Verify(r) PROVE UNCHANGED Pipe!vars
    <2>1. UNCHANGED pipeline
      BY <1>2 DEF Verify
    <2> QED
      BY <1>2, <2>1, Unseen DEF pipeline, Pipe!vars
  <1>3. CASE Pass
    BY <1>3 DEF Pass, Tick, history, pipeline, Pipe!vars, Outright, Frozen
  <1>4. CASE Stop
    BY <1>4 DEF Stop, Pipe!Next
  <1>5. CASE UNCHANGED paymentsVars
    BY <1>5 DEF paymentsVars, vars, pipeline, Pipe!vars, Outright, Frozen
  <1> QED
    BY <1>1, <1>2, <1>3, <1>4, <1>5 DEF PaymentsNext

\* The pipeline runs in Payments as it does alone.
THEOREM Piping == PaymentsSpec => Pipe!Spec
  <1>1. PaymentsInit => Pipe!Init
    BY DEF PaymentsInit
  <1> QED
    BY <1>1, PipeStep, PTL DEF PaymentsSpec, Pipe!Spec

LEMMA AloneAssumed == Signals \subseteq Alone!Signal /\ Nothing \notin Alone!Signal
  BY PaymentsAssumption DEF Pipe!Signal, Pipe!Tiers, Alone!Signal, Alone!Tiers

LEMMA AloneSteps == PaymentsSpec => Alone!Spec
  <1>1. PaymentsInit => Alone!Init
    BY SameStart DEF PaymentsInit
  <1>2. [PaymentsNext]_paymentsVars => [Alone!Next]_(Alone!vars)
    BY PipeStep, SameSteps DEF Pipe!vars, Alone!vars
  <1> QED
    BY <1>1, <1>2, PTL DEF PaymentsSpec, Alone!Spec

\* So what the pipeline's stages tell of its findings holds in front of the tables.
LEMMA AloneInvariance == PaymentsSpec => []Alone!Inv
  <1>1. Alone!Spec => []Alone!Inv
    BY AloneAssumed, Alone!Invariance
  <1> QED
    BY <1>1, AloneSteps, PTL

\* Each payment the pipeline has begun to write is one upload's.
Paired ==
    /\ payment \in [Uploads -> Tids \cup {Nothing}]
    /\ \A u, v \in Uploads : payment[u] # Nothing /\ payment[u] = payment[v] => u = v
    /\ \A t \in Tids : flow[t] # "unborn" => \E u \in Uploads : payment[u] = t

Mailing == {"mailing", "withdrawing"}

\* The pipeline's view of an upload and the tables' view of its payment agree.
InStep(u) ==
    IF payment[u] = Nothing THEN stage[u] \notin Mailing
    ELSE \/ stage[u] \in Mailing /\ flow[payment[u]] = "emailing"
         \/ /\ stage[u] \in {"auditing", "done", "lost"}
            /\ flow[payment[u]] # "unborn" /\ flow[payment[u]] = reply[u]
         \/ stage[u] = "lost" /\ reply[u] = "none" /\ flow[payment[u]] = "lost"

\* The row an upload has frozen has its amount, at the level its findings call for.
CalledFor(u) ==
    payment[u] # Nothing =>
        /\ signal[u] # Nothing
        /\ issued[payment[u]] # Nothing =>
            /\ Worth(issued[payment[u]].payload, signal[u])
            /\ Pipe!Matrix!Calls(signal[u], IF issued[payment[u]].status = "PENDING_OTP"
                                            THEN "otp" ELSE "challenge")

\* The row an upload has settled has its amount.
Bought(u) ==
    \A e \in ledger : e.tid = payment[u] /\ e.by = Nothing => Worth(e.payload, signal[u])

Linked == Paired /\ \A u \in Uploads : InStep(u) /\ CalledFor(u) /\ Bought(u)

LEMMA InitLinked == PaymentsInit => Linked
  BY ConstantsAssumption
  DEF PaymentsInit, Init, Pipe!Init, Linked, Paired, InStep, CalledFor, Bought, Mailing

\* The pipeline's types.
LEMMA Typed ==
    ASSUME Alone!Inv
    PROVE  /\ stage \in [Uploads -> Pipe!InFlight \cup {"idle", "done", "lost"}]
           /\ signal \in [Uploads -> Signals \cup {Nothing}]
           /\ reply \in [Uploads -> {"none", "200", "401", "403", "404", "422", "500", "503"}]
  BY DEF Alone!Inv, Alone!TypeOK, Alone!InFlight, Alone!Fallible, Pipe!InFlight, Pipe!Fallible

\* A step that touches no table moves an upload within its side of the tables.
LEMMA QuietLinked ==
    ASSUME Inv, Alone!Inv, Linked, NEW u \in Uploads, Quiet(u)
    PROVE  Linked'
  <1>1. UNCHANGED <<vars, payment>>
    BY DEF Quiet
  <1>2. /\ flow' = flow /\ issued' = issued /\ ledger' = ledger /\ payment' = payment
    BY <1>1 DEF vars
  <1>t. /\ stage \in [Uploads -> Pipe!InFlight \cup {"idle", "done", "lost"}]
        /\ signal \in [Uploads -> Signals \cup {Nothing}]
        /\ reply \in [Uploads -> {"none", "200", "401", "403", "404", "422", "500", "503"}]
    BY Typed
  <1>3. \A v \in Uploads : v # u =>
            stage'[v] = stage[v] /\ signal'[v] = signal[v] /\ reply'[v] = reply[v]
    BY <1>t DEF Quiet, Pipe!Upload, Pipe!UploadEmpty, Pipe!UploadUnwritten, Pipe!Screen,
       Pipe!Transcribe, Pipe!Identify, Pipe!Assess, Pipe!MailRefused, Pipe!Block, Pipe!Audit,
       Pipe!Error, Pipe!Go, Pipe!Reply, Pipe!tables
  <1>4. stage[u] \in Mailing \cup {"auditing", "done", "lost"} =>
            /\ signal'[u] = signal[u] /\ reply'[u] = reply[u]
            /\ \/ stage[u] \in Mailing /\ stage'[u] \in Mailing
               \/ stage[u] = "auditing" /\ stage'[u] = "done"
    BY <1>t DEF Quiet, Pipe!Upload, Pipe!UploadEmpty, Pipe!UploadUnwritten, Pipe!Screen,
       Pipe!Transcribe, Pipe!Identify, Pipe!Assess, Pipe!MailRefused, Pipe!Block, Pipe!Audit,
       Pipe!Error, Pipe!Go, Pipe!tables, Pipe!Fallible, Mailing
  <1>5. stage[u] \notin Mailing => stage'[u] \notin Mailing
    BY <1>t DEF Quiet, Pipe!Upload, Pipe!UploadEmpty, Pipe!UploadUnwritten, Pipe!Screen,
       Pipe!Transcribe, Pipe!Identify, Pipe!Assess, Pipe!MailRefused, Pipe!Block, Pipe!Audit,
       Pipe!Error, Pipe!Go, Pipe!Reply, Pipe!Audited, Pipe!Branch, Mailing
  <1>6. Paired'
    BY <1>2 DEF Linked, Paired
  <1>7. ASSUME NEW v \in Uploads PROVE (InStep(v) /\ CalledFor(v) /\ Bought(v))'
    <2>1. InStep(v) /\ CalledFor(v) /\ Bought(v) /\ payment[v] \in Tids \cup {Nothing}
      BY DEF Linked, Paired
    <2>2. InStep(v)'
      BY <2>1, <1>2, <1>3, <1>4, <1>5 DEF InStep, Mailing
    <2>3. CalledFor(v)'
      BY <2>1, <1>2, <1>3, <1>4 DEF InStep, CalledFor
    <2>4. payment[v] # Nothing => signal'[v] = signal[v]
      BY <2>1, <1>3, <1>4 DEF InStep
    <2>5. \A e \in ledger : e.tid # Nothing
      BY ConstantsAssumption DEF Inv, TypeOK, Entry
    <2>6. Bought(v)'
      BY <2>1, <2>4, <2>5, <1>2 DEF Bought, Worth
    <2> QED
      BY <2>2, <2>3, <2>6
  <1> QED
    BY <1>6, <1>7 DEF Linked

\* What a write makes of the links: the payment is new, and so is its upload.
LEMMA TakesPaired ==
    ASSUME Inv, Linked, NEW u \in Uploads, payment[u] = Nothing,
           NEW t \in Tids, Fresh(t), Takes(u, t),
           NEW c, c # "unborn", flow' = [flow EXCEPT ![t] = c]
    PROVE  /\ Paired'
           /\ payment'[u] = t /\ flow'[t] = c
           /\ \A v \in Uploads : v # u =>
                payment'[v] = payment[v] /\ payment[v] # t
                /\ (payment[v] # Nothing => flow'[payment[v]] = flow[payment[v]])
  <1>1. payment \in [Uploads -> Tids \cup {Nothing}] /\ flow \in [Tids -> FlowState]
    BY DEF Linked, Paired, Inv, TypeOK
  <1>2. flow[t] = "unborn" /\ t # Nothing
    BY ConstantsAssumption DEF Fresh
  <1>3. ASSUME NEW v \in Uploads, payment[v] = t PROVE FALSE
    <2>1. InStep(v)
      BY DEF Linked
    <2> QED
      BY <1>2, <1>3, <2>1 DEF InStep
  <1>4. \A v \in Uploads : v # u =>
            payment'[v] = payment[v] /\ payment[v] # t
            /\ (payment[v] # Nothing => flow'[payment[v]] = flow[payment[v]])
    BY <1>1, <1>3 DEF Takes
  <1>5. payment'[u] = t /\ flow'[t] = c
    BY <1>1 DEF Takes
  <1>6. payment' \in [Uploads -> Tids \cup {Nothing}]
    BY <1>1 DEF Takes
  <1>7. \A v, w \in Uploads : payment'[v] # Nothing /\ payment'[v] = payment'[w] => v = w
    BY <1>4, <1>5 DEF Linked, Paired
  <1>8. ASSUME NEW x \in Tids, flow'[x] # "unborn" PROVE \E v \in Uploads : payment'[v] = x
    <2>1. CASE x = t
      BY <1>5, <2>1
    <2>2. CASE x # t
      <3>1. flow[x] # "unborn"
        BY <1>1, <1>8, <2>2
      <3>2. PICK v \in Uploads : payment[v] = x
        BY <3>1 DEF Linked, Paired
      <3>3. v # u
        BY <3>2, ConstantsAssumption
      <3> QED
        BY <1>4, <3>2, <3>3
    <2> QED
      BY <2>1, <2>2
  <1> QED
    BY <1>4, <1>5, <1>6, <1>7, <1>8 DEF Paired

\* An upload in a branch that writes has written nothing yet.
LEMMA WritesOnce ==
    ASSUME Linked, NEW u \in Uploads, stage[u] \in {"approving", "challenging", "freezing"}
    PROVE  payment[u] = Nothing
  <1>1. InStep(u)
    BY DEF Linked
  <1> QED
    BY <1>1 DEF InStep, Mailing

\* Uploads that a write does not concern stay linked.
LEMMA OthersLinked ==
    ASSUME Inv, NEW v \in Uploads, InStep(v), CalledFor(v), Bought(v),
           payment'[v] = payment[v],
           stage'[v] = stage[v], signal'[v] = signal[v], reply'[v] = reply[v],
           payment[v] # Nothing => /\ flow'[payment[v]] = flow[payment[v]]
                                   /\ issued'[payment[v]] = issued[payment[v]],
           \A e \in ledger' : e \in ledger \/ e.by # Nothing \/ e.tid # payment[v]
    PROVE  (InStep(v) /\ CalledFor(v) /\ Bought(v))'
  <1>1. InStep(v)'
    BY DEF InStep, Mailing
  <1>2. CalledFor(v)'
    BY DEF CalledFor, Worth
  <1>3. Bought(v)'
    BY DEF Bought, Worth
  <1> QED
    BY <1>1, <1>2, <1>3

LEMMA ApproveLinked ==
    ASSUME Inv, Alone!Inv, Linked, NEW u \in Uploads, ApproveOutright(u)
    PROVE  Linked'
  <1>1. PICK t \in Tids : /\ AutoApprove(t) /\ Takes(u, t) /\ Pipe!Approve(u)
                          /\ \A e \in ledger' : e.tid = t => Worth(e.payload, signal[u])
    BY DEF ApproveOutright
  <1>t. /\ stage \in [Uploads -> Pipe!InFlight \cup {"idle", "done", "lost"}]
        /\ signal \in [Uploads -> Signals \cup {Nothing}]
        /\ reply \in [Uploads -> {"none", "200", "401", "403", "404", "422", "500", "503"}]
    BY Typed
  <1>2. /\ Fresh(t) /\ flow' = [flow EXCEPT ![t] = "200"] /\ issued' = issued
        /\ \A e \in ledger' : e \in ledger \/ e.tid = t
    BY <1>1 DEF AutoApprove, history
  <1>3. /\ stage[u] = "approving" /\ signal' = signal
        /\ stage' = [stage EXCEPT ![u] = "done"] /\ reply' = [reply EXCEPT ![u] = "200"]
    BY <1>1 DEF Pipe!Approve, Pipe!Reply, Pipe!Go, Pipe!Audited
  <1>4. payment[u] = Nothing
    BY <1>3, WritesOnce
  <1>5. /\ Paired'
        /\ payment'[u] = t /\ flow'[t] = "200"
        /\ \A v \in Uploads : v # u =>
             payment'[v] = payment[v] /\ payment[v] # t
             /\ (payment[v] # Nothing => flow'[payment[v]] = flow[payment[v]])
    <2>1. Fresh(t) /\ Takes(u, t) /\ flow' = [flow EXCEPT ![t] = "200"]
      BY <1>1, <1>2
    <2>2. "200" # "unborn"
      OBVIOUS
    <2> QED BY <1>4, <2>1, <2>2, TakesPaired, ZenonT(60)
  <1>6. ASSUME NEW v \in Uploads, v # u PROVE (InStep(v) /\ CalledFor(v) /\ Bought(v))'
    <2>1. InStep(v) /\ CalledFor(v) /\ Bought(v)
      BY DEF Linked
    <2> QED
      BY <1>t, <1>2, <1>3, <1>5, <1>6, <2>1, OthersLinked
  <1>7. (InStep(u) /\ CalledFor(u) /\ Bought(u))'
    <2>1. t # Nothing /\ issued[t] = Nothing /\ signal[u] # Nothing
      <3>1. signal[u] # Nothing
        BY <1>3 DEF Alone!Inv, Alone!Sound, Alone!Known, Alone!InFlight, Alone!Fallible
      <3> QED
        BY <1>2, <3>1, FreshUnsettled, ConstantsAssumption
    <2>2. InStep(u)'
      BY <1>t, <1>3, <1>5, <2>1 DEF InStep
    <2>3. CalledFor(u)'
      BY <1>2, <1>3, <1>5, <2>1 DEF CalledFor
    <2>4. Bought(u)'
      BY <1>1, <1>3, <1>5 DEF Bought
    <2> QED
      BY <2>2, <2>3, <2>4
  <1> QED
    BY <1>5, <1>6, <1>7 DEF Linked

\* A frozen row carries the upload's amount at the level its findings call for.
LEMMA FrozenLinked ==
    ASSUME Inv, Linked, NEW u \in Uploads, stage[u] \in {"challenging", "freezing"},
           signal[u] # Nothing, signal' = signal,
           NEW t \in Tids, Fresh(t), Takes(u, t), ledger' = ledger,
           NEW c, c # "unborn", flow' = [flow EXCEPT ![t] = c],
           NEW st \in PendingStatus, NEW secret, Freeze(t, st, secret),
           Pipe!Matrix!Calls(signal[u], IF st = "PENDING_OTP" THEN "otp" ELSE "challenge"),
           Worth(issued'[t].payload, signal[u]),
           \A v \in Uploads : v # u => stage'[v] = stage[v] /\ reply'[v] = reply[v],
           \/ stage'[u] \in Mailing /\ c = "emailing"
           \/ stage'[u] \in {"auditing", "done", "lost"} /\ reply'[u] = c
    PROVE  Linked'
  <1>1. issued \in [Tids -> Row \cup {Nothing}] /\ t # Nothing
    BY ConstantsAssumption DEF Inv, TypeOK
  <1>2. PICK p \in Payloads :
            issued' = [issued EXCEPT ![t] = [payload |-> p, status |-> st, secret |-> secret,
                                             expires |-> now + TTL, attempts |-> 0]]
    BY DEF Freeze
  <1>3. issued'[t].status = st /\ \A x \in Tids : x # t => issued'[x] = issued[x]
    BY <1>1, <1>2
  <1>4. payment[u] = Nothing
    BY WritesOnce
  <1>5. /\ Paired'
        /\ payment'[u] = t /\ flow'[t] = c
        /\ \A v \in Uploads : v # u =>
             payment'[v] = payment[v] /\ payment[v] # t
             /\ (payment[v] # Nothing => flow'[payment[v]] = flow[payment[v]])
    BY <1>4, TakesPaired
  <1>6. ASSUME NEW v \in Uploads, v # u PROVE (InStep(v) /\ CalledFor(v) /\ Bought(v))'
    <2>1. InStep(v) /\ CalledFor(v) /\ Bought(v) /\ payment[v] \in Tids \cup {Nothing}
      BY DEF Linked, Paired
    <2>2. payment[v] # Nothing => issued'[payment[v]] = issued[payment[v]]
      BY <1>3, <1>5, <1>6, <2>1
    <2> QED
      BY <1>5, <1>6, <2>1, <2>2, OthersLinked
  <1>7. (InStep(u) /\ CalledFor(u) /\ Bought(u))'
    <2>1. InStep(u)'
      BY <1>1, <1>5 DEF InStep
    <2>2. CalledFor(u)'
      BY <1>3, <1>5 DEF CalledFor
    <2>3. ~Settled(t)
      BY FreshUnsettled
    <2>4. Bought(u)'
      BY <1>5, <2>3 DEF Bought, Settled
    <2> QED
      BY <2>1, <2>2, <2>4
  <1> QED
    BY <1>5, <1>6, <1>7 DEF Linked

LEMMA FreezesLinked ==
    ASSUME Inv, Alone!Inv, Linked, NEW u \in Uploads, FreezeForChallenge(u) \/ FreezeForOtp(u)
    PROVE  Linked'
  <1>t. /\ stage \in [Uploads -> Pipe!InFlight \cup {"idle", "done", "lost"}]
        /\ signal \in [Uploads -> Signals \cup {Nothing}]
        /\ reply \in [Uploads -> {"none", "200", "401", "403", "404", "422", "500", "503"}]
    BY Typed
  <1>s. Alone!Sound(u)
    BY DEF Alone!Inv
  <1>1. CASE FreezeForChallenge(u)
    <2>1. PICK t \in Tids : /\ FreezeChallenge(t) /\ Takes(u, t) /\ Pipe!Challenge(u)
                            /\ Worth(issued'[t].payload, signal[u])
      BY <1>1 DEF FreezeForChallenge
    <2>2. PICK secret \in Phrases : Freeze(t, "PENDING_CHALLENGE", secret)
      BY <2>1 DEF FreezeChallenge
    <2>3. /\ stage[u] = "challenging" /\ signal' = signal
          /\ stage' = [stage EXCEPT ![u] = "auditing"] /\ reply' = [reply EXCEPT ![u] = "403"]
      BY <2>1 DEF Pipe!Challenge, Pipe!Reply, Pipe!Go, Pipe!Audited
    <2>4. Alone!Matrix!Calls(signal[u], "challenge") /\ signal[u] # Nothing
      BY <1>s, <2>3 DEF Alone!Sound, Alone!Passed, Alone!Known, Alone!InFlight, Alone!Fallible
    <2>5. Pipe!Matrix!Calls(signal[u], "challenge")
      BY <2>4 DEF Alone!Matrix!Calls, Alone!Matrix!AgentDecides, Alone!Matrix!Trusted,
         Pipe!Matrix!Calls, Pipe!Matrix!AgentDecides, Pipe!Matrix!Trusted
    <2>6. Fresh(t) /\ flow' = [flow EXCEPT ![t] = "403"] /\ ledger' = ledger
      BY <2>1 DEF FreezeChallenge
    <2> QED
      BY <1>t, <2>1, <2>2, <2>3, <2>4, <2>5, <2>6, FrozenLinked DEF PendingStatus
  <1>2. CASE FreezeForOtp(u)
    <2>1. PICK t \in Tids : /\ FreezeOtp(t) /\ Takes(u, t) /\ Pipe!FreezeOtp(u)
                            /\ Worth(issued'[t].payload, signal[u])
      BY <1>2 DEF FreezeForOtp
    <2>2. PICK secret \in Otps : Freeze(t, "PENDING_OTP", secret)
      BY <2>1 DEF FreezeOtp
    <2>3. /\ stage[u] = "freezing" /\ signal' = signal
          /\ stage' = [stage EXCEPT ![u] = "mailing"] /\ reply' = reply
      BY <2>1 DEF Pipe!FreezeOtp, Pipe!Go
    <2>4. Alone!Matrix!Calls(signal[u], "otp") /\ signal[u] # Nothing
      BY <1>s, <2>3 DEF Alone!Sound, Alone!Passed, Alone!Known, Alone!InFlight, Alone!Fallible
    <2>5. Pipe!Matrix!Calls(signal[u], "otp")
      BY <2>4 DEF Alone!Matrix!Calls, Alone!Matrix!AgentDecides, Alone!Matrix!Trusted,
         Pipe!Matrix!Calls, Pipe!Matrix!AgentDecides, Pipe!Matrix!Trusted
    <2>6. Fresh(t) /\ flow' = [flow EXCEPT ![t] = "emailing"] /\ ledger' = ledger
      BY <2>1 DEF FreezeOtp
    <2>7. stage'[u] = "mailing" /\ \A v \in Uploads : v # u => stage'[v] = stage[v] /\ reply'[v] = reply[v]
      BY <1>t, <2>3
    <2> QED
      BY <2>1, <2>2, <2>3, <2>4, <2>5, <2>6, <2>7, FrozenLinked DEF PendingStatus, Mailing
  <1> QED
    BY <1>1, <1>2

\* The delivery's outcome is the same for both.
LEMMA ConcludeLinked ==
    ASSUME Inv, Alone!Inv, Linked, NEW u \in Uploads, Conclude(u)
    PROVE  Linked'
  <1>t. /\ stage \in [Uploads -> Pipe!InFlight \cup {"idle", "done", "lost"}]
        /\ signal \in [Uploads -> Signals \cup {Nothing}]
        /\ reply \in [Uploads -> {"none", "200", "401", "403", "404", "422", "500", "503"}]
        /\ flow \in [Tids -> FlowState]
        /\ payment \in [Uploads -> Tids \cup {Nothing}]
    BY Typed DEF Inv, TypeOK, Linked, Paired
  <1>1. PICK t \in Tids : /\ payment[u] = t /\ UNCHANGED payment
                          /\ \/ EmailDelivered(t) /\ Pipe!Mailed(u)
                             \/ EmailRefused(t) /\ Pipe!Undeliver(u)
                             \/ InitiateError(t) /\ Pipe!Error(u)
    BY DEF Conclude
  <1>2. PICK c \in {"403", "503", "500"} :
            /\ flow' = [flow EXCEPT ![t] = c] /\ reply' = [reply EXCEPT ![u] = c]
            /\ issued' = issued /\ ledger' = ledger /\ signal' = signal
            /\ stage' = [stage EXCEPT ![u] = IF c = "403" THEN "auditing" ELSE "done"]
    BY <1>1 DEF EmailDelivered, EmailRefused, InitiateError, history, Pipe!Mailed,
       Pipe!Undeliver, Pipe!Error, Pipe!Reply, Pipe!Go, Pipe!Audited
  <1>3. t # Nothing /\ payment' = payment
    BY <1>1, ConstantsAssumption
  <1>4. flow[t] # "unborn"
    <2>1. InStep(u)
      BY DEF Linked
    <2> QED
      BY <1>1, <1>3, <2>1 DEF InStep
  <1>5. Paired'
    BY <1>t, <1>2, <1>3, <1>4 DEF Linked, Paired
  <1>6. ASSUME NEW v \in Uploads, v # u PROVE (InStep(v) /\ CalledFor(v) /\ Bought(v))'
    <2>1. InStep(v) /\ CalledFor(v) /\ Bought(v) /\ payment[v] # t
      BY <1>1, <1>3, <1>6 DEF Linked, Paired
    <2>2. payment[v] # Nothing => flow'[payment[v]] = flow[payment[v]]
      BY <1>t, <1>2, <2>1
    <2> QED
      BY <1>t, <1>2, <1>3, <1>6, <2>1, <2>2, OthersLinked
  <1>7. (InStep(u) /\ CalledFor(u) /\ Bought(u))'
    <2>1. InStep(u) /\ CalledFor(u) /\ Bought(u)
      BY DEF Linked
    <2>2. InStep(u)'
      BY <1>t, <1>1, <1>2, <1>3 DEF InStep
    <2> QED
      BY <2>1, <2>2, <1>2, <1>3 DEF CalledFor, Bought, Worth
  <1> QED
    BY <1>5, <1>6, <1>7 DEF Linked

\* A verification and the clock leave every upload as it was; the end of the worker
\* ends both sides of a delivery.
LEMMA RestLinked ==
    ASSUME Inv, Alone!Inv, Linked,
           \/ \E r \in Requests : Verify(r)
           \/ Pass \/ Stop \/ UNCHANGED paymentsVars
    PROVE  Linked'
  <1>1. ASSUME UNCHANGED <<pipeline, payment, flow, issued>>,
               \A e \in ledger' : e \in ledger \/ e.by # Nothing
        PROVE  Linked'
    <2>1. Paired'
      BY <1>1 DEF Linked, Paired
    <2>2. ASSUME NEW v \in Uploads PROVE (InStep(v) /\ CalledFor(v) /\ Bought(v))'
      <3>1. InStep(v) /\ CalledFor(v) /\ Bought(v)
        BY DEF Linked
      <3> QED
        BY <1>1, <3>1, OthersLinked DEF pipeline
    <2> QED
      BY <2>1, <2>2 DEF Linked
  <1>2. ASSUME NEW r \in Requests, Verify(r) PROVE Linked'
    <2>1. /\ issued' = issued /\ flow' = flow
          /\ \A e \in ledger' \ ledger : e.by = r
      BY <1>2, Unseen
    <2>2. UNCHANGED <<pipeline, payment>> /\ r # Nothing
      BY <1>2, ConstantsAssumption DEF Verify
    <2> QED
      BY <2>1, <2>2, <1>1
  <1>3. CASE Pass \/ UNCHANGED paymentsVars
    BY <1>3, <1>1 DEF Pass, Tick, history, paymentsVars, vars
  <1>4. CASE Stop
    <2>t. /\ stage \in [Uploads -> Pipe!InFlight \cup {"idle", "done", "lost"}]
          /\ flow \in [Tids -> FlowState]
          /\ payment \in [Uploads -> Tids \cup {Nothing}]
      BY Typed DEF Inv, TypeOK, Linked, Paired
    <2>1. /\ payment' = payment /\ issued' = issued /\ ledger' = ledger
          /\ signal' = signal /\ reply' = reply
          /\ flow' = [t \in Tids |-> IF flow[t] = "emailing" THEN "lost" ELSE flow[t]]
          /\ stage' = [u \in Uploads |->
                          IF stage[u] \in Pipe!InFlight THEN "lost" ELSE stage[u]]
      BY <1>4 DEF Stop, Crash, history, Pipe!Crash
    <2>2. Paired'
      BY <2>t, <2>1 DEF Linked, Paired
    <2>3. ASSUME NEW v \in Uploads PROVE (InStep(v) /\ CalledFor(v) /\ Bought(v))'
      <3>1. InStep(v) /\ CalledFor(v) /\ Bought(v)
        BY DEF Linked
      <3>2. reply[v] = "none" \/ stage[v] \notin Mailing
        BY DEF Alone!Inv, Alone!Sound, Alone!Written, Alone!Fallible, Mailing
      <3>3. ASSUME payment[v] = Nothing PROVE InStep(v)'
        BY <2>t, <2>1, <3>1, <3>3 DEF InStep, Mailing
      <3>4. ASSUME payment[v] \in Tids, stage[v] \in Mailing, flow[payment[v]] = "emailing"
            PROVE  InStep(v)'
        BY <2>t, <2>1, <3>2, <3>4, ConstantsAssumption
        DEF InStep, Mailing, Pipe!InFlight, Pipe!Fallible
      <3>5. ASSUME payment[v] \in Tids, stage[v] \in {"auditing", "done", "lost"},
                   flow[payment[v]] # "unborn", flow[payment[v]] = reply[v]
            PROVE  InStep(v)'
        <4>1. flow[payment[v]] # "emailing"
          BY <3>5, Typed
        <4> QED
          BY <2>t, <2>1, <3>5, <4>1, ConstantsAssumption DEF InStep, Mailing
      <3>6. ASSUME payment[v] \in Tids, stage[v] = "lost", reply[v] = "none",
                   flow[payment[v]] = "lost"
            PROVE  InStep(v)'
        BY <2>t, <2>1, <3>6, ConstantsAssumption DEF InStep, Pipe!InFlight, Pipe!Fallible
      <3>7. InStep(v)'
        BY <2>t, <3>1, <3>3, <3>4, <3>5, <3>6 DEF InStep
      <3> QED
        BY <2>1, <3>1, <3>7 DEF CalledFor, Bought, Worth
    <2> QED
      BY <2>2, <2>3 DEF Linked
  <1> QED
    BY <1>2, <1>3, <1>4

\* Pipeline and tables stay linked: a payment is one upload's, at the amount and the
\* level its findings call for, and what its client was told is what StepUp takes it
\* to have been told.
THEOREM HandledTogether == PaymentsSpec => []Linked
  <1>1. Inv /\ Alone!Inv /\ Linked /\ [PaymentsNext]_paymentsVars => Linked'
    BY QuietLinked, ApproveLinked, FreezesLinked, ConcludeLinked, RestLinked DEF PaymentsNext
  <1>2. PaymentsSpec => []Inv
    BY Settling, Invariance, PTL
  <1> QED
    BY <1>1, <1>2, InitLinked, AloneInvariance, PTL DEF PaymentsSpec

\* Whatever is paid was approved or proved as the risk matrix calls for, at the amount
\* that was heard, however uploads and verifications overlap, fail and crash.
THEOREM NothingPaidUnassessed == PaymentsSpec => []PaidAsAssessed
  <1>1. Inv /\ Alone!Inv /\ Linked => PaidAsAssessed
    <2> SUFFICES ASSUME Inv, Alone!Inv, Linked, NEW e \in ledger
                 PROVE  \E u \in Uploads :
        /\ payment[u] = e.tid
        /\ ~signal[u].replay /\ signal[u].voice = "known"
        /\ Worth(e.payload, signal[u])
        /\ IF e.by = Nothing
           THEN /\ Pipe!Matrix!Calls(signal[u], "approved")
                /\ ran[u] = {"whisper", "speechbrain", "ollama"}
           ELSE \/ /\ Pipe!Matrix!Calls(signal[u], "otp")
                   /\ e.answer.otp = issued[e.tid].secret
                \/ /\ Pipe!Matrix!Calls(signal[u], "challenge")
                   /\ e.answer.live /\ issued[e.tid].secret \in e.answer.said
      BY DEF PaidAsAssessed
    <2>1. e.tid \in Tids /\ e.tid # Nothing /\ flow[e.tid] # "unborn"
      BY ConstantsAssumption DEF Inv, TypeOK, Entry, LedgerAnswered
    <2>2. PICK u \in Uploads : payment[u] = e.tid
      BY <2>1 DEF Linked, Paired
    <2>3. CalledFor(u) /\ Bought(u)
      BY DEF Linked
    <2>4. CASE e.by = Nothing
      <3>1. u \in Outright
        BY <2>2, <2>4 DEF Outright
      <3>2. Alone!Matrix!Calls(signal[u], "approved") /\ ran[u] = {"whisper", "speechbrain", "ollama"}
        BY <3>1 DEF Alone!Inv, Alone!Sound, Alone!TrustFirst
      <3>3. /\ Pipe!Matrix!Calls(signal[u], "approved")
            /\ ~signal[u].replay /\ signal[u].voice = "known"
        BY <3>2 DEF Alone!Matrix!Calls, Alone!Matrix!AgentDecides, Alone!Matrix!Trusted,
           Pipe!Matrix!Calls, Pipe!Matrix!AgentDecides, Pipe!Matrix!Trusted
      <3>4. Worth(e.payload, signal[u])
        BY <2>2, <2>3, <2>4 DEF Bought
      <3> QED
        BY <2>2, <2>4, <3>2, <3>3, <3>4
    <2>5. CASE e.by # Nothing
      <3>1. /\ issued[e.tid] # Nothing
            /\ e.payload = issued[e.tid].payload
            /\ IF issued[e.tid].status = "PENDING_OTP"
               THEN e.answer.otp = issued[e.tid].secret
               ELSE e.answer.live /\ issued[e.tid].secret \in e.answer.said
        BY <2>5 DEF Inv, SettledAsFrozen
      <3>2. /\ Worth(e.payload, signal[u])
            /\ Pipe!Matrix!Calls(signal[u], IF issued[e.tid].status = "PENDING_OTP"
                                            THEN "otp" ELSE "challenge")
        BY <2>1, <2>2, <2>3, <3>1 DEF CalledFor
      <3>3. ~signal[u].replay /\ signal[u].voice = "known"
        BY <3>2 DEF Pipe!Matrix!Calls, Pipe!Matrix!AgentDecides, Pipe!Matrix!Trusted
      <3> QED
        BY <2>2, <2>5, <3>1, <3>2, <3>3
    <2> QED
      BY <2>4, <2>5
  <1>2. PaymentsSpec => []Inv
    BY Settling, Invariance, PTL
  <1> QED
    BY <1>1, <1>2, HandledTogether, AloneInvariance, PTL

\* Whatever the agent says of it, 500 rupees or more take the phrase and a live face.
THEOREM LargeTakesFace == PaymentsSpec => []FaceForLarge
  <1>1. PaidAsAssessed => FaceForLarge
    BY DEF PaidAsAssessed, FaceForLarge, Worth, Pipe!Matrix!Calls, Pipe!Matrix!AgentDecides
  <1> QED
    BY <1>1, NothingPaidUnassessed, PTL

\* Each half keeps its promise beside the other: the uploads implement the risk
\* matrix while verifications settle what they froze, and the tables implement the
\* settlement while uploads come in.
THEOREM BothHalves == PaymentsSpec => ImplementsSettlement /\ Pipe!ImplementsMatrix
  <1>1. Alone!Spec => Alone!ImplementsMatrix
    BY AloneAssumed, Alone!Refinement
  <1>2. Alone!Matrix!Init => Pipe!Matrix!Init
    BY DEF Alone!Matrix!Init, Pipe!Matrix!Init, Alone!Verdict, Pipe!Verdict
  <1>3. Alone!Matrix!Next => Pipe!Matrix!Next
    BY DEF Alone!Matrix!Next, Alone!Matrix!Arrive, Alone!Matrix!Decide, Alone!Matrix!Refuse,
       Alone!Matrix!Calls, Alone!Matrix!AgentDecides, Alone!Matrix!Trusted, Alone!Verdict,
       Pipe!Matrix!Next, Pipe!Matrix!Arrive, Pipe!Matrix!Decide, Pipe!Matrix!Refuse,
       Pipe!Matrix!Calls, Pipe!Matrix!AgentDecides, Pipe!Matrix!Trusted, Pipe!Verdict
  <1>4. Alone!ImplementsMatrix => Pipe!ImplementsMatrix
    BY <1>2, <1>3, PTL DEF Alone!ImplementsMatrix, Alone!Matrix!Spec, Pipe!ImplementsMatrix,
       Pipe!Matrix!Spec, Alone!Verdict, Pipe!Verdict
  <1> QED
    BY <1>1, <1>4, AloneSteps, Settling, Refinement, PTL

=============================================================================
