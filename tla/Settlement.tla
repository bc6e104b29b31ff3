----------------------------- MODULE Settlement -----------------------------
(***************************************************************************)
(* What the payment tables promise a reader of the ledger, however the     *)
(* handlers interleave: a payment is frozen at most once, its terms never  *)
(* change, and it is entered in the book at most once, for ever, either    *)
(* under the terms it was frozen with or, if it never was, outright.       *)
(***************************************************************************)
CONSTANTS
    Tids,
    Payloads,
    Nothing   \* not a payload, as the module that instantiates this one assumes

VARIABLES
    terms,  \* [Tids -> Payloads or Nothing]: what each payment was frozen as
    book    \* the entries: a set of [tid, payload]

Entered(t) == \E e \in book : e.tid = t

Enter(t, p) == book' = book \cup {[tid |-> t, payload |-> p]}

Init == terms = [t \in Tids |-> Nothing] /\ book = {}

FreezeTerms(t) ==
    /\ terms[t] = Nothing
    /\ ~Entered(t)
    /\ \E p \in Payloads : terms' = [terms EXCEPT ![t] = p]
    /\ UNCHANGED book

SettleFrozen(t) ==
    /\ terms[t] # Nothing
    /\ ~Entered(t)
    /\ Enter(t, terms[t])
    /\ UNCHANGED terms

SettleOutright(t) ==
    /\ terms[t] = Nothing
    /\ ~Entered(t)
    /\ \E p \in Payloads : Enter(t, p)
    /\ UNCHANGED terms

Next == \E t \in Tids : FreezeTerms(t) \/ SettleFrozen(t) \/ SettleOutright(t)

Spec == Init /\ [][Next]_<<terms, book>>
=============================================================================
