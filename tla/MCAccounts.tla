----------------------------- MODULE MCAccounts -----------------------------
(***************************************************************************)
(* Accounts with two registrable people and at most one account at the     *)
(* start, in every state the lockout leaves it in.                         *)
(***************************************************************************)
EXTENDS Accounts, TLC

CONSTANTS a, b

Empty == [i \in Ids |-> Nothing]

MCTables ==
    {Empty} \cup
    {[Empty EXCEPT ![CHOOSE i \in Ids : TRUE] = row] :
        row \in {row \in [email : Emails, phone : Phones, active : BOOLEAN,
                          verified : BOOLEAN, failed : 0..Limit] :
                    row.email = a /\ row.phone = a /\ Locked(row)}}

MCSymmetry == Permutations(Requests)
=============================================================================
