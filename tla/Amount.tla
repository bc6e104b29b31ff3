------------------------------- MODULE Amount -------------------------------
(***************************************************************************)
(* The amount of a spoken command: the first numeral of the transcript as  *)
(* a regular expression reads it or, failing that, a scan of the number    *)
(* words one token at a time.                                              *)
(*                                                                         *)
(* A speaker means an amount and puts it in one of several forms; the      *)
(* question is whether the amount read is the amount meant.                *)
(***************************************************************************)
EXTENDS Integers, SequencesExt

CONSTANTS
    Amounts,  \* the amounts meant, in rupees
    Forms     \* how they are put

Largest == 9999999

ASSUME ConstantsAssumption ==
    /\ Amounts \subseteq 0..Largest
    /\ Forms \subseteq {"plain", "grouped", "lakhs", "scaled", "words", "and"}

Units == <<"one", "two", "three", "four", "five", "six", "seven", "eight", "nine", "ten",
           "eleven", "twelve", "thirteen", "fourteen", "fifteen", "sixteen", "seventeen",
           "eighteen", "nineteen">>

Tens == <<"ten", "twenty", "thirty", "forty", "fifty", "sixty", "seventy", "eighty", "ninety">>

\* The number words' values.
NumberWords ==
    [w \in {"zero"} \cup Range(Units) \cup Range(Tens) |->
        IF w = "zero" THEN 0
        ELSE IF w \in Range(Units) THEN CHOOSE i \in DOMAIN Units : Units[i] = w
        ELSE 10 * CHOOSE i \in DOMAIN Tens : Tens[i] = w]

Connectives == {"and", "rupee", "rupees", "dollar", "dollars"}

-----------------------------------------------------------------------------
(* What is said                                                            *)

Below100(n) ==
    IF n < 20 THEN IF n = 0 THEN <<>> ELSE <<Units[n]>>
    ELSE <<Tens[n \div 10]>> \o IF n % 10 = 0 THEN <<>> ELSE <<Units[n % 10]>>

Scale(n, word) == IF n = 0 THEN <<>> ELSE Append(Below100(n), word)

Lakhs(n)     == n \div 100000
Thousands(n) == (n \div 1000) % 100
Hundreds(n)  == (n \div 100) % 10
Rest(n)      == n % 100

\* n in words, with the "and" before its last two digits or without.
Spelled(n, and) ==
    LET big == Scale(Lakhs(n), "lakh") \o Scale(Thousands(n), "thousand")
                   \o Scale(Hundreds(n), "hundred")
        rest == Below100(Rest(n))
    IN  IF n = 0 THEN <<"zero">>
        ELSE big \o (IF and /\ big # <<>> /\ rest # <<>> THEN <<"and">> ELSE <<>>) \o rest

\* n between commas: the last group has three digits, the others k (2 or 3).
Grouped(n, k) ==
    LET high == n \div 1000
        cap  == IF k = 2 THEN 100 ELSE 1000
        last == [digits |-> 3, value |-> n % 1000]
    IN  IF high = 0 THEN <<[digits |-> 1, value |-> n]>>
        ELSE IF high < cap THEN <<[digits |-> 1, value |-> high], last>>
        ELSE <<[digits |-> 1, value |-> high \div cap], [digits |-> k, value |-> high % cap], last>>

\* A transcript: the groups of its first numeral (the first of any length),
\* and its other words.
Transcript(n, form) ==
    CASE form = "plain"   -> [numeral |-> <<[digits |-> 1, value |-> n]>>, words |-> <<"rupees">>]
      [] form = "grouped" -> [numeral |-> Grouped(n, 3), words |-> <<"rupees">>]
      [] form = "lakhs"   -> [numeral |-> Grouped(n, 2), words |-> <<"rupees">>]
      [] form = "scaled"  -> [numeral |-> <<[digits |-> 1, value |-> n \div 1000]>>,
                              words |-> <<"thousand", "rupees">>]
      [] form = "words"   -> [numeral |-> <<>>,
                              words |-> <<"pay">> \o Spelled(n, FALSE) \o <<"rupees", "to", "one">>]
      [] form = "and"     -> [numeral |-> <<>>, words |-> Spelled(n, TRUE)]

-----------------------------------------------------------------------------
(* How it is read                                                          *)

VARIABLES
    meant,    \* the amount meant
    form,     \* how it was put
    numeral,  \* the transcript's first numeral
    words,    \* the tokens not scanned yet
    total, current, found,
    outcome,  \* "unread", "scanning", "read" or "refused" (a 422)
    amount

vars == <<meant, form, numeral, words, total, current, found, outcome, amount>>

scan == <<total, current, found>>

Init ==
    /\ meant \in Amounts
    /\ form \in Forms
    /\ form = "scaled" => meant > 0 /\ meant % 1000 = 0
    /\ numeral = Transcript(meant, form).numeral /\ words = Transcript(meant, form).words
    /\ total = 0 /\ current = 0 /\ found = FALSE
    /\ outcome = "unread" /\ amount = 0

\* Faulty variant: a single group of thousands.
MatchedOnce(groups) ==
    IF Len(groups) > 1 /\ groups[2].digits = 3 THEN 1000 * groups[1].value + groups[2].value
    ELSE groups[1].value

\* \d+(,\d{3})*: the match ends before a group that is not of three digits.  No
\* numeral up to Largest has more than three groups.
Matched(groups) ==
    LET joins(i) == i \in DOMAIN groups /\ groups[i].digits = 3
        two == 1000 * groups[1].value + groups[2].value
    IN  IF ~joins(2) THEN groups[1].value
        ELSE IF ~joins(3) THEN two ELSE 1000 * two + groups[3].value

\* A positive numeral is the amount, whatever follows it.
ReadNumeral ==
    /\ outcome = "unread"
    /\ numeral # <<>> /\ Matched(numeral) > 0
    /\ amount' = Matched(numeral)
    /\ outcome' = "read"
    /\ UNCHANGED <<meant, form, numeral, words, scan>>

NoNumeral ==
    /\ outcome = "unread"
    /\ numeral # <<>> => Matched(numeral) = 0
    /\ outcome' = "scanning"
    /\ UNCHANGED <<meant, form, numeral, words, scan, amount>>

MarkFound == found' = TRUE

Scanning(w) == outcome = "scanning" /\ words # <<>> /\ Head(words) = w

Advance == words' = Tail(words) /\ UNCHANGED <<meant, form, numeral, outcome, amount>>

Add(w) ==
    /\ Scanning(w) /\ w \in DOMAIN NumberWords
    /\ current' = current + NumberWords[w]
    /\ MarkFound /\ Advance
    /\ UNCHANGED total

Hundred ==
    /\ Scanning("hundred") /\ current # 0
    /\ current' = 100 * current
    /\ MarkFound /\ Advance
    /\ UNCHANGED total

\* Faulty variant: the scaled part stays in the running one.
CarryKept(scale) == total' = total + current * scale /\ UNCHANGED current

Carry(scale) == total' = total + current * scale /\ current' = 0

Multiplier(w) == IF w = "thousand" THEN 1000 ELSE 100000

Multiply(w) ==
    /\ Scanning(w) /\ w \in {"thousand", "lakh"} /\ current # 0
    /\ Carry(Multiplier(w))
    /\ MarkFound /\ Advance

\* No branch takes the token.
Foreign(w) ==
    w \notin DOMAIN NumberWords /\ (w \in {"hundred", "thousand", "lakh"} => current = 0)

Skip(w) ==
    /\ Scanning(w) /\ Foreign(w) /\ (~found \/ w \in Connectives)
    /\ Advance
    /\ UNCHANGED scan

\* The end of the tokens, or a foreign one after a number word.
Finish ==
    /\ outcome = "scanning"
    /\ \/ words = <<>>
       \/ words # <<>> /\ found /\ Foreign(Head(words)) /\ Head(words) \notin Connectives
    /\ IF found /\ total + current > 0
       THEN outcome' = "read" /\ amount' = total + current
       ELSE outcome' = "refused" /\ UNCHANGED amount
    /\ UNCHANGED <<meant, form, numeral, words, scan>>

Next ==
    \/ ReadNumeral \/ NoNumeral \/ Hundred \/ Finish
    \/ \E w \in Range(words) : Add(w) \/ Multiply(w) \/ Skip(w)

Spec == Init /\ [][Next]_vars

\* The amount read is the amount meant, and nothing is refused where something
\* is meant.  Groups as in 1,01,000 and a figure before a scale word lose all but
\* what stands before: such an amount is understated, which can take it under the
\* limit of the challenge, but never overstated.
AmountAsMeant ==
    /\ outcome = "read" =>
         IF form \in {"lakhs", "scaled"} THEN amount \in 1..meant ELSE amount = meant
    /\ outcome = "refused" => meant = 0
=============================================================================
