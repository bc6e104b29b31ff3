---------------------------- MODULE AmountProofs ----------------------------
(***************************************************************************)
(* That the amount read is the amount meant, for every amount up to        *)
(* Largest however it is put.                                              *)
(*                                                                         *)
(* A scan that has got to a token of a spelled amount has added up what    *)
(* stands before it: the proof follows it through the lakhs, thousands,    *)
(* hundreds and the rest, each a number under 100 and its scale word.      *)
(***************************************************************************)
EXTENDS Amount, SequenceTheorems, TLAPS

Spoken == form \in {"words", "and"}

\* The tokens from one point on, as one sequence each.
Closing == IF form = "words" THEN <<"rupees", "to", "one">> ELSE <<>>

Number(v, after) ==
    IF v = 0 THEN after
    ELSE IF v < 20 THEN Cons(Units[v], after)
    ELSE Cons(Tens[v \div 10], IF v % 10 = 0 THEN after ELSE Cons(Units[v % 10], after))

Section(v, scale, after) == IF v = 0 THEN after ELSE Number(v, Cons(scale, after))

FromRest      == Number(Rest(meant), Closing)
FromAnd       == IF form = "and" /\ meant >= 100 /\ Rest(meant) # 0 THEN Cons("and", FromRest)
                                                             ELSE FromRest
FromHundreds  == Section(Hundreds(meant), "hundred", FromAnd)
FromThousands == Section(Thousands(meant), "thousand", FromHundreds)
FromLakhs     == Section(Lakhs(meant), "lakh", FromThousands)

\* Inside a number v before a scale word: a part c of it has been added up.
Within(ws, c, v, scale, after) ==
    /\ v > 0
    /\ \E r \in 0..v : ws = Number(r, Cons(scale, after)) /\ c = v - r

\* Where a scan of a positive amount is, and what it has added up.
LakhsAdded  == total = 100000 * Lakhs(meant)
Scaled      == total = 100000 * Lakhs(meant) + 1000 * Thousands(meant)
InLakhs     == total = 0 /\ Within(words, current, Lakhs(meant), "lakh", FromThousands)
InThousands == /\ LakhsAdded
               /\ Within(words, current, Thousands(meant), "thousand", FromHundreds)
InHundreds  == Scaled /\ Within(words, current, Hundreds(meant), "hundred", FromAnd)
AtAnd       == Scaled /\ words = Cons("and", FromRest) /\ current = 100 * Hundreds(meant)
InRest      == /\ Scaled
               /\ \E r \in 0..Rest(meant) :
                    words = Number(r, Closing) /\ current = 100 * Hundreds(meant) + Rest(meant) - r
Closed      == form = "words" /\ words = <<"to", "one">> /\ total + current = meant

\* A number word has been found as soon as something has been added up.
Counted == found <=> total + current > 0

Counting ==
    /\ Spoken /\ Counted
    /\ \/ (form = "words" /\ words = Cons("pay", FromLakhs) /\ total = 0 /\ current = 0)
       \/ InLakhs \/ InThousands \/ InHundreds \/ (AtAnd /\ found) \/ InRest \/ Closed

\* The scan of a transcript of nothing: a spelled zero, or a figure 0.
Naught ==
    /\ total = 0 /\ current = 0
    /\ IF Spoken THEN \/ ~found /\ words \in {Cons("pay", Cons("zero", Closing)), Cons("zero", Closing)}
                      \/ found /\ words \in {Closing, <<"to", "one">>}
                 ELSE ~found /\ words \in {<<"rupees">>, <<>>}

Tokens == {"zero", "and", "rupees", "to", "pay", "hundred", "thousand", "lakh"}
              \cup Range(Units) \cup Range(Tens)

TypeOK ==
    /\ meant \in Amounts /\ form \in Forms
    /\ words \in Seq(Tokens)
    /\ total \in Nat /\ current \in Nat /\ found \in BOOLEAN
    /\ outcome \in {"unread", "scanning", "read", "refused"}
    /\ amount \in Nat

ScanInv ==
    /\ TypeOK
    /\ form = "scaled" => meant > 0 /\ meant % 1000 = 0
    /\ numeral = Transcript(meant, form).numeral
    /\ outcome = "unread" => /\ words = Transcript(meant, form).words
                             /\ total = 0 /\ current = 0 /\ found = FALSE
    /\ outcome = "scanning" => IF meant = 0 THEN Naught ELSE Counting
    /\ AmountAsMeant

-----------------------------------------------------------------------------
(* The vocabulary                                                          *)

\* The number words are those of the two tables, each once but for "ten".
LEMMA TablesDistinct ==
    /\ \A i, j \in 1..19 : Units[i] = Units[j] => i = j
    /\ \A i, j \in 1..9 : Tens[i] = Tens[j] => i = j
    /\ \A i \in 1..19, j \in 2..9 : Units[i] # Tens[j]
    /\ \A i \in 1..19 : Units[i] # "zero"
    /\ \A i \in 1..9 : Tens[i] # "zero"
    /\ DOMAIN Units = 1..19 /\ DOMAIN Tens = 1..9
<1>1. \A i, j \in 1..19 : Units[i] = Units[j] => i = j
  BY DEF Units
<1>2. \A i, j \in 1..9 : Tens[i] = Tens[j] => i = j
  BY DEF Tens
<1>3. \A i \in 1..19, j \in 2..9 : Units[i] # Tens[j]
  BY DEF Units, Tens
<1>4. \A i \in 1..19 : Units[i] # "zero"
  BY DEF Units
<1>5. \A i \in 1..9 : Tens[i] # "zero"
  BY DEF Tens
<1>6. DOMAIN Units = 1..19
  BY DEF Units
<1>7. DOMAIN Tens = 1..9
  BY DEF Tens
<1> QED BY <1>1, <1>2, <1>3, <1>4, <1>5, <1>6, <1>7

LEMMA ScaleWordsApart ==
    \A w \in {"and", "rupees", "to", "pay", "hundred", "thousand", "lakh"} :
        /\ w # "zero"
        /\ \A i \in 1..19 : Units[i] # w
        /\ \A i \in 1..9 : Tens[i] # w
BY DEF Units, Tens

\* What each number word is worth, and that no other word is a number word.
LEMMA Vocabulary ==
    /\ \A k \in 1..19 : Units[k] \in DOMAIN NumberWords /\ NumberWords[Units[k]] = k
    /\ \A k \in 2..9 : Tens[k] \in DOMAIN NumberWords /\ NumberWords[Tens[k]] = 10 * k
    /\ "zero" \in DOMAIN NumberWords /\ NumberWords["zero"] = 0
    /\ \A w \in {"and", "rupees", "to", "pay", "hundred", "thousand", "lakh"} :
         w \notin DOMAIN NumberWords
    /\ \A w \in DOMAIN NumberWords : NumberWords[w] \in Nat
<1> USE TablesDistinct
<1>1. DOMAIN NumberWords = {"zero"} \cup Range(Units) \cup Range(Tens)
  BY DEF NumberWords
<1>2. /\ Range(Units) = {Units[i] : i \in 1..19}
      /\ Range(Tens) = {Tens[i] : i \in 1..9}
  BY DEF Range
<1>3. ASSUME NEW k \in 1..19
      PROVE  Units[k] \in DOMAIN NumberWords /\ NumberWords[Units[k]] = k
  <2>1. (CHOOSE i \in DOMAIN Units : Units[i] = Units[k]) = k
    OBVIOUS
  <2>2. Units[k] \in Range(Units) /\ Units[k] # "zero"
    BY <1>2
  <2> QED BY <1>1, <2>1, <2>2 DEF NumberWords
<1>4. ASSUME NEW k \in 2..9
      PROVE  Tens[k] \in DOMAIN NumberWords /\ NumberWords[Tens[k]] = 10 * k
  <2>1. (CHOOSE i \in DOMAIN Tens : Tens[i] = Tens[k]) = k
    OBVIOUS
  <2>2. Tens[k] \in Range(Tens) /\ Tens[k] \notin Range(Units) /\ Tens[k] # "zero"
    BY <1>2
  <2> QED BY <1>1, <2>1, <2>2 DEF NumberWords
<1>5. "zero" \in DOMAIN NumberWords /\ NumberWords["zero"] = 0
  BY <1>1 DEF NumberWords
<1>6. \A w \in {"and", "rupees", "to", "pay", "hundred", "thousand", "lakh"} :
        w \notin DOMAIN NumberWords
  BY <1>1, <1>2, ScaleWordsApart
<1>7. ASSUME NEW w \in DOMAIN NumberWords PROVE NumberWords[w] \in Nat
  <2>1. CASE w = "zero"
    BY <2>1, <1>5
  <2>2. CASE \E k \in 1..19 : w = Units[k]
    BY <2>2, <1>3
  <2>3. CASE \E k \in 2..9 : w = Tens[k]
    BY <2>3, <1>4
  <2>4. CASE w = Tens[1]
    <3>1. Tens[1] = Units[10]
      BY DEF Tens, Units
    <3> QED BY <2>4, <3>1, <1>3
  <2> QED BY <2>1, <2>2, <2>3, <2>4, <1>1, <1>2
<1> QED BY <1>3, <1>4, <1>5, <1>6, <1>7

-----------------------------------------------------------------------------
(* The tokens of a spelled amount, one by one                              *)

LEMMA TokensOfTables ==
    /\ \A k \in 1..19 : Units[k] \in Tokens
    /\ \A k \in 1..9 : Tens[k] \in Tokens
BY TablesDistinct DEF Tokens, Range

\* A token before the others is the one scanned first.
LEMMA ConsScanned ==
    ASSUME NEW w \in Tokens, NEW s \in Seq(Tokens)
    PROVE  /\ Cons(w, s) \in Seq(Tokens) /\ Cons(w, s) # <<>>
           /\ Head(Cons(w, s)) = w /\ Tail(Cons(w, s)) = s
BY DEF Cons

\* A number under 100, and one with its scale word, before other tokens.
LEMMA NumberTokens ==
    ASSUME NEW v \in 0..99, NEW s \in Seq(Tokens)
    PROVE  Number(v, s) \in Seq(Tokens) /\ Below100(v) \o s = Number(v, s)
<1>1. CASE v = 0
  BY <1>1 DEF Number, Below100
<1>2. CASE v > 0 /\ v < 20
  <2>1. v \in 1..19 /\ Units[v] \in Tokens
    <3>1. v \in 1..19
      BY <1>2
    <3> QED BY <3>1, TokensOfTables
  <2>2. Number(v, s) = Cons(Units[v], s) /\ Below100(v) = <<Units[v]>>
    BY <1>2 DEF Number, Below100
  <2> QED BY <2>1, <2>2, ConsScanned DEF Cons
<1>3. CASE v >= 20
  <2> DEFINE t == Tens[v \div 10]
             u == Units[v % 10]
  <2>1. v \div 10 \in 2..9 /\ v % 10 \in 0..9
    BY <1>3, SMTT(30)
  <2>2. t \in Tokens
    BY <2>1, TokensOfTables
  <2>3. CASE v % 10 = 0
    <3>1. Below100(v) = <<t>> \o <<>> /\ <<t>> \o <<>> = <<t>>
      BY <1>3, <2>3, <2>2 DEF Below100
    <3>2. Number(v, s) = Cons(t, s)
      BY <1>3, <2>3 DEF Number
    <3> QED BY <3>1, <3>2, <2>2, ConsScanned DEF Cons
  <2>4. CASE v % 10 # 0
    <3>1. u \in Tokens
      BY <2>1, <2>4, TokensOfTables
    <3>2. Below100(v) = <<t>> \o <<u>>
      BY <1>3, <2>4 DEF Below100
    <3>3. Number(v, s) = Cons(t, Cons(u, s))
      BY <1>3, <2>4 DEF Number
    <3>4. <<t>> \in Seq(Tokens) /\ <<u>> \in Seq(Tokens)
      BY <2>2, <3>1
    <3>5. (<<t>> \o <<u>>) \o s = <<t>> \o (<<u>> \o s)
      BY <3>4, ConcatAssociative
    <3> QED BY <2>2, <3>1, <3>2, <3>3, <3>5, ConsScanned DEF Cons
  <2> QED BY <2>3, <2>4
<1> QED BY <1>1, <1>2, <1>3

LEMMA TokensBelow100 == \A v \in 0..99 : Below100(v) \in Seq(Tokens)
<1> TAKE v \in 0..99
<1>1. CASE v < 20
  BY <1>1, TokensOfTables DEF Below100
<1>2. CASE v >= 20
  <2>1. v \div 10 \in 2..9 /\ v % 10 \in 0..9
    BY <1>2
  <2>2. <<Tens[v \div 10]>> \in Seq(Tokens)
    BY <2>1, TokensOfTables
  <2>3. (IF v % 10 = 0 THEN <<>> ELSE <<Units[v % 10]>>) \in Seq(Tokens)
    BY <2>1, TokensOfTables
  <2> QED BY <1>2, <2>2, <2>3 DEF Below100
<1> QED BY <1>1, <1>2

LEMMA SectionTokens ==
    ASSUME NEW v \in 0..99, NEW w \in Tokens, NEW s \in Seq(Tokens)
    PROVE  Section(v, w, s) \in Seq(Tokens) /\ Scale(v, w) \o s = Section(v, w, s)
<1>1. CASE v = 0
  BY <1>1 DEF Section, Scale
<1>2. CASE v # 0
  <2>1. Cons(w, s) \in Seq(Tokens) /\ <<w>> \in Seq(Tokens) /\ <<>> \in Seq(Tokens)
    BY ConsScanned
  <2>2. Section(v, w, s) \in Seq(Tokens) /\ Section(v, w, s) = Below100(v) \o Cons(w, s)
    BY <1>2, <2>1, NumberTokens DEF Section
  <2>3. Below100(v) \in Seq(Tokens)
    BY TokensBelow100
  <2>4. Scale(v, w) = Below100(v) \o <<w>>
    BY <1>2, <2>3, AppendIsConcat DEF Scale
  <2>5. (Below100(v) \o <<w>>) \o s = Below100(v) \o (<<w>> \o s)
    BY <2>1, <2>3, ConcatAssociative
  <2> QED BY <2>2, <2>4, <2>5 DEF Cons
<1> QED BY <1>1, <1>2

LEMMA TwoDigits ==
    ASSUME NEW r \in 0..99, r >= 20
    PROVE  \E q \in 2..9, m \in 0..9 : q = r \div 10 /\ m = r % 10 /\ r = 10 * q + m
OBVIOUS

\* A token added up leaves the rest of its number.
LEMMA NumberScanned ==
    ASSUME NEW r \in 1..99, NEW s \in Seq(Tokens)
    PROVE  \E q \in 0..r :
             /\ Number(r, s) # <<>>
             /\ Head(Number(r, s)) \in DOMAIN NumberWords
             /\ NumberWords[Head(Number(r, s))] = r - q
             /\ q < r
             /\ Tail(Number(r, s)) = Number(q, s)
<1>1. CASE r < 20
  <2>1. r \in 1..19
    BY <1>1
  <2>2. Units[r] \in Tokens /\ Units[r] \in DOMAIN NumberWords /\ NumberWords[Units[r]] = r
    BY <2>1, TokensOfTables, Vocabulary
  <2>3. Number(r, s) = Cons(Units[r], s) /\ Number(0, s) = s
    BY <1>1 DEF Number
  <2>4. /\ Cons(Units[r], s) # <<>>
        /\ Head(Cons(Units[r], s)) = Units[r] /\ Tail(Cons(Units[r], s)) = s
    BY <2>2, ConsScanned
  <2> WITNESS 0 \in 0..r
  <2> QED BY <2>2, <2>3, <2>4
<1>2. CASE r >= 20
  <2>1. PICK q \in 2..9, m \in 0..9 : q = r \div 10 /\ m = r % 10 /\ r = 10 * q + m
    BY <1>2, TwoDigits
  <2> DEFINE t == Tens[q]
             after == IF m = 0 THEN s ELSE Cons(Units[m], s)
  <2>2. t \in Tokens /\ t \in DOMAIN NumberWords /\ NumberWords[t] = 10 * q
    <3>1. q \in 1..9
      OBVIOUS
    <3>2. t \in Tokens
      BY <3>1, TokensOfTables
    <3>3. t \in DOMAIN NumberWords /\ NumberWords[t] = 10 * q
      BY Vocabulary
    <3> QED BY <3>2, <3>3
  <2>3. Number(r, s) = Cons(t, after)
    BY <1>2, <2>1 DEF Number
  <2>4. Number(m, s) = after /\ after \in Seq(Tokens)
    <3>1. Number(m, s) = after
      BY DEF Number
    <3>2. m \in 0..99
      OBVIOUS
    <3> QED BY <3>1, <3>2, NumberTokens
  <2> HIDE DEF t, after
  <2>5. /\ Cons(t, after) # <<>>
        /\ Head(Cons(t, after)) = t /\ Tail(Cons(t, after)) = after
    BY <2>2, <2>4, ConsScanned
  <2>6. m \in 0..r /\ m < r /\ r - m = 10 * q
    BY <2>1
  <2>7. /\ Number(r, s) # <<>>
        /\ Head(Number(r, s)) \in DOMAIN NumberWords
        /\ NumberWords[Head(Number(r, s))] = r - m
        /\ Tail(Number(r, s)) = Number(m, s)
    BY <2>2, <2>3, <2>4, <2>5, <2>6
  <2> QED BY <2>6, <2>7
<1> QED BY <1>1, <1>2

\* Before a number and its scale word, the scan is within it, or past it when there
\* is none.
LEMMA SectionEntered ==
    ASSUME NEW v \in 0..99, NEW w, NEW s,
           words = Section(v, w, s), current = 0
    PROVE  (v = 0 /\ words = s) \/ Within(words, current, v, w, s)
BY DEF Section, Within

LEMMA LargestNumber == Largest \in Nat
BY DEF Largest

LEMMA MeantBounded == meant \in Amounts => meant \in Nat /\ meant <= Largest
BY ConstantsAssumption, LargestNumber

\* The amount meant is the sum of what its tokens stand for.
LEMMA Digits ==
    ASSUME meant \in Amounts
    PROVE  /\ meant \in Nat /\ Lakhs(meant) \in 0..99 /\ Thousands(meant) \in 0..99
           /\ Hundreds(meant) \in 0..9 /\ Rest(meant) \in 0..99
           /\ meant = 100000 * Lakhs(meant) + 1000 * Thousands(meant)
                       + 100 * Hundreds(meant) + Rest(meant)
<1>1. meant \in Nat /\ meant <= 9999999
  BY MeantBounded DEF Largest
<1>2. PICK a \in Nat, b \in Nat, c \in Nat :
        a = meant \div 100000 /\ b = meant \div 1000 /\ c = meant \div 100
  BY <1>1, SMT
<1>3. meant % 100 = meant - 100 * c /\ c % 10 = c - 10 * b /\ b % 100 = b - 100 * a
  BY <1>1, <1>2, SMT
<1>4. PICK x \in Int, y \in Int, z \in Int : x = meant % 100 /\ y = c % 10 /\ z = b % 100
  BY <1>1, <1>2, SMT
<1>5. a <= 99 /\ z \in 0..99 /\ y \in 0..9 /\ x \in 0..99
  BY <1>1, <1>2, <1>4, SMT
<1>6. meant = 100000 * a + 1000 * z + 100 * y + x
  BY <1>1, <1>3, <1>4, SMT
<1>7. Lakhs(meant) = a /\ Thousands(meant) = z /\ Hundreds(meant) = y /\ Rest(meant) = x
  BY <1>2, <1>4 DEF Lakhs, Thousands, Hundreds, Rest
<1> QED BY <1>1, <1>5, <1>6, <1>7, SMT

LEMMA DigitRanges ==
    ASSUME meant \in Amounts
    PROVE  /\ meant \in Nat /\ Lakhs(meant) \in 0..99 /\ Thousands(meant) \in 0..99
           /\ Hundreds(meant) \in 0..9 /\ Rest(meant) \in 0..99
           /\ Hundreds(meant) \in 0..99
BY Digits, SMT

-----------------------------------------------------------------------------
(* The transcript of a spelled amount                                      *)

LEMMA ScaleTokens ==
    /\ {"zero", "and", "rupees", "to", "pay", "hundred", "thousand", "lakh"} \subseteq Tokens
    /\ "one" \in Tokens /\ "one" = Units[1]
<1>1. "one" = Units[1]
  BY DEF Units
<1> QED BY <1>1, TokensOfTables DEF Tokens

LEMMA ClosingTokens == Closing \in Seq(Tokens)
<1>1. <<"rupees", "to", "one">> \in Seq(Tokens) /\ <<>> \in Seq(Tokens)
  BY ScaleTokens
<1> QED BY <1>1 DEF Closing

LEMMA FromTokens ==
    ASSUME meant \in Amounts
    PROVE  /\ FromRest \in Seq(Tokens) /\ FromAnd \in Seq(Tokens)
           /\ FromHundreds \in Seq(Tokens) /\ FromThousands \in Seq(Tokens)
           /\ FromLakhs \in Seq(Tokens)
<1> USE DigitRanges
<1>1. FromRest \in Seq(Tokens)
  BY ClosingTokens, NumberTokens DEF FromRest
<1>2. {"and", "hundred", "thousand", "lakh"} \subseteq Tokens
  BY ScaleTokens
<1>3. FromAnd \in Seq(Tokens)
  BY <1>1, <1>2, ConsScanned DEF FromAnd
<1>4. FromHundreds \in Seq(Tokens)
  <2>1. Hundreds(meant) \in 0..99
    OBVIOUS
  <2> QED BY <2>1, <1>2, <1>3, SectionTokens DEF FromHundreds
<1>5. FromThousands \in Seq(Tokens)
  BY <1>2, <1>4, SectionTokens DEF FromThousands
<1>6. FromLakhs \in Seq(Tokens)
  BY <1>2, <1>5, SectionTokens DEF FromLakhs
<1> QED BY <1>1, <1>3, <1>4, <1>5, <1>6

\* Nothing is spelled only for nothing.
LEMMA SpelledSome ==
    /\ \A v \in 0..99 : Below100(v) = <<>> <=> v = 0
    /\ \A v \in 0..99, w \in Tokens : Scale(v, w) = <<>> <=> v = 0
<1>1. ASSUME NEW v \in 0..99, v # 0 PROVE Below100(v) # <<>>
  <2>1. <<>> \in Seq(Tokens)
    OBVIOUS
  <2>2. Number(v, <<>>) # <<>>
    <3>1. v \in 1..99
      BY <1>1
    <3> QED BY <3>1, <2>1, NumberScanned, Zenon
  <2>3. Below100(v) \o <<>> = Below100(v)
    BY TokensBelow100
  <2> QED BY <2>1, <2>2, <2>3, NumberTokens, Zenon
<1>2. Below100(0) = <<>>
  BY DEF Below100
<1>3. ASSUME NEW v \in 0..99, NEW w \in Tokens PROVE Scale(v, w) = <<>> <=> v = 0
  BY TokensBelow100, AppendProperties DEF Scale
<1> QED BY <1>1, <1>2, <1>3

LEMMA NoSections ==
    meant \in Amounts =>
        (Lakhs(meant) = 0 /\ Thousands(meant) = 0 /\ Hundreds(meant) = 0 <=> ~(meant >= 100))
<1> HAVE meant \in Amounts
<1>1. meant \in Nat /\ Lakhs(meant) \in Nat /\ Thousands(meant) \in Nat /\ Hundreds(meant) \in Nat
      /\ Rest(meant) \in 0..99
  BY DigitRanges
<1>2. PICK n \in Nat, a \in Nat, b \in Nat, c \in Nat, d \in 0..99 :
        n = meant /\ a = Lakhs(meant) /\ b = Thousands(meant) /\ c = Hundreds(meant) /\ d = Rest(meant)
  BY <1>1, Zenon
<1>3. n = 100000 * a + 1000 * b + 100 * c + d
  BY <1>2, Digits, SMT
<1>4. a = 0 /\ b = 0 /\ c = 0 <=> ~(n >= 100)
  BY <1>3, SMT
<1> QED BY <1>2, <1>4, Zenon

LEMMA Regrouped == \A s, t, u \in Seq(Tokens) : (s \o t) \o u = s \o (t \o u)
BY ConcatAssociative

LEMMA Joined == \A s, t \in Seq(Tokens) : s \o t \in Seq(Tokens)
BY ConcatProperties

LEMMA ScaleIn == \A v \in 0..99, w \in Tokens : Scale(v, w) \in Seq(Tokens)
<1> TAKE v \in 0..99, w \in Tokens
<1>1. Below100(v) \in Seq(Tokens)
  BY TokensBelow100
<1> QED BY <1>1, AppendProperties DEF Scale

\* The transcript of a spelled positive amount is its sections, one before another.
LEMMA SpelledFrom ==
    ASSUME meant \in Amounts, meant > 0, Spoken
    PROVE  /\ Spelled(meant, form = "and") \o Closing = FromLakhs
           /\ Spelled(meant, form = "and") \in Seq(Tokens)
<1> DEFINE A == Scale(Lakhs(meant), "lakh")
           B == Scale(Thousands(meant), "thousand")
           C == Scale(Hundreds(meant), "hundred")
           D == IF form = "and" /\ (A \o B) \o C # <<>> /\ Below100(Rest(meant)) # <<>>
                THEN <<"and">> ELSE <<>>
           E == Below100(Rest(meant))
<1>1. /\ A \in Seq(Tokens) /\ B \in Seq(Tokens) /\ C \in Seq(Tokens)
      /\ D \in Seq(Tokens) /\ E \in Seq(Tokens) /\ Closing \in Seq(Tokens)
  <2>1. A \in Seq(Tokens) /\ B \in Seq(Tokens) /\ C \in Seq(Tokens)
    BY DigitRanges, ScaleTokens, ScaleIn
  <2>2. E \in Seq(Tokens)
    BY DigitRanges, TokensBelow100
  <2>3. <<"and">> \in Seq(Tokens) /\ <<>> \in Seq(Tokens)
    BY ScaleTokens
  <2> HIDE DEF A, B, C, E
  <2>4. D \in Seq(Tokens)
    BY <2>3
  <2> QED BY <2>1, <2>2, <2>4, ClosingTokens
<1>2. D = IF form = "and" /\ meant >= 100 /\ Rest(meant) # 0 THEN <<"and">> ELSE <<>>
  <2>1. (A \o B) \o C = <<>> <=> A = <<>> /\ B = <<>> /\ C = <<>>
    <3>1. A \o B \in Seq(Tokens) /\ (A \o B = <<>> <=> A = <<>> /\ B = <<>>)
      BY <1>1, ConcatProperties, ConcatEqualIffEmpty
    <3> QED BY <1>1, <3>1, ConcatEqualIffEmpty
  <2>2. /\ A = <<>> <=> Lakhs(meant) = 0
        /\ B = <<>> <=> Thousands(meant) = 0
        /\ C = <<>> <=> Hundreds(meant) = 0
        /\ E = <<>> <=> Rest(meant) = 0
    BY DigitRanges, ScaleTokens, SpelledSome
  <2>3. Lakhs(meant) = 0 /\ Thousands(meant) = 0 /\ Hundreds(meant) = 0 <=> ~(meant >= 100)
    BY NoSections
  <2> HIDE DEF A, B, C
  <2> QED BY <2>1, <2>2, <2>3
<1>3. Spelled(meant, form = "and") = (((A \o B) \o C) \o D) \o E
  BY DigitRanges DEF Spelled
<1> HIDE DEF A, B, C, D, E
<1>4. /\ A \o B \in Seq(Tokens) /\ (A \o B) \o C \in Seq(Tokens)
      /\ ((A \o B) \o C) \o D \in Seq(Tokens)
  <2>1. A \o B \in Seq(Tokens)
    BY <1>1, Joined
  <2>2. (A \o B) \o C \in Seq(Tokens)
    BY <1>1, <2>1, Joined
  <2> QED BY <1>1, <2>1, <2>2, Joined
<1>5. E \o Closing = FromRest
  BY DigitRanges, ClosingTokens, NumberTokens DEF E, FromRest
<1>6. D \o FromRest = FromAnd
  BY <1>2, FromTokens DEF FromAnd, Cons
<1>7. C \o FromAnd = FromHundreds
  BY DigitRanges, ScaleTokens, FromTokens, SectionTokens DEF C, FromHundreds
<1>8. B \o FromHundreds = FromThousands
  BY DigitRanges, ScaleTokens, FromTokens, SectionTokens DEF B, FromThousands
<1>9. A \o FromThousands = FromLakhs
  BY DigitRanges, ScaleTokens, FromTokens, SectionTokens DEF A, FromLakhs
<1>10. Spelled(meant, form = "and") \o Closing = (((A \o B) \o C) \o D) \o FromRest
  <2>1. (((A \o B) \o C) \o D) \in Seq(Tokens) /\ E \in Seq(Tokens) /\ Closing \in Seq(Tokens)
    BY <1>1, <1>4, FromTokens
  <2>2. ((((A \o B) \o C) \o D) \o E) \o Closing = (((A \o B) \o C) \o D) \o (E \o Closing)
    BY <2>1, Regrouped, Zenon
  <2> QED BY <2>2, <1>3, <1>5
<1>11. (((A \o B) \o C) \o D) \o FromRest = ((A \o B) \o C) \o FromAnd
  <2>1. ((A \o B) \o C) \in Seq(Tokens) /\ D \in Seq(Tokens) /\ FromRest \in Seq(Tokens)
    BY <1>1, <1>4, FromTokens
  <2>2. (((A \o B) \o C) \o D) \o FromRest = ((A \o B) \o C) \o (D \o FromRest)
    BY <2>1, Regrouped, Zenon
  <2> QED BY <2>2, <1>6
<1>12. ((A \o B) \o C) \o FromAnd = (A \o B) \o FromHundreds
  <2>1. (A \o B) \in Seq(Tokens) /\ C \in Seq(Tokens) /\ FromAnd \in Seq(Tokens)
    BY <1>1, <1>4, FromTokens
  <2>2. ((A \o B) \o C) \o FromAnd = (A \o B) \o (C \o FromAnd)
    BY <2>1, Regrouped, Zenon
  <2> QED BY <2>2, <1>7
<1>13. (A \o B) \o FromHundreds = FromLakhs
  <2>1. A \in Seq(Tokens) /\ B \in Seq(Tokens) /\ FromHundreds \in Seq(Tokens)
    BY <1>1, <1>4, FromTokens
  <2>2. (A \o B) \o FromHundreds = A \o (B \o FromHundreds)
    BY <2>1, Regrouped, Zenon
  <2> QED BY <2>2, <1>8, <1>9
<1>14. (((A \o B) \o C) \o D) \o E \in Seq(Tokens)
  BY <1>1, <1>4, Joined
<1> QED BY <1>3, <1>10, <1>11, <1>12, <1>13, <1>14

\* The transcript of a spelled amount, token by token.
SpelledWords == IF meant = 0 THEN Cons("zero", Closing) ELSE FromLakhs

LEMMA SpokenTranscript ==
    ASSUME meant \in Amounts, Spoken
    PROVE  /\ Transcript(meant, form).words
                = IF form = "words" THEN Cons("pay", SpelledWords) ELSE SpelledWords
           /\ Transcript(meant, form).numeral = <<>>
           /\ SpelledWords \in Seq(Tokens)
<1> DEFINE S == Spelled(meant, form = "and")
<1>1. S \o Closing = SpelledWords /\ SpelledWords \in Seq(Tokens) /\ S \in Seq(Tokens)
  <2>1. CASE meant = 0
    <3>1. S = <<"zero">>
      BY <2>1 DEF Spelled
    <3>2. "zero" \in Tokens /\ <<"zero">> \in Seq(Tokens)
      BY ScaleTokens
    <3>3. Cons("zero", Closing) \in Seq(Tokens)
      BY <3>2, ClosingTokens, ConsScanned
    <3> HIDE DEF S
    <3>4. SpelledWords = Cons("zero", Closing) /\ Cons("zero", Closing) = <<"zero">> \o Closing
      BY <2>1 DEF SpelledWords, Cons
    <3> QED BY <3>1, <3>2, <3>3, <3>4
  <2>2. CASE meant # 0
    <3>1. S \o Closing = FromLakhs /\ S \in Seq(Tokens)
      BY <2>2, DigitRanges, SpelledFrom
    <3> QED BY <2>2, <3>1, FromTokens DEF SpelledWords
  <2> QED BY <2>1, <2>2
<1> HIDE DEF S
<1>2. CASE form = "words"
  <2>1. Transcript(meant, form).words = (<<"pay">> \o S) \o Closing
    BY <1>2, Zenon DEF Transcript, S, Closing
  <2>2. (<<"pay">> \o S) \o Closing = <<"pay">> \o (S \o Closing)
    <3>1. <<"pay">> \in Seq(Tokens)
      BY ScaleTokens
    <3> QED BY <1>1, <3>1, ClosingTokens, Regrouped, Zenon
  <2>3. Transcript(meant, form).numeral = <<>>
    BY <1>2 DEF Transcript
  <2> QED BY <1>1, <1>2, <2>1, <2>2, <2>3 DEF Cons
<1>3. CASE form = "and"
  <2>1. Transcript(meant, form).words = S
    BY <1>3, Zenon DEF Transcript, S
  <2>2. Closing = <<>> /\ S \o <<>> = S
    BY <1>1, <1>3 DEF Closing
  <2>3. Transcript(meant, form).numeral = <<>>
    BY <1>3 DEF Transcript
  <2> QED BY <1>1, <1>3, <2>1, <2>2, <2>3
<1> QED BY <1>2, <1>3 DEF Spoken

-----------------------------------------------------------------------------
(* The scan                                                                *)

LEMMA Ranges ==
    TypeOK => /\ meant \in Amounts /\ meant \in Nat
              /\ Lakhs(meant) \in 0..99 /\ Thousands(meant) \in 0..99
              /\ Hundreds(meant) \in 0..99 /\ Rest(meant) \in 0..99
<1>1. TypeOK => meant \in Amounts
  BY DEF TypeOK
<1> QED BY <1>1, DigitRanges

LEMMA Naturals ==
    TypeOK => /\ meant \in Nat /\ Lakhs(meant) \in Nat /\ Thousands(meant) \in Nat
              /\ Hundreds(meant) \in Nat /\ Rest(meant) \in Nat
              /\ total \in Nat /\ current \in Nat /\ found \in BOOLEAN
<1>1. TypeOK => total \in Nat /\ current \in Nat /\ found \in BOOLEAN
  BY DEF TypeOK
<1>2. \A v \in 0..99 : v \in Nat
  OBVIOUS
<1> QED BY <1>1, <1>2, Ranges, Zenon

LEMMA NothingAdded ==
    ASSUME TypeOK
    PROVE  /\ total = 0 /\ Lakhs(meant) = 0 => LakhsAdded
           /\ LakhsAdded /\ Thousands(meant) = 0 => Scaled
<1>1. Lakhs(meant) \in Nat /\ Thousands(meant) \in Nat /\ total \in Nat
  BY Naturals
<1> QED BY <1>1, SMT DEF Scaled, LakhsAdded

\* Before a section the scan is within it or, when it is empty, within a later one.
LEMMA AndEntered ==
    TypeOK /\ Counted /\ Scaled /\ words = FromAnd /\ current = 100 * Hundreds(meant)
      => (AtAnd /\ found) \/ InRest
<1> SUFFICES ASSUME TypeOK, Counted, Scaled, words = FromAnd, current = 100 * Hundreds(meant)
             PROVE  (AtAnd /\ found) \/ InRest
  OBVIOUS
<1>1. CASE form = "and" /\ meant >= 100 /\ Rest(meant) # 0
  <2>1. words = Cons("and", FromRest)
    BY <1>1 DEF FromAnd
  <2>2. found
    <3>1. PICK n \in Nat, a \in Nat, b \in Nat, c \in Nat, d \in 0..99 :
            /\ n = meant /\ a = Lakhs(meant) /\ b = Thousands(meant) /\ c = Hundreds(meant)
            /\ d = Rest(meant)
      BY Naturals, Ranges, Zenon
    <3>2. n = 100000 * a + 1000 * b + 100 * c + d /\ n >= 100
      BY <1>1, <3>1, Ranges, Digits, SMT
    <3>3. 100000 * a + 1000 * b + 100 * c > 0
      BY <3>2, SMT
    <3>4. total + current = 100000 * a + 1000 * b + 100 * c
      BY <3>1, SMT DEF Scaled
    <3>5. total + current > 0
      BY <3>3, <3>4, SMT
    <3> QED BY <3>5, Naturals, Zenon DEF Counted
  <2> QED BY <2>1, <2>2 DEF AtAnd
<1>2. CASE ~(form = "and" /\ meant >= 100 /\ Rest(meant) # 0)
  <2>1. words = Number(Rest(meant), Closing)
    BY <1>2 DEF FromAnd, FromRest
  <2>2. PICK d \in 0..99, c \in Nat : d = Rest(meant) /\ c = Hundreds(meant)
    BY Ranges, SMTT(30)
  <2>3. d \in 0..d /\ 100 * c = 100 * c + d - d
    BY SMT
  <2> QED BY <2>1, <2>2, <2>3 DEF InRest
<1> QED BY <1>1, <1>2

LEMMA HundredsEntered ==
    TypeOK /\ Counted /\ Scaled /\ words = FromHundreds /\ current = 0
      => InHundreds \/ (AtAnd /\ found) \/ InRest
<1> SUFFICES ASSUME TypeOK, Counted, Scaled, words = FromHundreds, current = 0
             PROVE  InHundreds \/ (AtAnd /\ found) \/ InRest
  OBVIOUS
<1>1. (Hundreds(meant) = 0 /\ words = FromAnd) \/ InHundreds
  BY Ranges, SectionEntered DEF FromHundreds, InHundreds
<1>2. ASSUME Hundreds(meant) = 0, words = FromAnd PROVE (AtAnd /\ found) \/ InRest
  <2>1. current = 100 * Hundreds(meant)
    BY <1>2
  <2> QED BY <1>2, <2>1, AndEntered
<1> QED BY <1>1, <1>2

LEMMA ThousandsEntered ==
    TypeOK /\ Counted /\ LakhsAdded /\ words = FromThousands /\ current = 0
      => InThousands \/ InHundreds \/ (AtAnd /\ found) \/ InRest
<1> SUFFICES ASSUME TypeOK, Counted, LakhsAdded, words = FromThousands, current = 0
             PROVE  InThousands \/ InHundreds \/ (AtAnd /\ found) \/ InRest
  OBVIOUS
<1>1. (Thousands(meant) = 0 /\ words = FromHundreds) \/ InThousands
  BY Ranges, SectionEntered DEF FromThousands, InThousands
<1>2. Thousands(meant) = 0 => Scaled
  BY NothingAdded
<1> QED BY <1>1, <1>2, HundredsEntered

LEMMA LakhsEntered ==
    TypeOK /\ Counted /\ total = 0 /\ words = FromLakhs /\ current = 0
      => InLakhs \/ InThousands \/ InHundreds \/ (AtAnd /\ found) \/ InRest
<1> SUFFICES ASSUME TypeOK, Counted, total = 0, words = FromLakhs, current = 0
             PROVE  InLakhs \/ InThousands \/ InHundreds \/ (AtAnd /\ found) \/ InRest
  OBVIOUS
<1>1. (Lakhs(meant) = 0 /\ words = FromThousands) \/ InLakhs
  BY Ranges, SectionEntered DEF FromLakhs, InLakhs
<1>2. Lakhs(meant) = 0 => LakhsAdded
  BY NothingAdded
<1> QED BY <1>1, <1>2, ThousandsEntered

\* What the scan does with the first of the tokens it has left.
LEMMA HeadScanned ==
    ASSUME outcome = "scanning", words # <<>>, Next
    PROVE  \/ Head(words) \in DOMAIN NumberWords /\ Add(Head(words))
           \/ Head(words) = "hundred" /\ current # 0 /\ Hundred
           \/ Head(words) \in {"thousand", "lakh"} /\ current # 0 /\ Multiply(Head(words))
           \/ Foreign(Head(words)) /\ (~found \/ Head(words) \in Connectives) /\ Skip(Head(words))
           \/ Foreign(Head(words)) /\ found /\ Head(words) \notin Connectives /\ Finish
<1>1. \A w \in Range(words) :
        /\ Add(w) => w = Head(words) /\ Head(words) \in DOMAIN NumberWords
        /\ Multiply(w) => w = Head(words) /\ Head(words) \in {"thousand", "lakh"} /\ current # 0
        /\ Skip(w) => /\ w = Head(words) /\ Foreign(Head(words))
                      /\ (~found \/ Head(words) \in Connectives)
  BY DEF Add, Multiply, Skip, Scanning
<1>2. Hundred => Head(words) = "hundred" /\ current # 0
  BY DEF Hundred, Scanning
<1>3. Finish => Foreign(Head(words)) /\ found /\ Head(words) \notin Connectives
  BY DEF Finish
<1>4. ~ReadNumeral /\ ~NoNumeral
  BY DEF ReadNumeral, NoNumeral
<1> QED BY <1>1, <1>2, <1>3, <1>4, Zenon DEF Next

\* A number word is added up, and a scale word carries what has been.
LEMMA NumberAdded ==
    ASSUME outcome = "scanning", words # <<>>, Next, Head(words) \in DOMAIN NumberWords
    PROVE  Add(Head(words))
BY HeadScanned, Vocabulary DEF Foreign

LEMMA ScaleCarried ==
    ASSUME outcome = "scanning", words # <<>>, Next, current # 0,
           Head(words) \in {"hundred", "thousand", "lakh"}
    PROVE  IF Head(words) = "hundred" THEN Hundred ELSE Multiply(Head(words))
BY HeadScanned, Vocabulary DEF Foreign

\* A number that has got a token of its own left loses it to the sum.
LEMMA AddedUp ==
    ASSUME current \in Nat, outcome = "scanning", Next,
           NEW r \in 1..99, NEW s \in Seq(Tokens), words = Number(r, s)
    PROVE  \E q \in 0..r :
             /\ q < r /\ words' = Number(q, s) /\ current' = current + (r - q)
             /\ found' = TRUE
             /\ UNCHANGED <<meant, form, numeral, outcome, amount, total>>
<1>1. PICK q \in 0..r : /\ words # <<>> /\ Head(words) \in DOMAIN NumberWords
                        /\ NumberWords[Head(words)] = r - q /\ q < r
                        /\ Tail(words) = Number(q, s)
  BY NumberScanned, Zenon
<1>2. Add(Head(words))
  BY <1>1, NumberAdded
<1> QED BY <1>1, <1>2, SMTT(30) DEF Add, MarkFound, Advance

\* A step within a section goes on in it or leaves it: by a hundredfold, or into the
\* total.
LEMMA SectionStep ==
    ASSUME current \in Nat, total \in Nat, outcome = "scanning", Next,
           NEW v \in 0..99, NEW w \in {"hundred", "thousand", "lakh"}, NEW s \in Seq(Tokens),
           Within(words, current, v, w, s)
    PROVE  /\ UNCHANGED <<meant, form, numeral, outcome, amount>> /\ found' = TRUE
           /\ \/ Within(words', current', v, w, s) /\ current' > 0 /\ total' = total
              \/ w = "hundred" /\ words' = s /\ current' = 100 * v /\ total' = total
              \/ /\ w # "hundred" /\ words' = s /\ current' = 0
                 /\ total' = total + v * Multiplier(w)
<1> DEFINE after == Cons(w, s)
<1>1. w \in Tokens /\ after \in Seq(Tokens)
  BY ScaleTokens, ConsScanned
<1>2. PICK r \in 0..v : words = Number(r, after) /\ current = v - r
  BY DEF Within
<1>3. v > 0
  BY DEF Within
<1>4. CASE r > 0
  <2> HIDE DEF after
  <2>1. r \in 1..99 /\ r <= v
    BY <1>4, SMT
  <2>2. PICK q \in 0..r : /\ q < r /\ words' = Number(q, after) /\ current' = current + (r - q)
                          /\ found' = TRUE
                          /\ UNCHANGED <<meant, form, numeral, outcome, amount, total>>
    BY <1>1, <1>2, <2>1, AddedUp, Zenon
  <2>3. q \in 0..v /\ current' = v - q /\ current' > 0
    BY <1>2, <2>1, <2>2
  <2>4. Within(words', current', v, w, s)
    BY <1>3, <2>2, <2>3 DEF Within, after
  <2> QED BY <2>2, <2>3, <2>4
<1>5. CASE r = 0
  <2>1. words = Cons(w, s) /\ current = v
    BY <1>2, <1>5 DEF Number
  <2>2. words # <<>> /\ Head(words) = w /\ Tail(words) = s
    BY <1>1, <2>1, ConsScanned
  <2>3. IF w = "hundred" THEN Hundred ELSE Multiply(w)
    BY <1>3, <2>1, <2>2, ScaleCarried
  <2>4. CASE w = "hundred"
    BY <2>1, <2>2, <2>3, <2>4 DEF Hundred, MarkFound, Advance
  <2>5. CASE w # "hundred"
    <3>1. Carry(Multiplier(w)) /\ MarkFound /\ Advance
      BY <2>3, <2>5, Zenon DEF Multiply
    <3>2. total' = total + current * Multiplier(w) /\ current' = 0
      BY <3>1, Zenon DEF Carry
    <3>3. /\ UNCHANGED <<meant, form, numeral, outcome, amount>> /\ found' = TRUE
          /\ words' = s
      BY <2>2, <3>1, Zenon DEF MarkFound, Advance
    <3>4. total' = total + v * Multiplier(w) /\ current' = 0
      BY <2>1, <3>2, Zenon
    <3> QED BY <2>5, <3>3, <3>4, Zenon
  <2> QED BY <2>4, <2>5
<1>6. r > 0 \/ r = 0
  BY <1>2
<1> QED BY <1>4, <1>5, <1>6, Zenon

-----------------------------------------------------------------------------
(* The figures                                                             *)

LEMMA Divided ==
    /\ \A n \in Nat : \E q \in Nat, m \in 0..999 : q = n \div 1000 /\ m = n % 1000 /\ n = 1000 * q + m
    /\ \A n \in Nat : \E q \in Nat, m \in 0..99 : q = n \div 100 /\ m = n % 100 /\ n = 100 * q + m
<1>1. ASSUME NEW n \in Nat
      PROVE  \E q \in Nat, m \in 0..999 : q = n \div 1000 /\ m = n % 1000 /\ n = 1000 * q + m
  BY SMTT(30)
<1>2. ASSUME NEW n \in Nat
      PROVE  \E q \in Nat, m \in 0..99 : q = n \div 100 /\ m = n % 100 /\ n = 100 * q + m
  BY SMTT(30)
<1> QED BY <1>1, <1>2

\* The numeral of a figure is read as meant, except in the two forms that
\* understate it, and only 0 is read as 0.
LEMMA FiguresMatched ==
    ASSUME meant \in Amounts, form \in {"plain", "grouped", "lakhs", "scaled"},
           form = "scaled" => meant > 0 /\ meant % 1000 = 0,
           numeral = Transcript(meant, form).numeral
    PROVE  /\ numeral # <<>>
           /\ Matched(numeral) \in 0..meant
           /\ Matched(numeral) = 0 => meant = 0
           /\ form \in {"plain", "grouped"} => Matched(numeral) = meant
<1>1. PICK n \in Nat : n = meant
  BY DigitRanges
<1>2. PICK h \in Nat, l \in 0..999 : h = n \div 1000 /\ l = n % 1000 /\ n = 1000 * h + l
  BY Divided, SMTT(30)
<1>3. PICK c \in Nat, d \in 0..99 : c = h \div 100 /\ d = h % 100 /\ h = 100 * c + d
  BY Divided, SMTT(30)
<1>4. PICK e \in Nat, f \in 0..999 : e = h \div 1000 /\ f = h % 1000 /\ h = 1000 * e + f
  BY Divided, SMTT(30)
<1> SUFFICES /\ numeral # <<>>
             /\ Matched(numeral) \in 0..n
             /\ Matched(numeral) = 0 => n = 0
             /\ form \in {"plain", "grouped"} => Matched(numeral) = n
  BY <1>1
<1>5. CASE form = "plain"
  <2>1. numeral = <<[digits |-> 1, value |-> n]>>
    BY <1>1, <1>5 DEF Transcript
  <2> QED BY <1>5, <2>1 DEF Matched
<1>6. CASE form = "scaled"
  <2>1. numeral = <<[digits |-> 1, value |-> h]>>
    BY <1>1, <1>2, <1>6 DEF Transcript
  <2>2. h > 0 /\ h <= n
    BY <1>1, <1>2, <1>6
  <2>3. Matched(numeral) = h /\ numeral # <<>>
    BY <2>1 DEF Matched
  <2> QED BY <1>6, <2>2, <2>3
<1>7. CASE form \in {"grouped", "lakhs"}
  <2> DEFINE k == IF form = "lakhs" THEN 2 ELSE 3
             cap == IF form = "lakhs" THEN 100 ELSE 1000
             last == [digits |-> 3, value |-> l]
  <2>1. numeral = IF h = 0 THEN <<[digits |-> 1, value |-> n]>>
                  ELSE IF h < cap THEN <<[digits |-> 1, value |-> h], last>>
                  ELSE <<[digits |-> 1, value |-> h \div cap], [digits |-> k, value |-> h % cap], last>>
    <3>1. numeral = Grouped(n, k)
      BY <1>1, <1>7 DEF Transcript
    <3>2. (IF k = 2 THEN 100 ELSE 1000) = cap
      OBVIOUS
    <3> HIDE DEF k, cap
    <3> QED BY <1>2, <3>1, <3>2 DEF Grouped
  <2>2. CASE h = 0
    <3>1. numeral = <<[digits |-> 1, value |-> n]>>
      BY <2>1, <2>2
    <3> QED BY <3>1 DEF Matched
  <2>3. CASE h # 0 /\ h < cap
    <3>1. numeral = <<[digits |-> 1, value |-> h], last>>
      BY <2>1, <2>3
    <3>2. Matched(numeral) = 1000 * h + l
      BY <3>1 DEF Matched
    <3>3. 1000 * h + l = n
      BY <1>2, SMT
    <3>4. Matched(numeral) = n
      BY <3>2, <3>3, SMT
    <3>5. numeral # <<>> /\ n \in 0..n
      BY <3>1, SMT
    <3> HIDE DEF last
    <3> QED BY <3>4, <3>5, SMT
  <2>4. CASE form = "lakhs" /\ h # 0 /\ ~(h < cap)
    <3>1. numeral = <<[digits |-> 1, value |-> c], [digits |-> 2, value |-> d], last>>
      BY <1>3, <2>1, <2>4
    <3>2. Matched(numeral) = c /\ numeral # <<>>
      BY <3>1 DEF Matched
    <3>3. c \in 0..n /\ c # 0
      BY <1>2, <1>3, <2>4
    <3>4. form \notin {"plain", "grouped"}
      BY <2>4
    <3> QED BY <3>2, <3>3, <3>4, SMT
  <2>5. CASE form = "grouped" /\ h # 0 /\ ~(h < cap)
    <3>1. numeral = <<[digits |-> 1, value |-> e], [digits |-> 3, value |-> f], last>>
      BY <1>4, <2>1, <2>5
    <3>2. Matched(numeral) = 1000 * (1000 * e + f) + l
      BY <3>1 DEF Matched
    <3>3. 1000 * (1000 * e + f) + l = n
      BY <1>2, <1>4, SMT
    <3>4. Matched(numeral) = n
      BY <3>2, <3>3, SMT
    <3>5. numeral # <<>> /\ n \in 0..n
      BY <3>1, SMT
    <3> HIDE DEF last
    <3> QED BY <3>4, <3>5, SMT
  <2> HIDE DEF k, cap, last
  <2> QED BY <1>7, <2>2, <2>3, <2>4, <2>5, SMT
<1> QED BY <1>5, <1>6, <1>7

-----------------------------------------------------------------------------
(* The steps                                                               *)

\* Where a step leads when it reaches a section, with what it leaves to scan.
LEMMA FromKept ==
    meant' = meant /\ form' = form =>
        /\ Closing' = Closing /\ FromRest' = FromRest /\ FromAnd' = FromAnd
        /\ FromHundreds' = FromHundreds /\ FromThousands' = FromThousands /\ FromLakhs' = FromLakhs
<1> HAVE meant' = meant /\ form' = form
<1>1. Closing' = Closing
  BY DEF Closing
<1>2. FromRest' = FromRest
  BY <1>1 DEF FromRest
<1>3. FromAnd' = FromAnd
  BY <1>2 DEF FromAnd
<1>4. FromHundreds' = FromHundreds
  BY <1>3 DEF FromHundreds
<1>5. FromThousands' = FromThousands
  BY <1>4 DEF FromThousands
<1>6. FromLakhs' = FromLakhs
  BY <1>5 DEF FromLakhs
<1> QED BY <1>1, <1>2, <1>3, <1>4, <1>5, <1>6

LEMMA EnteredNext ==
    /\ (TypeOK /\ Counted /\ Scaled /\ words = FromAnd /\ current = 100 * Hundreds(meant)
          => (AtAnd /\ found) \/ InRest)'
    /\ (TypeOK /\ Counted /\ Scaled /\ words = FromHundreds /\ current = 0
          => InHundreds \/ (AtAnd /\ found) \/ InRest)'
    /\ (TypeOK /\ Counted /\ LakhsAdded /\ words = FromThousands /\ current = 0
          => InThousands \/ InHundreds \/ (AtAnd /\ found) \/ InRest)'
    /\ (TypeOK /\ Counted /\ total = 0 /\ words = FromLakhs /\ current = 0
          => InLakhs \/ InThousands \/ InHundreds \/ (AtAnd /\ found) \/ InRest)'
BY AndEntered, HundredsEntered, ThousandsEntered, LakhsEntered, PTL

\* The types hold after a step of the scan, which changes nothing of the speaker's.
LEMMA ScanTypes ==
    ASSUME TypeOK, outcome = "scanning", Next
    PROVE  TypeOK' /\ UNCHANGED <<meant, form, numeral>>
<1>1. words # <<>> => Tail(words) \in Seq(Tokens)
  BY DEF TypeOK
<1>2. ASSUME NEW w, Add(w) PROVE TypeOK' /\ UNCHANGED <<meant, form, numeral>>
  <2>1. NumberWords[w] \in Nat /\ words # <<>>
    BY <1>2, Vocabulary DEF Add, Scanning
  <2> QED BY <1>1, <1>2, <2>1 DEF TypeOK, Add, MarkFound, Advance
<1>3. ASSUME Hundred PROVE TypeOK' /\ UNCHANGED <<meant, form, numeral>>
  BY <1>1, <1>3 DEF TypeOK, Hundred, Scanning, MarkFound, Advance
<1>4. ASSUME NEW w, Multiply(w) PROVE TypeOK' /\ UNCHANGED <<meant, form, numeral>>
  <2>1. PICK f \in Nat : f = Multiplier(w)
    BY SMT DEF Multiplier
  <2>2. total' = total + current * f /\ current' = 0 /\ words # <<>>
    BY <1>4, <2>1 DEF Multiply, Carry, Scanning
  <2>3. total' \in Nat
    BY <2>1, <2>2 DEF TypeOK
  <2> QED BY <1>1, <1>4, <2>2, <2>3 DEF TypeOK, Multiply, MarkFound, Advance
<1>5. ASSUME NEW w, Skip(w) PROVE TypeOK' /\ UNCHANGED <<meant, form, numeral>>
  BY <1>1, <1>5 DEF TypeOK, Skip, Scanning, Advance, scan
<1>6. ASSUME Finish PROVE TypeOK' /\ UNCHANGED <<meant, form, numeral>>
  BY <1>6 DEF TypeOK, Finish, scan
<1>7. ~ReadNumeral /\ ~NoNumeral
  BY DEF ReadNumeral, NoNumeral
<1> QED BY <1>2, <1>3, <1>4, <1>5, <1>6, <1>7 DEF Next

LEMMA AllAdded ==
    TypeOK /\ Scaled /\ current = 100 * Hundreds(meant) + Rest(meant) => total + current = meant
<1> HAVE TypeOK /\ Scaled /\ current = 100 * Hundreds(meant) + Rest(meant)
<1>1. PICK n \in Nat, a \in Nat, b \in Nat, c \in Nat, d \in Nat :
        /\ n = meant /\ a = Lakhs(meant) /\ b = Thousands(meant) /\ c = Hundreds(meant)
        /\ d = Rest(meant)
  BY Naturals, Zenon
<1>2. n = 100000 * a + 1000 * b + 100 * c + d
  BY <1>1, Ranges, Digits, SMT
<1>3. total = 100000 * a + 1000 * b
  BY <1>1, SMT DEF Scaled
<1>4. current = 100 * c + d
  BY <1>1, SMT
<1>5. total + current = n
  BY <1>2, <1>3, <1>4, SMT
<1> QED BY <1>1, <1>5, Zenon

LEMMA ScaledKept ==
    meant' = meant /\ total' = total => (Scaled => Scaled') /\ (LakhsAdded => LakhsAdded')
BY DEF Scaled, LakhsAdded

LEMMA FoundCounted ==
    ASSUME TypeOK', found' = TRUE, current' > 0 \/ total' > 0
    PROVE  Counted'
<1>1. total' \in Nat /\ current' \in Nat
  BY DEF TypeOK
<1>2. \A t, c \in Nat : c > 0 \/ t > 0 => t + c > 0
  OBVIOUS
<1>3. total' + current' > 0
  BY <1>1, <1>2, Zenon
<1> QED BY <1>3, Zenon DEF Counted

\* The scan of a positive amount goes on counting, and ends with the amount meant.
LEMMA LakhsStep ==
    ASSUME TypeOK, Spoken, outcome = "scanning", Next, InLakhs
    PROVE  outcome' = "scanning" /\ Counting'
<1>1. TypeOK' /\ UNCHANGED <<meant, form>>
  BY ScanTypes
<1>2. PICK v \in 0..99, s \in Seq(Tokens) : v = Lakhs(meant) /\ s = FromThousands
  BY Ranges, FromTokens
<1>3. Within(words, current, v, "lakh", s) /\ total = 0 /\ current \in Nat
  BY <1>2, Naturals DEF InLakhs
<1>4. /\ outcome' = "scanning" /\ found' = TRUE
      /\ \/ Within(words', current', v, "lakh", s) /\ current' > 0 /\ total' = total
         \/ words' = s /\ current' = 0 /\ total' = total + v * Multiplier("lakh")
  BY <1>3, SectionStep
<1>5. v = Lakhs(meant)' /\ s = FromThousands' /\ Spoken'
  BY <1>1, <1>2, FromKept DEF Spoken
<1>6. v > 0
  BY <1>3 DEF Within
<1>7. CASE Within(words', current', v, "lakh", s) /\ current' > 0 /\ total' = total
  <2>1. InLakhs'
    BY <1>3, <1>5, <1>7 DEF InLakhs
  <2>2. Counted'
    BY <1>1, <1>4, <1>7, FoundCounted
  <2> QED BY <1>4, <1>5, <2>1, <2>2 DEF Counting
<1>8. CASE words' = s /\ current' = 0 /\ total' = total + v * Multiplier("lakh")
  <2>1. total' = 100000 * v /\ total' > 0
    <3>1. Multiplier("lakh") = 100000
      BY DEF Multiplier
    <3>2. total' = 0 + v * 100000
      BY <1>3, <1>8, <3>1
    <3> QED BY <1>6, <3>2, SMT
  <2>2. Counted'
    BY <1>1, <1>4, <2>1, FoundCounted
  <2>3. LakhsAdded'
    BY <1>5, <2>1, SMT DEF LakhsAdded
  <2>4. (InThousands \/ InHundreds \/ (AtAnd /\ found) \/ InRest)'
    BY <1>1, <1>5, <1>8, <2>2, <2>3, EnteredNext
  <2> QED BY <1>4, <1>5, <2>2, <2>4, Zenon DEF Counting
<1> QED BY <1>4, <1>7, <1>8

LEMMA ThousandsStep ==
    ASSUME TypeOK, Spoken, outcome = "scanning", Next, InThousands
    PROVE  outcome' = "scanning" /\ Counting'
<1>1. TypeOK' /\ UNCHANGED <<meant, form>>
  BY ScanTypes
<1>2. PICK v \in 0..99, u \in Nat, s \in Seq(Tokens) :
        v = Thousands(meant) /\ u = Lakhs(meant) /\ s = FromHundreds
  BY Ranges, Naturals, FromTokens
<1>3. Within(words, current, v, "thousand", s) /\ current \in Nat /\ total \in Nat
  BY <1>2, Naturals DEF InThousands
<1>4. /\ outcome' = "scanning" /\ found' = TRUE
      /\ \/ Within(words', current', v, "thousand", s) /\ current' > 0 /\ total' = total
         \/ words' = s /\ current' = 0 /\ total' = total + v * Multiplier("thousand")
  BY <1>3, SectionStep
<1>5. v = Thousands(meant)' /\ u = Lakhs(meant)' /\ s = FromHundreds' /\ Spoken'
  BY <1>1, <1>2, FromKept DEF Spoken
<1>6. v > 0
  BY <1>3 DEF Within
<1>7. CASE Within(words', current', v, "thousand", s) /\ current' > 0 /\ total' = total
  <2>1. LakhsAdded'
    BY <1>1, <1>2, <1>7, ScaledKept DEF InThousands
  <2>2. InThousands'
    BY <1>5, <1>7, <2>1, Zenon DEF InThousands
  <2>3. Counted'
    BY <1>1, <1>4, <1>7, FoundCounted
  <2> QED BY <1>4, <1>5, <2>2, <2>3, Zenon DEF Counting
<1>8. CASE words' = s /\ current' = 0 /\ total' = total + v * Multiplier("thousand")
  <2>1. total' = 100000 * u + 1000 * v /\ total' > 0
    <3>1. Multiplier("thousand") = 1000
      BY DEF Multiplier
    <3>2. total = 100000 * u
      BY <1>2, SMT DEF InThousands, LakhsAdded
    <3>3. total' = 100000 * u + v * 1000
      BY <1>8, <3>1, <3>2, SMT
    <3> QED BY <1>6, <3>3, SMT
  <2>2. Counted'
    BY <1>1, <1>4, <2>1, FoundCounted
  <2>3. Scaled'
    BY <1>5, <2>1, SMT DEF Scaled
  <2>4. (InHundreds \/ (AtAnd /\ found) \/ InRest)'
    BY <1>1, <1>5, <1>8, <2>2, <2>3, EnteredNext
  <2> QED BY <1>4, <1>5, <2>2, <2>4, Zenon DEF Counting
<1> QED BY <1>4, <1>7, <1>8

LEMMA HundredsStep ==
    ASSUME TypeOK, Spoken, outcome = "scanning", Next, InHundreds
    PROVE  outcome' = "scanning" /\ Counting'
<1>1. TypeOK' /\ UNCHANGED <<meant, form>>
  BY ScanTypes
<1>2. PICK v \in 0..99, s \in Seq(Tokens) : v = Hundreds(meant) /\ s = FromAnd
  BY Ranges, FromTokens
<1>3. Within(words, current, v, "hundred", s) /\ current \in Nat /\ total \in Nat
  BY <1>2, Naturals DEF InHundreds
<1>4. /\ outcome' = "scanning" /\ found' = TRUE /\ total' = total
      /\ \/ Within(words', current', v, "hundred", s) /\ current' > 0
         \/ words' = s /\ current' = 100 * v
  BY <1>3, SectionStep
<1>5. v = Hundreds(meant)' /\ s = FromAnd' /\ Spoken'
  BY <1>1, <1>2, FromKept DEF Spoken
<1>6. v > 0
  BY <1>3 DEF Within
<1>7. Scaled'
  BY <1>1, <1>4, ScaledKept DEF InHundreds
<1>8. CASE Within(words', current', v, "hundred", s) /\ current' > 0
  <2>1. InHundreds'
    BY <1>5, <1>7, <1>8, Zenon DEF InHundreds
  <2>2. Counted'
    BY <1>1, <1>4, <1>8, FoundCounted
  <2> QED BY <1>4, <1>5, <2>1, <2>2, Zenon DEF Counting
<1>9. CASE words' = s /\ current' = 100 * v
  <2>1. current' > 0
    BY <1>6, <1>9
  <2>2. Counted'
    BY <1>1, <1>4, <2>1, FoundCounted
  <2>3. current' = 100 * Hundreds(meant)' /\ words' = FromAnd'
    BY <1>5, <1>9
  <2>4. ((AtAnd /\ found) \/ InRest)'
    BY <1>1, <1>7, <2>2, <2>3, EnteredNext
  <2> QED BY <1>4, <1>5, <2>2, <2>4, Zenon DEF Counting
<1> QED BY <1>4, <1>8, <1>9, Zenon

\* A word the scan takes no notice of is passed over while nothing has been found,
\* and a connective always.
LEMMA WordSkipped ==
    ASSUME outcome = "scanning", Next, NEW w \in {"pay", "and", "rupees"}, NEW s \in Seq(Tokens),
           words = Cons(w, s), ~found \/ w # "pay"
    PROVE  /\ words' = s
           /\ UNCHANGED <<meant, form, numeral, outcome, amount, total, current, found>>
<1>1. w \in Tokens
  BY ScaleTokens
<1>2. words # <<>> /\ Head(words) = w /\ Tail(words) = s
  BY <1>1, ConsScanned
<1>3. w \notin DOMAIN NumberWords /\ w \notin {"hundred", "thousand", "lakh"}
  BY Vocabulary
<1>4. Skip(w)
  <2>1. found => w \in Connectives
    BY DEF Connectives
  <2>2. ~Hundred /\ ~Add(Head(words)) /\ ~Multiply(Head(words))
    BY <1>2, <1>3 DEF Hundred, Add, Multiply, Scanning
  <2> QED BY <1>2, <1>3, <2>1, <2>2, HeadScanned
<1> QED BY <1>2, <1>4 DEF Skip, Advance, scan

\* The scan ends at the end of the tokens or, once a number has been found, at a
\* word of another kind.
LEMMA ScanEnded ==
    ASSUME outcome = "scanning", Next,
           words = <<>> \/ (found /\ words = <<"to", "one">>)
    PROVE  Finish
<1>1. CASE words = <<>>
  <2>1. Range(words) = {}
    BY <1>1 DEF Range
  <2>2. ~ReadNumeral /\ ~NoNumeral /\ ~Hundred
    BY <1>1 DEF ReadNumeral, NoNumeral, Hundred, Scanning
  <2> QED BY <2>1, <2>2 DEF Next
<1>2. CASE found /\ words = <<"to", "one">>
  <2>1. words # <<>> /\ Head(words) = "to"
    BY <1>2
  <2>2. "to" \notin Connectives /\ "to" \notin DOMAIN NumberWords
    BY Vocabulary DEF Connectives
  <2> QED BY <2>1, <2>2, HeadScanned
<1> QED BY <1>1, <1>2

LEMMA PayStep ==
    ASSUME TypeOK, Spoken, Counted, outcome = "scanning", Next,
           words = Cons("pay", FromLakhs), total = 0, current = 0
    PROVE  outcome' = "scanning" /\ Counting'
<1>1. TypeOK' /\ UNCHANGED <<meant, form>>
  BY ScanTypes
<1>2. PICK s \in Seq(Tokens) : s = FromLakhs
  BY Ranges, FromTokens
<1>3. ~found
  BY DEF Counted, TypeOK
<1>4. words' = s /\ UNCHANGED <<outcome, total, current, found>>
  BY <1>2, <1>3, WordSkipped
<1>5. Counted' /\ Spoken' /\ s = FromLakhs'
  BY <1>1, <1>2, <1>4, FromKept DEF Counted, Spoken
<1>6. (InLakhs \/ InThousands \/ InHundreds \/ (AtAnd /\ found) \/ InRest)'
  BY <1>1, <1>4, <1>5, EnteredNext
<1> QED BY <1>4, <1>5, <1>6, Zenon DEF Counting

LEMMA AndStep ==
    ASSUME TypeOK, Spoken, Counted, outcome = "scanning", Next, AtAnd, found
    PROVE  outcome' = "scanning" /\ Counting'
<1>1. TypeOK' /\ UNCHANGED <<meant, form>>
  BY ScanTypes
<1>2. PICK s \in Seq(Tokens), d \in Nat, c \in Nat :
        s = FromRest /\ d = Rest(meant) /\ c = Hundreds(meant)
  BY Ranges, Naturals, FromTokens
<1>3. words' = s /\ UNCHANGED <<outcome, total, current, found>>
  BY <1>2, WordSkipped DEF AtAnd
<1>4. Counted' /\ Spoken'
  BY <1>1, <1>3 DEF Counted, Spoken
<1>5. Scaled'
  BY <1>1, <1>3, ScaledKept DEF AtAnd
<1>6. words' = Number(d, Closing') /\ current' = 100 * c + d - d /\ d \in 0..d
  <2>1. words' = Number(d, Closing')
    BY <1>1, <1>2, <1>3, FromKept DEF FromRest
  <2>2. current' = 100 * c
    BY <1>2, <1>3 DEF AtAnd
  <2> QED BY <2>1, <2>2
<1>7. d = Rest(meant)' /\ c = Hundreds(meant)'
  BY <1>1, <1>2
<1>8. InRest'
  BY <1>5, <1>6, <1>7, Zenon DEF InRest
<1> QED BY <1>3, <1>4, <1>8, Zenon DEF Counting

LEMMA RestStep ==
    ASSUME TypeOK, Spoken, Counted, meant > 0, outcome = "scanning", Next, InRest
    PROVE  \/ outcome' = "scanning" /\ Counting'
           \/ outcome' = "read" /\ amount' = meant
<1>1. TypeOK' /\ UNCHANGED <<meant, form>>
  BY ScanTypes
<1>2. PICK s \in Seq(Tokens), d \in 0..99, c \in Nat :
        s = Closing /\ d = Rest(meant) /\ c = Hundreds(meant)
  BY Ranges, Naturals, ClosingTokens
<1>3. PICK r \in 0..d : words = Number(r, s) /\ current = 100 * c + d - r
  BY <1>2 DEF InRest
<1>4. Spoken' /\ s = Closing' /\ d = Rest(meant)' /\ c = Hundreds(meant)'
  BY <1>1, <1>2, FromKept DEF Spoken
<1>5. CASE r > 0
  <2>0. current \in Nat
    BY Naturals
  <2>1. r \in 1..99 /\ r <= d
    BY <1>5, SMT
  <2>2. PICK q \in 0..r :
          /\ q < r /\ words' = Number(q, s) /\ current' = current + (r - q) /\ found' = TRUE
          /\ UNCHANGED <<meant, form, numeral, outcome, amount, total>>
    BY <1>3, <2>1, <2>0, AddedUp, Zenon
  <2>3. q \in 0..d /\ current' = 100 * c + d - q /\ current' > 0
    BY <1>3, <2>1, <2>2, SMT
  <2>4. Scaled'
    BY <2>2, ScaledKept DEF InRest
  <2>5. InRest'
    BY <1>4, <2>2, <2>3, <2>4, Zenon DEF InRest
  <2>6. Counted'
    BY <1>1, <2>2, <2>3, FoundCounted
  <2> QED BY <1>4, <2>2, <2>5, <2>6, Zenon DEF Counting
<1>6. CASE r = 0
  <2>1. words = Closing /\ current = 100 * c + d
    <3>1. words = Number(0, s) /\ current = 100 * c + d - 0
      BY <1>3, <1>6
    <3>2. Number(0, s) = s
      BY DEF Number
    <3> QED BY <1>2, <3>1, <3>2
  <2>2. total + current = meant
    BY <1>2, <2>1, AllAdded DEF InRest
  <2>3. found
    BY <2>2, Naturals DEF Counted
  <2>4. CASE form = "words"
    <3>1. PICK t \in Seq(Tokens) : t = <<"to", "one">>
      <4>1. <<"to", "one">> \in Seq(Tokens)
        BY ScaleTokens
      <4> QED BY <4>1
    <3>2. words = Cons("rupees", t)
      BY <2>1, <2>4, <3>1 DEF Closing, Cons
    <3>3. words' = t /\ UNCHANGED <<outcome, total, current, found>>
      BY <2>3, <3>2, WordSkipped
    <3>4. Closed'
      BY <1>1, <2>2, <2>4, <3>1, <3>3 DEF Closed
    <3>5. Counted'
      BY <3>3 DEF Counted
    <3> QED BY <1>4, <3>3, <3>4, <3>5, Zenon DEF Counting
  <2>5. CASE form # "words"
    <3>1. words = <<>>
      BY <2>1, <2>5 DEF Closing
    <3>2. Finish
      BY <3>1, ScanEnded
    <3> QED BY <2>2, <2>3, <3>2 DEF Finish
  <2> QED BY <2>4, <2>5
<1>7. r > 0 \/ r = 0
  BY <1>2, <1>3
<1> QED BY <1>5, <1>6, <1>7, Zenon

LEMMA ClosedStep ==
    ASSUME TypeOK, Counted, meant > 0, outcome = "scanning", Next, Closed
    PROVE  outcome' = "read" /\ amount' = meant
<1>1. found
  BY Naturals DEF Counted, Closed
<1>2. Finish
  BY <1>1, ScanEnded DEF Closed
<1> QED BY <1>1, <1>2 DEF Finish, Closed

LEMMA CountingStep ==
    ASSUME TypeOK, meant > 0, outcome = "scanning", Next, Counting
    PROVE  \/ outcome' = "scanning" /\ Counting'
           \/ outcome' = "read" /\ amount' = meant
<1>1. Spoken /\ Counted
  BY DEF Counting
<1>2. CASE form = "words" /\ words = Cons("pay", FromLakhs) /\ total = 0 /\ current = 0
  BY <1>1, <1>2, PayStep
<1>3. CASE InLakhs
  BY <1>1, <1>3, LakhsStep
<1>4. CASE InThousands
  BY <1>1, <1>4, ThousandsStep
<1>5. CASE InHundreds
  BY <1>1, <1>5, HundredsStep
<1>6. CASE AtAnd /\ found
  BY <1>1, <1>6, AndStep
<1>7. CASE InRest
  BY <1>1, <1>7, RestStep
<1>8. CASE Closed
  BY <1>1, <1>8, ClosedStep
<1> QED BY <1>2, <1>3, <1>4, <1>5, <1>6, <1>7, <1>8, Zenon DEF Counting

\* The scan of nothing finds nothing, and ends in a refusal.
LEMMA NaughtStep ==
    ASSUME TypeOK, outcome = "scanning", Next, Naught
    PROVE  \/ outcome' = "scanning" /\ Naught'
           \/ outcome' = "refused"
<1>1. UNCHANGED form /\ Closing' = Closing /\ (Spoken' <=> Spoken)
  <2>1. UNCHANGED <<meant, form>>
    BY ScanTypes
  <2> QED BY <2>1, FromKept DEF Spoken
<1>2. total = 0 /\ current = 0
  BY DEF Naught
<1>3. PICK c \in Seq(Tokens) : c = Closing
  BY ClosingTokens
<1>4. PICK z \in Seq(Tokens) : z = Cons("zero", c) /\ z # <<>> /\ Head(z) = "zero" /\ Tail(z) = c
  BY ScaleTokens, ConsScanned
<1>5. Finish => outcome' = "refused"
  BY <1>2 DEF Finish
<1>6. CASE Spoken /\ ~found /\ words = Cons("pay", z)
  <2>1. words' = z /\ UNCHANGED <<outcome, total, current, found>>
    BY <1>6, WordSkipped
  <2> QED BY <1>1, <1>2, <1>3, <1>4, <1>6, <2>1 DEF Naught
<1>7. CASE Spoken /\ ~found /\ words = z
  <2>1. Add("zero")
    BY <1>4, <1>7, NumberAdded, Vocabulary
  <2>2. words' = c /\ found' = TRUE /\ UNCHANGED <<outcome, total>> /\ current' = current + 0
    BY <1>4, <1>7, <2>1, Vocabulary DEF Add, MarkFound, Advance
  <2> QED BY <1>1, <1>2, <1>3, <1>7, <2>2 DEF Naught
<1>8. CASE Spoken /\ found /\ words = c
  <2>1. CASE form = "words"
    <3>1. PICK t \in Seq(Tokens) : t = <<"to", "one">>
      <4>1. <<"to", "one">> \in Seq(Tokens)
        BY ScaleTokens
      <4> QED BY <4>1
    <3>2. words = Cons("rupees", t)
      BY <1>3, <1>8, <2>1, <3>1 DEF Closing, Cons
    <3>3. words' = t /\ UNCHANGED <<outcome, total, current, found>>
      BY <1>8, <3>2, WordSkipped
    <3> QED BY <1>1, <1>2, <1>8, <3>1, <3>3 DEF Naught
  <2>2. CASE form # "words"
    <3>1. words = <<>>
      BY <1>3, <1>8, <2>2 DEF Closing
    <3> QED BY <1>5, <3>1, ScanEnded
  <2> QED BY <2>1, <2>2
<1>9. CASE Spoken /\ found /\ words = <<"to", "one">>
  BY <1>5, <1>9, ScanEnded
<1>10. CASE ~Spoken /\ ~found /\ words = <<"rupees">>
  <2>1. <<>> \in Seq(Tokens) /\ words = Cons("rupees", <<>>)
    BY <1>10 DEF Cons
  <2>2. words' = <<>> /\ UNCHANGED <<outcome, total, current, found>>
    BY <2>1, WordSkipped
  <2> QED BY <1>1, <1>2, <1>10, <2>2 DEF Naught
<1>11. CASE words = <<>>
  BY <1>5, <1>11, ScanEnded
<1> QED BY <1>3, <1>4, <1>6, <1>7, <1>8, <1>9, <1>10, <1>11 DEF Naught

LEMMA FormCases ==
    TypeOK => Spoken \/ form \in {"plain", "grouped", "lakhs", "scaled"}
BY ConstantsAssumption DEF TypeOK, Spoken

\* A transcript's words are tokens; a figure has "rupees" after it, or "thousand" first.
LEMMA TranscriptTokens ==
    ASSUME meant \in Amounts, form \in Forms
    PROVE  /\ Transcript(meant, form).words \in Seq(Tokens)
           /\ ~Spoken /\ form # "scaled" => Transcript(meant, form).words = <<"rupees">>
<1>1. CASE Spoken
  <2>1. SpelledWords \in Seq(Tokens) /\ Cons("pay", SpelledWords) \in Seq(Tokens)
    BY <1>1, SpokenTranscript, ScaleTokens, ConsScanned
  <2> QED BY <1>1, <2>1, SpokenTranscript
<1>2. CASE form \in {"plain", "grouped", "lakhs", "scaled"}
  <2>1. <<"rupees">> \in Seq(Tokens) /\ <<"thousand", "rupees">> \in Seq(Tokens)
    BY ScaleTokens
  <2> QED BY <1>2, <2>1, Zenon DEF Transcript
<1> QED BY <1>1, <1>2, ConstantsAssumption DEF Spoken

LEMMA InitScan == Init => ScanInv
<1> SUFFICES ASSUME Init PROVE ScanInv
  OBVIOUS
<1>1. meant \in Amounts /\ form \in Forms
  BY DEF Init
<1>2. words \in Seq(Tokens)
  BY <1>1, TranscriptTokens DEF Init
<1>3. TypeOK
  BY <1>1, <1>2, Zenon DEF TypeOK, Init
<1> QED BY <1>3 DEF ScanInv, AmountAsMeant, Init

\* Of a figure, an amount above nothing is read at once: all that is not read is zero.
LEMMA ReadNumeralStep ==
    ASSUME ScanInv, ReadNumeral
    PROVE  outcome' = "read" /\ TypeOK'
           /\ IF form \in {"lakhs", "scaled"} THEN amount' \in 1..meant ELSE amount' = meant
<1>1. TypeOK /\ meant \in Amounts /\ meant \in Nat
  BY Ranges DEF ScanInv
<1>2. numeral = Transcript(meant, form).numeral /\ numeral # <<>> /\ Matched(numeral) > 0
  BY DEF ScanInv, ReadNumeral
<1>3. ~Spoken
  BY <1>1, <1>2, SpokenTranscript
<1>4. form \in {"plain", "grouped", "lakhs", "scaled"}
  BY <1>1, <1>3, FormCases
<1>5. form = "scaled" => meant > 0 /\ meant % 1000 = 0
  BY DEF ScanInv
<1>6. PICK m \in Int : /\ m = Matched(numeral) /\ m \in 0..meant
                       /\ form \in {"plain", "grouped"} => m = meant
  BY <1>1, <1>2, <1>4, <1>5, FiguresMatched
<1>7. outcome' = "read" /\ amount' = m /\ m > 0
  BY <1>2, <1>6 DEF ReadNumeral
<1>8. m \in 1..meant /\ m \in Nat
  BY <1>1, <1>6, <1>7
<1>9. TypeOK'
  BY <1>1, <1>7, <1>8 DEF TypeOK, ReadNumeral, scan
<1> QED BY <1>4, <1>6, <1>7, <1>8, <1>9

\* A scan begins before the first section of a positive amount, or before a zero.
LEMMA NoNumeralStep ==
    ASSUME ScanInv, NoNumeral
    PROVE  IF meant = 0 THEN Naught ELSE Counting
<1>1. TypeOK /\ meant \in Amounts /\ meant \in Nat /\ form \in Forms
  BY Ranges DEF ScanInv, TypeOK
<1>2. /\ words = Transcript(meant, form).words /\ total = 0 /\ current = 0 /\ ~found
      /\ numeral = Transcript(meant, form).numeral
      /\ form = "scaled" => meant > 0 /\ meant % 1000 = 0
      /\ numeral # <<>> => Matched(numeral) = 0
  BY DEF ScanInv, NoNumeral
<1>3. CASE Spoken /\ meant = 0
  <2>1. SpelledWords = Cons("zero", Closing)
    BY <1>3 DEF SpelledWords
  <2>2. words \in {Cons("pay", Cons("zero", Closing)), Cons("zero", Closing)}
    BY <1>1, <1>2, <1>3, <2>1, SpokenTranscript
  <2> QED BY <1>2, <1>3, <2>2 DEF Naught
<1>4. CASE Spoken /\ meant # 0
  <2>1. SpelledWords = FromLakhs
    BY <1>4 DEF SpelledWords
  <2>2. words = IF form = "words" THEN Cons("pay", FromLakhs) ELSE FromLakhs
    BY <1>1, <1>2, <1>4, <2>1, SpokenTranscript
  <2>3. Counted
    BY <1>2 DEF Counted
  <2>4. words = FromLakhs => InLakhs \/ InThousands \/ InHundreds \/ (AtAnd /\ found) \/ InRest
    BY <1>1, <1>2, <2>3, LakhsEntered
  <2> QED BY <1>2, <1>4, <2>2, <2>3, <2>4 DEF Counting
<1>5. CASE ~Spoken
  <2>1. form \in {"plain", "grouped", "lakhs", "scaled"}
    BY <1>1, <1>5, FormCases
  <2>2. meant = 0
    BY <1>1, <1>2, <2>1, FiguresMatched
  <2>3. form # "scaled"
    BY <1>2, <2>2
  <2>4. words = <<"rupees">>
    BY <1>1, <1>2, <1>5, <2>3, TranscriptTokens
  <2> QED BY <1>2, <1>5, <2>2, <2>4 DEF Naught
<1> QED BY <1>3, <1>4, <1>5

LEMMA ScanKept ==
    UNCHANGED <<meant, form, words, total, current, found>> =>
        (Naught <=> Naught') /\ (Counting <=> Counting')
<1> HAVE UNCHANGED <<meant, form, words, total, current, found>>
<1>1. Spoken' = Spoken /\ Closing' = Closing /\ FromRest' = FromRest /\ FromAnd' = FromAnd
      /\ FromHundreds' = FromHundreds /\ FromThousands' = FromThousands /\ FromLakhs' = FromLakhs
  BY FromKept DEF Spoken
<1>2. LakhsAdded' = LakhsAdded /\ Scaled' = Scaled /\ Counted' = Counted
  BY DEF LakhsAdded, Scaled, Counted
<1>3. Naught' = Naught
  BY <1>1 DEF Naught
<1>4. InLakhs' = InLakhs /\ InThousands' = InThousands /\ InHundreds' = InHundreds
  BY <1>1, <1>2 DEF InLakhs, InThousands, InHundreds
<1>5. AtAnd' = AtAnd /\ InRest' = InRest /\ Closed' = Closed
  BY <1>1, <1>2 DEF AtAnd, InRest, Closed
<1>6. Counting' = Counting
  BY <1>1, <1>2, <1>4, <1>5 DEF Counting
<1> QED BY <1>3, <1>6

LEMMA NextScan == ScanInv /\ Next => ScanInv'
<1> SUFFICES ASSUME ScanInv, Next PROVE ScanInv'
  OBVIOUS
<1>1. TypeOK /\ meant \in Nat
  BY Ranges DEF ScanInv
<1>2. CASE ReadNumeral
  <2>1. UNCHANGED <<meant, form, numeral>>
    BY <1>2 DEF ReadNumeral
  <2> QED BY <1>2, <2>1, ReadNumeralStep, Zenon DEF ScanInv, AmountAsMeant
<1>3. CASE NoNumeral
  <2>1. /\ UNCHANGED <<meant, form, numeral, words, total, current, found, amount>>
        /\ outcome' = "scanning"
    BY <1>3 DEF NoNumeral, scan
  <2>2. TypeOK'
    BY <1>1, <2>1 DEF TypeOK
  <2>3. IF meant = 0 THEN Naught' ELSE Counting'
    <3>1. IF meant = 0 THEN Naught ELSE Counting
      BY <1>3, NoNumeralStep
    <3> QED BY <2>1, <3>1, ScanKept
  <2> QED BY <2>1, <2>2, <2>3 DEF ScanInv, AmountAsMeant
<1>4. CASE outcome = "scanning"
  <2>1. TypeOK' /\ UNCHANGED <<meant, form, numeral>>
    BY <1>1, <1>4, ScanTypes
  <2>2. CASE meant = 0
    <3>1. Naught
      BY <1>4, <2>2 DEF ScanInv
    <3>2. (outcome' = "scanning" /\ Naught') \/ outcome' = "refused"
      BY <1>1, <1>4, <3>1, NaughtStep
    <3> QED BY <2>1, <2>2, <3>2 DEF ScanInv, AmountAsMeant
  <2>3. CASE meant # 0
    <3>1. Counting /\ Spoken
      BY <1>4, <2>3 DEF ScanInv, Counting
    <3>2. (outcome' = "scanning" /\ Counting') \/ (outcome' = "read" /\ amount' = meant)
      BY <1>1, <1>4, <2>3, <3>1, CountingStep
    <3> QED BY <2>1, <2>3, <3>1, <3>2 DEF ScanInv, AmountAsMeant, Spoken
  <2> QED BY <2>2, <2>3
<1>5. ReadNumeral \/ NoNumeral \/ outcome = "scanning"
  BY DEF Next, Hundred, Finish, Add, Multiply, Skip, Scanning
<1> QED BY <1>2, <1>3, <1>4, <1>5

-----------------------------------------------------------------------------
(* The theorems                                                            *)

\* The scan is where the transcript's tokens and the sums say it is, at every step.
THEOREM ScanInvariance == Spec => []ScanInv
<1>1. Init => ScanInv
  BY InitScan
<1>2. ScanInv /\ [Next]_vars => ScanInv'
  <2>1. ScanInv /\ UNCHANGED vars => ScanInv'
    BY ScanKept DEF vars, ScanInv, TypeOK, AmountAsMeant
  <2> QED BY <2>1, NextScan
<1> QED BY <1>1, <1>2, PTL DEF Spec

\* Whatever is left to scan is a sequence of the vocabulary's tokens, and both sums are
\* natural numbers.
THEOREM AmountTypeCorrect == Spec => []TypeOK
<1>1. ScanInv => TypeOK
  BY DEF ScanInv
<1> QED BY <1>1, ScanInvariance, PTL

\* The amount read is the amount meant, however it was put, but for the two forms that
\* lose what follows a group of two digits or a figure before a scale word; nothing is
\* refused where something is meant.
THEOREM ReadsAsMeant == Spec => []AmountAsMeant
<1>1. ScanInv => AmountAsMeant
  BY DEF ScanInv
<1> QED BY <1>1, ScanInvariance, PTL

=============================================================================
