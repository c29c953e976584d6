-------------------------- MODULE RentQuotesProofs --------------------------
(***************************************************************************)
(* What the prices and the windows of accepted offers guarantee, for words *)
(* of any size, minutes of any length and any arrays of rules.             *)
(***************************************************************************)
EXTENDS RentQuotes, WellFoundedInduction, TLAPS

(***************************************************************************)
(* What is published is valid and stored as submitted, and what is         *)
(* accepted fits it and pays for it.                                       *)
(***************************************************************************)
PublishedInv ==
  IF published = << >>
    THEN requestExtra = NoExtra /\ offerExtra = NoExtra
    ELSE /\ published \in Seq(Word)
         /\ RequestExtraIsValid(published)
         /\ requestExtra = RequestExtraFromRawArray(published)

Acceptable(extra) ==
  /\ extra.startOfRentTime \in Word
  /\ extra.duration \in Word
  /\ extra.priceOffered \in Nat
  /\ OfferIsAcceptable(requestExtra, extra)

QuotesInv ==
  /\ PublishedInv
  /\ Accepted => published # << >> /\ Acceptable(offerExtra)

LEMMA InitQuotesInv == Init => QuotesInv
BY DEF Init, QuotesInv, PublishedInv, Accepted

LEMMA NextQuotesInv == QuotesInv /\ [Next]_vars => QuotesInv'
<1> SUFFICES ASSUME QuotesInv, [Next]_vars PROVE QuotesInv'
  OBVIOUS
<1>1. ASSUME NEW extra \in RequestExtraInputs, PublishRequest(extra) PROVE QuotesInv'
  <2>1. extra \in Seq(Word) /\ extra # << >>
    BY <1>1, QuotesAssumption DEF PublishRequest, RequestExtraIsValid
  <2>2. offerExtra' = NoExtra
    BY <1>1 DEF PublishRequest, QuotesInv, PublishedInv
  <2> QED BY <1>1, <2>1, <2>2 DEF PublishRequest, QuotesInv, PublishedInv, Accepted
<1>2. ASSUME NEW extra \in OfferExtraInputs, NEW paid \in Payments, AcceptOffer(extra, paid)
      PROVE  QuotesInv'
  <2>1. PublishedInv' /\ published' # << >> /\ requestExtra' = requestExtra
    BY <1>2 DEF AcceptOffer, QuotesInv, PublishedInv
  <2>2. /\ offerExtra' = OfferExtraFromRawArray(extra, paid)
        /\ OfferIsAcceptable(requestExtra, offerExtra')
    BY <1>2 DEF AcceptOffer
  <2>3. extra[1] \in Word /\ extra[2] \in Word /\ paid \in Nat
    BY <1>2, QuotesAssumption DEF AcceptOffer, OfferExtraIsValid
  <2>4. /\ offerExtra'.startOfRentTime \in Word /\ offerExtra'.duration \in Word
        /\ offerExtra'.priceOffered \in Nat
    BY <2>2, <2>3 DEF OfferExtraFromRawArray
  <2> QED BY <2>1, <2>2, <2>4 DEF QuotesInv, Acceptable
<1>3. CASE UNCHANGED vars
  BY <1>3 DEF vars, QuotesInv, PublishedInv, Acceptable, Accepted
<1> QED BY <1>1, <1>2, <1>3 DEF Next

LEMMA QuotesInvariance == Spec => []QuotesInv
BY InitQuotesInv, NextQuotesInv, PTL DEF Spec

-----------------------------------------------------------------------------
(***************************************************************************)
(* The rules of a published request.                                       *)
(***************************************************************************)
\* The array between the head of the request and the key of the locker
\* holds pairs of words.
LEMMA RawRulesFacts ==
  ASSUME NEW extra \in Seq(Word), RequestExtraIsValid(extra)
  PROVE  /\ RawRules(extra) \in Seq(Word)
         /\ Len(RawRules(extra)) % 2 = 0
<1>1. Len(extra) \in Nat /\ Len(extra) >= 4 /\ \A i \in 1 .. Len(extra) : extra[i] \in Word
  BY DEF RequestExtraIsValid
<1>2. RawRules(extra) \in Seq(Word)
  BY <1>1 DEF RawRules
<1>3. Len(RawRules(extra)) % 2 = 0
  BY DEF RequestExtraIsValid, RulesAreValid
<1> QED BY <1>2, <1>3

\* Reading pairs of words as rules and writing them back.
LEMMA RulesRoundTrip ==
  ASSUME NEW raw \in Seq(Word), Len(raw) % 2 = 0
  PROVE  /\ RulesFromRawArray(raw) \in Seq(PricingRule)
         /\ RawArrayFromRules(RulesFromRawArray(raw)) = raw
<1> DEFINE n == Len(raw) \div 2
           rules == RulesFromRawArray(raw)
<1>1. n \in Nat /\ 2 * n = Len(raw)
  OBVIOUS
<1>2. \A i \in 1 .. n : 2*i - 1 \in 1 .. Len(raw) /\ 2*i \in 1 .. Len(raw)
  BY <1>1
<1>3. \A i \in 1 .. n : raw[2*i - 1] \in Word /\ raw[2*i] \in Word
  BY <1>2
<1>4. rules = [i \in 1 .. n |-> [minimumNumberOfMinutes |-> raw[2*i - 1],
                                 minimumPricePerMinute |-> raw[2*i]]]
  BY DEF RulesFromRawArray
<1> HIDE DEF n, rules
<1>5. rules \in [1 .. n -> PricingRule]
  BY <1>3, <1>4 DEF PricingRule
<1>6. rules \in Seq(PricingRule) /\ Len(rules) = n
  BY <1>1, <1>5
<1>7. ASSUME NEW i \in 1 .. Len(raw)
      PROVE  raw[i] = IF i % 2 = 1 THEN rules[(i + 1) \div 2].minimumNumberOfMinutes
                                   ELSE rules[i \div 2].minimumPricePerMinute
  <2>1. CASE i % 2 = 1
    <3> DEFINE k == (i + 1) \div 2
    <3>1. k \in 1 .. n /\ 2*k - 1 = i
      BY <1>1, <2>1
    <3> HIDE DEF k
    <3>2. rules[k].minimumNumberOfMinutes = raw[i]
      BY <1>4, <3>1
    <3> QED BY <2>1, <3>2 DEF k
  <2>2. CASE i % 2 # 1
    <3> DEFINE k == i \div 2
    <3>1. k \in 1 .. n /\ 2*k = i
      BY <1>1, <2>2
    <3> HIDE DEF k
    <3>2. rules[k].minimumPricePerMinute = raw[i]
      BY <1>4, <3>1
    <3> QED BY <2>2, <3>2 DEF k
  <2> QED BY <2>1, <2>2
<1>8. RawArrayFromRules(rules) = [i \in 1 .. Len(raw) |-> raw[i]]
  BY <1>1, <1>6, <1>7 DEF RawArrayFromRules
<1>9. raw = [i \in 1 .. Len(raw) |-> raw[i]]
  OBVIOUS
<1> QED BY <1>6, <1>8, <1>9 DEF rules

LEMMA LeastNumber ==
  ASSUME NEW T, T \subseteq Nat, T # {}
  PROVE  \E x \in T : \A y \in T : x <= y
<1>1. PICK x \in T : \A y \in T : <<y, x>> \notin OpToRel(<, Nat)
  BY NatLessThanWellFounded, WFMin, Zenon
<1>2. ASSUME NEW y \in T PROVE x <= y
  <2>1. x \in Nat /\ y \in Nat /\ ~(y < x)
    BY <1>1 DEF OpToRel
  <2> QED BY <2>1
<1> QED BY <1>2

\* Thresholds that increase from each rule to the next increase throughout:
\* the first rule not above an earlier one would follow a rule that is.
LEMMA Increasing ==
  ASSUME NEW t, NEW n \in Nat, \A i \in 1 .. n : t[i] \in Nat,
         \A i \in 2 .. n : t[i - 1] < t[i]
  PROVE  \A i, j \in 1 .. n : i < j => t[i] < t[j]
<1> SUFFICES ASSUME NEW i \in 1 .. n PROVE \A j \in 1 .. n : i < j => t[i] < t[j]
  OBVIOUS
<1> DEFINE Low == {j \in 1 .. n : i < j /\ ~(t[i] < t[j])}
<1>1. SUFFICES ASSUME Low # {} PROVE FALSE
  OBVIOUS
<1>2. PICK j \in Low : \A k \in Low : j <= k
  <2>1. Low \subseteq Nat
    OBVIOUS
  <2> HIDE DEF Low
  <2> QED BY <1>1, <2>1, LeastNumber
<1>3. j \in 2 .. n /\ j - 1 \in 1 .. n /\ j - 1 \notin Low
  BY <1>2
<1>4. t[j - 1] < t[j] /\ (j - 1 = i \/ t[i] < t[j - 1])
  BY <1>3
<1> QED BY <1>2, <1>3, <1>4

\* What the rules of a published request are.
LEMMA RulesFacts ==
  ASSUME QuotesInv, published # << >>
  PROVE  /\ RawArrayFromRules(Rules) = RawRules(published)
         /\ Rules \in Seq(PricingRule)
         /\ Len(Rules) \in Nat /\ DOMAIN Rules = 1 .. Len(Rules)
         /\ \A i \in DOMAIN Rules : Threshold(i) \in Nat
         /\ \A i, j \in DOMAIN Rules : i < j => Threshold(i) < Threshold(j)
<1>1. published \in Seq(Word) /\ RequestExtraIsValid(published)
      /\ Rules = RulesFromRawArray(RawRules(published))
  BY DEF QuotesInv, PublishedInv, Rules, RequestExtraFromRawArray
<1>2. RawArrayFromRules(Rules) = RawRules(published) /\ Rules \in Seq(PricingRule)
  BY <1>1, RawRulesFacts, RulesRoundTrip
<1>3. \A i \in 2 .. Len(Rules) : Threshold(i - 1) < Threshold(i)
  <2>1. RulesAreValid(RawRules(published), published[2])
    BY <1>1 DEF RequestExtraIsValid
  <2> QED BY <1>1, <2>1 DEF RulesAreValid, Threshold
<1>4. \A i \in 1 .. Len(Rules) : Threshold(i) \in Nat
  <2>1. \A i \in 1 .. Len(Rules) : Rules[i] \in PricingRule
    BY <1>2
  <2>2. \A w \in Word : w \in Nat
    BY PricingAssumption DEF Word
  <2> QED BY <2>1, <2>2 DEF PricingRule, Threshold
<1>5. Len(Rules) \in Nat /\ DOMAIN Rules = 1 .. Len(Rules)
  BY <1>2
<1> DEFINE n == Len(Rules)
           t == [i \in 1 .. n |-> Threshold(i)]
<1>6. \A i \in 1 .. n : t[i] = Threshold(i)
  OBVIOUS
<1> HIDE DEF n, t
<1>7. \A i \in 2 .. n : i - 1 \in 1 .. n /\ i \in 1 .. n
  BY <1>5 DEF n
<1>8. \A i \in 2 .. n : t[i - 1] < t[i]
  BY <1>3, <1>6, <1>7 DEF n
<1>9. \A i, j \in 1 .. n : i < j => t[i] < t[j]
  BY <1>4, <1>5, <1>6, <1>8, Increasing DEF n
<1> QED BY <1>2, <1>4, <1>5, <1>6, <1>9 DEF n

-----------------------------------------------------------------------------
(***************************************************************************)
(* What getRequestExtra answers for the rules is the array the owner       *)
(* submitted, however many rules there are.                                *)
(***************************************************************************)
THEOREM RulesReadBack == Spec => []RulesReadBackAsPublished
<1>1. QuotesInv => RulesReadBackAsPublished
  BY RulesFacts DEF RulesReadBackAsPublished
<1> QED BY <1>1, QuotesInvariance, PTL

-----------------------------------------------------------------------------
(***************************************************************************)
(* The price of an instant rent.                                           *)
(***************************************************************************)
\* The first of a set of rules, and the last.
LEMMA FirstRule ==
  ASSUME NEW n \in Nat, NEW S, S \subseteq 1 .. n, S # {}
  PROVE  Min(S) \in S /\ \A i \in S : Min(S) <= i
<1>1. S \subseteq Nat
  OBVIOUS
<1>2. \E x \in S : \A y \in S : x <= y
  BY <1>1, LeastNumber
<1> QED BY <1>2 DEF Min

LEMMA LastRule ==
  ASSUME NEW n \in Nat, NEW S, S \subseteq 1 .. n, S # {}
  PROVE  Max(S) \in S /\ \A i \in S : i <= Max(S)
<1> DEFINE T == {n - i : i \in S}
<1>0. \A i \in S : i \in Int /\ n - i \in Nat
  OBVIOUS
<1>1. T \subseteq Nat /\ T # {}
  BY <1>0
<1>2. PICK x \in T : \A y \in T : x <= y
  <2> HIDE DEF T
  <2> QED BY <1>1, LeastNumber
<1>3. PICK m \in S : x = n - m
  OBVIOUS
<1>4. ASSUME NEW i \in S PROVE m >= i
  <2>1. n - m <= n - i
    BY <1>2, <1>3
  <2>2. i \in Int /\ m \in Int
    BY <1>0
  <2> HIDE DEF T
  <2> QED BY <2>1, <2>2
<1>5. Max(S) \in S /\ \A i \in S : Max(S) >= i
  BY <1>3, <1>4 DEF Max
<1> QED BY <1>5

\* The rule the search of the contract stops at.
RuleFound(duration) ==
  LET reaching == {i \in DOMAIN Rules : Threshold(i) >= duration}
  IN  IF reaching = {} THEN Len(Rules) ELSE Min(reaching)

\* An instant rent pays, without overflow, the price of the rule found.
LEMMA RentPaysRuleFound ==
  ASSUME QuotesInv, RentsAtOnce, NoPriceOverflow(offerExtra.duration)
  PROVE  LET d == offerExtra.duration
             i == RuleFound(d)
         IN  /\ Rules # << >> /\ i \in DOMAIN Rules /\ d \in Nat
             /\ Rules[i].minimumPricePerMinute * d <= offerExtra.priceOffered
<1> DEFINE d == offerExtra.duration
           reaching == {i \in DOMAIN Rules : Threshold(i) >= d}
           rule == RuleFound(d)
<1>1. published # << >> /\ Acceptable(offerExtra)
  BY DEF QuotesInv, RentsAtOnce
<1>2. d \in Nat /\ offerExtra.offerType = InstantRent /\ offerExtra.priceOffered \in Nat
  BY <1>1, PricingAssumption DEF Acceptable, Word, RentsAtOnce
<1>3. Rules # << >> /\ ExpectedInstantRentPrice(Rules, d) <= offerExtra.priceOffered
  BY <1>1, <1>2 DEF Acceptable, OfferIsAcceptable, PaymentCoversOffer, Rules, Auction,
                    InstantRent
<1>4. /\ Rules \in Seq(PricingRule) /\ Len(Rules) \in Nat
      /\ DOMAIN Rules = 1 .. Len(Rules)
  BY <1>1, RulesFacts
<1>5. ExpectedInstantRentPrice(Rules, d) = Times(Rules[rule].minimumPricePerMinute, d)
  BY DEF ExpectedInstantRentPrice, RuleFound, Threshold
<1>6. rule \in DOMAIN Rules
  <2>1. CASE reaching = {}
    <3>1. Len(Rules) \in 1 .. Len(Rules)
      BY <1>3, <1>4
    <3> QED BY <1>4, <2>1, <3>1 DEF RuleFound
  <2>2. CASE reaching # {}
    <3>1. reaching \subseteq 1 .. Len(Rules)
      BY <1>4
    <3>2. rule = Min(reaching)
      BY <2>2 DEF RuleFound
    <3> HIDE DEF reaching, rule
    <3>3. rule \in reaching
      BY <1>4, <2>2, <3>1, <3>2, FirstRule
    <3> QED BY <3>3 DEF reaching
  <2> QED BY <2>1, <2>2
<1> HIDE DEF rule
<1> DEFINE price == Rules[rule].minimumPricePerMinute
<1>7. price \in Nat /\ price * d < WordSize
  <2>1. Rules[rule] \in PricingRule
    BY <1>4, <1>6
  <2> QED BY <1>6, <2>1, PricingAssumption DEF PricingRule, Word, NoPriceOverflow
<1> HIDE DEF price, d
<1>8. price * d \in Nat
  BY <1>2, <1>7
<1>9. Times(price, d) = price * d
  <2> DEFINE p == price * d
  <2>1. p \in Nat /\ p < WordSize
    BY <1>7, <1>8
  <2> HIDE DEF p
  <2>2. p % WordSize = p
    BY <2>1, PricingAssumption
  <2> QED BY <2>2 DEF p, Times
<1> QED BY <1>2, <1>3, <1>5, <1>6, <1>9 DEF price, d, rule

\* At a threshold, and from the last one on, the rule found is the one the
\* documentation names.
LEMMA RuleFoundIsDocumented ==
  ASSUME QuotesInv, published # << >>, Rules # << >>, NEW d \in Nat,
         (\E i \in DOMAIN Rules : Threshold(i) = d) \/ Threshold(Len(Rules)) <= d
  PROVE  RuleFound(d) = DocumentedRule(d)
<1> DEFINE n == Len(Rules)
           reaching == {i \in DOMAIN Rules : Threshold(i) >= d}
           open == {i \in DOMAIN Rules : Threshold(i) <= d}
<1>1. /\ n \in Nat /\ n >= 1 /\ DOMAIN Rules = 1 .. n
      /\ \A i \in 1 .. n : Threshold(i) \in Nat
      /\ \A i, j \in 1 .. n : i < j => Threshold(i) < Threshold(j)
  <2>1. /\ Rules \in Seq(PricingRule) /\ Len(Rules) \in Nat
        /\ DOMAIN Rules = 1 .. Len(Rules)
        /\ \A i \in DOMAIN Rules : Threshold(i) \in Nat
        /\ \A i, j \in DOMAIN Rules : i < j => Threshold(i) < Threshold(j)
    BY RulesFacts
  <2>2. Len(Rules) # 0
    BY <2>1
  <2>3. n \in Nat /\ n >= 1
    BY <2>1, <2>2
  <2> QED BY <2>1, <2>3
<1>2. reaching \subseteq 1 .. n /\ open \subseteq 1 .. n
  BY <1>1
<1>3. DocumentedRule(d) = Max(open)
  BY DEF DocumentedRule
<1>4. RuleFound(d) = IF reaching = {} THEN n ELSE Min(reaching)
  BY DEF RuleFound
<1>5. ASSUME NEW i \in 1 .. n, Threshold(i) = d
      PROVE  RuleFound(d) = DocumentedRule(d)
  <2>1. i \in reaching /\ i \in open
    BY <1>1, <1>5
  <2>2. \A j \in reaching : j >= i
    BY <1>1, <1>5
  <2>3. \A j \in open : j <= i
    BY <1>1, <1>5
  <2> HIDE DEF n, reaching, open
  <2>4. Min(reaching) \in reaching /\ Min(reaching) <= i
    BY <1>1, <1>2, <2>1, FirstRule
  <2>5. Max(open) \in open /\ i <= Max(open)
    BY <1>1, <1>2, <2>1, LastRule
  <2>6. Min(reaching) = i /\ Max(open) = i
    <3>1. Min(reaching) \in Int /\ Max(open) \in Int
      <4>1. Min(reaching) \in 1 .. n /\ Max(open) \in 1 .. n
        BY <1>2, <2>4, <2>5
      <4> QED BY <4>1
    <3>2. i <= Min(reaching) /\ Max(open) <= i
      BY <2>2, <2>3, <2>4, <2>5
    <3>3. i \in Int
      OBVIOUS
    <3> QED BY <2>4, <2>5, <3>1, <3>2, <3>3
  <2> QED BY <1>3, <1>4, <2>1, <2>6
<1>6. ASSUME Threshold(n) < d
      PROVE  RuleFound(d) = DocumentedRule(d)
  <2>1. \A i \in 1 .. n : Threshold(i) <= Threshold(n)
    BY <1>1
  <2>2. reaching = {} /\ n \in open
    BY <1>1, <1>6, <2>1
  <2> HIDE DEF n, reaching, open
  <2>3. Max(open) \in open /\ n <= Max(open)
    BY <1>1, <1>2, <2>2, LastRule
  <2>4. Max(open) = n
    <3>1. Max(open) \in Int /\ Max(open) <= n
      <4>1. Max(open) \in 1 .. n /\ n \in Nat
        BY <1>1, <1>2, <2>3
      <4> QED BY <4>1
    <3> QED BY <1>1, <2>3, <3>1
  <2> QED BY <1>3, <1>4, <2>2, <2>4
<1>7. (\E i \in 1 .. n : Threshold(i) = d) \/ Threshold(n) < d
  <2>1. n \in 1 .. n /\ Threshold(n) \in Nat
    BY <1>1
  <2>2. (\E i \in 1 .. n : Threshold(i) = d) \/ Threshold(n) <= d
    BY <1>1
  <2> HIDE DEF n
  <2> QED BY <2>1, <2>2
<1> QED BY <1>5, <1>6, <1>7

(***************************************************************************)
(* Without overflow an instant rent pays the documented price when its     *)
(* duration is a threshold or reaches the last one, and the price of some  *)
(* rule whatever its duration: getExpectedInstantRentPriceForOfferDuration *)
(* stops at a rule of the array, for any number of rules and any prices.   *)
(***************************************************************************)
THEOREM RentsPayByTheRules == Spec => []RulesSetThePrice
<1> DEFINE d == offerExtra.duration
<1>1. ASSUME QuotesInv, RentsAtOnce, NoPriceOverflow(d)
      PROVE  /\ Rules # << >> /\ d \in Nat /\ published # << >>
             /\ RuleFound(d) \in DOMAIN Rules
             /\ offerExtra.priceOffered >= Rules[RuleFound(d)].minimumPricePerMinute * d
  BY <1>1, RentPaysRuleFound DEF QuotesInv, RentsAtOnce
<1>2. QuotesInv => DocumentedPriceAtThresholds
  <2> SUFFICES ASSUME QuotesInv, RentsAtOnce, NoPriceOverflow(d),
                      \/ \E i \in DOMAIN Rules : Threshold(i) = d
                      \/ Threshold(Len(Rules)) <= d
               PROVE  offerExtra.priceOffered >= DocumentedPrice(d)
    BY DEF DocumentedPriceAtThresholds
  <2>1. RuleFound(d) = DocumentedRule(d)
    <3>1. Rules # << >> /\ d \in Nat /\ published # << >>
      BY <1>1
    <3> HIDE DEF d
    <3> QED BY <3>1, RuleFoundIsDocumented
  <2> QED BY <1>1, <2>1 DEF DocumentedPrice
<1>3. QuotesInv => CheapestRulePaid
  BY <1>1 DEF CheapestRulePaid
<1>4. QuotesInv => RulesSetThePrice
  BY <1>2, <1>3 DEF RulesSetThePrice
<1> QED BY <1>4, QuotesInvariance, PTL

-----------------------------------------------------------------------------
(***************************************************************************)
(* The window of a rent.                                                   *)
(***************************************************************************)
\* A sum or product that wraps becomes smaller; below WordSize none wraps.
LEMMA EndOnCalendar ==
  ASSUME NEW extra, extra.startOfRentTime \in Word, extra.duration \in Word
  PROVE  /\ EndOfRent(extra) \in Nat /\ CalendarEnd(extra) \in Nat
         /\ EndOfRent(extra) <= CalendarEnd(extra)
         /\ CalendarEnd(extra) < WordSize => EndOfRent(extra) = CalendarEnd(extra)
<1> DEFINE a == extra.startOfRentTime
           b == extra.duration * SecondsPerMinute
<1>1. a \in Nat /\ b \in Nat /\ WordSize \in Nat \ {0}
  BY PricingAssumption DEF Word
<1>2. /\ EndOfRent(extra) = Plus(a, Times(extra.duration, SecondsPerMinute))
      /\ CalendarEnd(extra) = a + b
  BY DEF EndOfRent, CalendarEnd
<1>3. Times(extra.duration, SecondsPerMinute) = b % WordSize
  BY DEF Times
<1> HIDE DEF a, b
<1>4. /\ b % WordSize \in Nat /\ b % WordSize <= b
      /\ b < WordSize => b % WordSize = b
  BY <1>1
<1> DEFINE c == a + (b % WordSize)
<1>5. c \in Nat /\ c <= a + b /\ (a + b < WordSize => c = a + b)
  BY <1>1, <1>4
<1>6. EndOfRent(extra) = c % WordSize
  BY <1>2, <1>3 DEF Plus
<1> HIDE DEF c
<1>7. c % WordSize \in Nat /\ c % WordSize <= c /\ (c < WordSize => c % WordSize = c)
  BY <1>1, <1>5
<1> QED BY <1>1, <1>2, <1>5, <1>6, <1>7

(***************************************************************************)
(* The check of submitOfferArrayExtra on ends that may both have wrapped   *)
(* keeps every accepted rent in the window of its request, except one that *)
(* itself runs past the last second a word can name.                       *)
(***************************************************************************)
THEOREM RentsLeaveOnlyPastLastWord == Spec => []RentLeavesWindowOnlyPastLastWord
<1>1. ASSUME QuotesInv, Accepted
      PROVE  /\ requestExtra.startOfRentTime <= offerExtra.startOfRentTime
             /\ \/ CalendarEnd(offerExtra) <= CalendarEnd(requestExtra)
                \/ CalendarEnd(offerExtra) >= WordSize
  <2>1. published # << >> /\ Acceptable(offerExtra)
    BY <1>1 DEF QuotesInv
  <2>2. /\ offerExtra.startOfRentTime >= requestExtra.startOfRentTime
        /\ EndOfRent(offerExtra) <= EndOfRent(requestExtra)
    BY <2>1 DEF Acceptable, OfferIsAcceptable, OfferFitsRequest
  <2>3. requestExtra.startOfRentTime \in Word /\ requestExtra.duration \in Word
    <3>1. /\ published \in Seq(Word) /\ Len(published) >= 4
          /\ requestExtra = RequestExtraFromRawArray(published)
      BY <1>1, <2>1 DEF QuotesInv, PublishedInv, RequestExtraIsValid
    <3> QED BY <3>1 DEF RequestExtraFromRawArray
  <2>4. /\ EndOfRent(offerExtra) \in Nat /\ CalendarEnd(offerExtra) \in Nat
        /\ CalendarEnd(offerExtra) < WordSize => EndOfRent(offerExtra) = CalendarEnd(offerExtra)
    BY <2>1, EndOnCalendar DEF Acceptable
  <2>5. /\ EndOfRent(requestExtra) \in Nat /\ CalendarEnd(requestExtra) \in Nat
        /\ EndOfRent(requestExtra) <= CalendarEnd(requestExtra)
    BY <2>3, EndOnCalendar
  <2>6. requestExtra.startOfRentTime <= offerExtra.startOfRentTime
    BY <2>1, <2>2, <2>3, PricingAssumption DEF Acceptable, Word
  <2> QED BY <2>2, <2>4, <2>5, <2>6, PricingAssumption
<1>2. QuotesInv => RentLeavesWindowOnlyPastLastWord
  BY <1>1 DEF RentLeavesWindowOnlyPastLastWord
<1> QED BY <1>2, QuotesInvariance, PTL
=============================================================================
