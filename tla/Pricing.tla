------------------------------ MODULE Pricing ------------------------------
(***************************************************************************)
(* The arithmetic of the SMAUG marketplace: how the raw `extra` array of a *)
(* request becomes its pricing rules, when an offer fits the request it is *)
(* made for, and the least payment an offer must carry.                    *)
(*                                                                         *)
(* Solidity 0.5 computes on uint256 without overflow checks, so every sum  *)
(* and product is taken modulo WordSize (2^256 in the contract).           *)
(***************************************************************************)
EXTENDS Integers, Sequences, FiniteSetsExt

CONSTANTS
  WordSize,          \* number of values of a Solidity uint
  SecondsPerMinute   \* 60 in the contract

ASSUME PricingAssumption ==
  /\ WordSize \in Nat \ {0}
  /\ SecondsPerMinute \in Nat \ {0}

Word == 0 .. WordSize - 1

Plus(a, b)  == (a + b) % WordSize
Times(a, b) == (a * b) % WordSize

(***************************************************************************)
(* Requests: extra = <<start, duration, auction price, rule.., locker>>,   *)
(* each rule being two words.                                              *)
(***************************************************************************)
PricingRule == [minimumNumberOfMinutes : Word, minimumPricePerMinute : Word]

RawRules(extra) == SubSeq(extra, 4, Len(extra) - 1)

\* Mutant: price and threshold are read in the wrong order.
RulesFromSwappedArray(raw) ==
  [i \in 1 .. Len(raw) \div 2 |->
     [minimumNumberOfMinutes |-> raw[2*i], minimumPricePerMinute |-> raw[2*i - 1]]]

RulesFromRawArray(raw) ==
  [i \in 1 .. Len(raw) \div 2 |->
     [minimumNumberOfMinutes |-> raw[2*i - 1], minimumPricePerMinute |-> raw[2*i]]]

RawArrayFromRules(rules) ==
  [i \in 1 .. 2 * Len(rules) |->
     IF i % 2 = 1 THEN rules[(i + 1) \div 2].minimumNumberOfMinutes
                  ELSE rules[i \div 2].minimumPricePerMinute]

\* Pairs only, no rule beyond the duration of the request, and strictly
\* increasing thresholds.
RulesAreValid(raw, duration) ==
  /\ Len(raw) % 2 = 0
  /\ LET rules == RulesFromRawArray(raw)
     IN /\ \A i \in DOMAIN rules : rules[i].minimumNumberOfMinutes <= duration
        /\ \A i \in 2 .. Len(rules) :
             rules[i - 1].minimumNumberOfMinutes < rules[i].minimumNumberOfMinutes

RequestExtraIsValid(extra) ==
  /\ Len(extra) >= 4
  /\ RulesAreValid(RawRules(extra), extra[2])

RequestExtraFromRawArray(extra) ==
  [startOfRentTime        |-> extra[1],
   duration               |-> extra[2],
   auctionMinPricePerSlot |-> extra[3],
   rules                  |-> RulesFromRawArray(RawRules(extra)),
   lockerKey              |-> extra[Len(extra)]]

(***************************************************************************)
(* Offers: extra = <<start, duration, type, encryption key [, auth key]>>. *)
(* A type that is not a member of the enum reverts; 0 stands for "no       *)
(* authentication key".                                                    *)
(***************************************************************************)
Auction     == 0
InstantRent == 1

OfferExtraIsValid(extra) ==
  /\ Len(extra) \in 4 .. 5
  /\ extra[3] \in {Auction, InstantRent}

\* The price offered is the amount paid with the call, not part of the array.
OfferExtraFromRawArray(extra, paid) ==
  [startOfRentTime               |-> extra[1],
   duration                      |-> extra[2],
   offerType                     |-> extra[3],
   priceOffered                  |-> paid,
   offerCreatorEncryptionKey     |-> extra[4],
   offerCreatorAuthenticationKey |-> IF Len(extra) = 5 THEN extra[5] ELSE 0]

EndOfRent(extra) ==
  Plus(extra.startOfRentTime, Times(extra.duration, SecondsPerMinute))

\* Mutant: the end of the rent is not checked.
OfferStartsInRequest(requestExtra, offerExtra) ==
  offerExtra.startOfRentTime >= requestExtra.startOfRentTime

OfferFitsRequest(requestExtra, offerExtra) ==
  /\ offerExtra.startOfRentTime >= requestExtra.startOfRentTime
  /\ EndOfRent(offerExtra) <= EndOfRent(requestExtra)

\* Mutant: the search skips a rule whose threshold is exactly the duration.
PriceOfNextRule(rules, duration) ==
  LET reaching == {i \in DOMAIN rules : rules[i].minimumNumberOfMinutes > duration}
      rule     == IF reaching = {} THEN Len(rules) ELSE Min(reaching)
  IN  Times(rules[rule].minimumPricePerMinute, duration)

\* The first rule whose threshold reaches the duration, else the last rule.
ExpectedInstantRentPrice(rules, duration) ==
  LET reaching == {i \in DOMAIN rules : rules[i].minimumNumberOfMinutes >= duration}
      rule     == IF reaching = {} THEN Len(rules) ELSE Min(reaching)
  IN  Times(rules[rule].minimumPricePerMinute, duration)

PaymentCoversOffer(requestExtra, offerExtra) ==
  \/ /\ offerExtra.offerType = Auction
     /\ Times(requestExtra.auctionMinPricePerSlot, offerExtra.duration)
          <= offerExtra.priceOffered
  \/ /\ offerExtra.offerType = InstantRent
     /\ requestExtra.rules # << >>
     /\ ExpectedInstantRentPrice(requestExtra.rules, offerExtra.duration)
          <= offerExtra.priceOffered

OfferIsAcceptable(requestExtra, offerExtra) ==
  /\ OfferFitsRequest(requestExtra, offerExtra)
  /\ PaymentCoversOffer(requestExtra, offerExtra)
=============================================================================
