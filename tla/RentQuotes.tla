---------------------------- MODULE RentQuotes ----------------------------
(***************************************************************************)
(* One locker, priced: its owner publishes the extra of a request once and *)
(* renters then make offers, each accepted or refused on its own. It is    *)
(* the part of submitRequestArrayExtra and submitOfferArrayExtra that      *)
(* Pricing computes, so that every accepted (request, offer, payment) is a *)
(* state and can be compared with what the documentation of the contract   *)
(* promises. Stages, deadlines and money are in Marketplace.               *)
(***************************************************************************)
EXTENDS Pricing

CONSTANTS
  RequestExtraInputs,   \* the raw arrays a locker owner may submit
  OfferExtraInputs,     \* the raw arrays a renter may submit
  Payments              \* the amounts an offer may carry

\* Both arrays are uint[] in the contract.
ASSUME QuotesAssumption ==
  /\ RequestExtraInputs \subseteq Seq(Word)
  /\ OfferExtraInputs \subseteq Seq(Word)
  /\ Payments \subseteq Nat

VARIABLES
  published,      \* the raw array the owner submitted, << >> before
  requestExtra,   \* what the contract stored for it
  offerExtra      \* the last offer that was accepted

vars == <<published, requestExtra, offerExtra>>

NoExtra == [none |-> TRUE]

Init ==
  /\ published = << >>
  /\ requestExtra = NoExtra
  /\ offerExtra = NoExtra

PublishRequest(extra) ==
  /\ published = << >>
  /\ RequestExtraIsValid(extra)
  /\ published' = extra
  /\ requestExtra' = RequestExtraFromRawArray(extra)
  /\ UNCHANGED offerExtra

AcceptOffer(extra, paid) ==
  /\ published # << >>
  /\ OfferExtraIsValid(extra)
  /\ OfferIsAcceptable(requestExtra, OfferExtraFromRawArray(extra, paid))
  /\ offerExtra' = OfferExtraFromRawArray(extra, paid)
  /\ UNCHANGED <<published, requestExtra>>

Next ==
  \/ \E extra \in RequestExtraInputs : PublishRequest(extra)
  \/ \E extra \in OfferExtraInputs, paid \in Payments : AcceptOffer(extra, paid)

Spec == Init /\ [][Next]_vars

-----------------------------------------------------------------------------
Accepted     == offerExtra # NoExtra
RentsAtOnce  == Accepted /\ offerExtra.offerType = InstantRent
Rules        == requestExtra.rules
Threshold(i) == Rules[i].minimumNumberOfMinutes

\* The documented rule for a duration: thresholds open the ranges
\* [threshold(i), threshold(i+1)), the last one being unbounded.
DocumentedRule(duration) ==
  Max({i \in DOMAIN Rules : Threshold(i) <= duration})

DocumentedPrice(duration) ==
  Rules[DocumentedRule(duration)].minimumPricePerMinute * duration

\* The products and sums of the contract stay below WordSize.
NoPriceOverflow(duration) ==
  \A i \in DOMAIN Rules : Rules[i].minimumPricePerMinute * duration < WordSize

\* The end of a rent on the calendar; EndOfRent is what a word shows of it.
CalendarEnd(extra) == extra.startOfRentTime + extra.duration * SecondsPerMinute

(***************************************************************************)
(* What getRequestExtra answers for the rules is what the owner submitted: *)
(* building the structs and flattening them again loses and reorders       *)
(* nothing.                                                                *)
(***************************************************************************)
RulesReadBackAsPublished ==
  published # << >> => RawArrayFromRules(Rules) = RawRules(published)

(***************************************************************************)
(* Without overflow an instant rent whose duration is the threshold of a   *)
(* rule, or reaches the last one, is paid at the price documented for it:  *)
(* there the search of getExpectedInstantRentPriceForOfferDuration and the *)
(* documented ranges agree.                                                *)
(***************************************************************************)
DocumentedPriceAtThresholds ==
  (/\ RentsAtOnce
   /\ NoPriceOverflow(offerExtra.duration)
   /\ \/ \E i \in DOMAIN Rules : Threshold(i) = offerExtra.duration
      \/ Threshold(Len(Rules)) <= offerExtra.duration)
  => offerExtra.priceOffered >= DocumentedPrice(offerExtra.duration)

(***************************************************************************)
(* Whatever the duration, an accepted instant rent pays at least the price *)
(* of the cheapest rule for every minute (without overflow): the search    *)
(* never leaves the array, and never lets a rent through for free when all *)
(* rules have a price.                                                     *)
(***************************************************************************)
CheapestRulePaid ==
  (RentsAtOnce /\ NoPriceOverflow(offerExtra.duration))
  => \E i \in DOMAIN Rules :
       offerExtra.priceOffered >= Rules[i].minimumPricePerMinute * offerExtra.duration

(***************************************************************************)
(* Both: what an instant rent pays, at thresholds and between them.        *)
(***************************************************************************)
RulesSetThePrice == DocumentedPriceAtThresholds /\ CheapestRulePaid

(***************************************************************************)
(* The contract compares ends of rents that may have wrapped around, of    *)
(* the request, of the offer or of both.  All the same an accepted rent    *)
(* lies inside the time the locker was published for, unless it runs past  *)
(* the last second a word can name: the wrapped end of a request makes it  *)
(* accept less, never more.                                                *)
(***************************************************************************)
RentLeavesWindowOnlyPastLastWord ==
  Accepted =>
    /\ requestExtra.startOfRentTime <= offerExtra.startOfRentTime
    /\ \/ CalendarEnd(offerExtra) <= CalendarEnd(requestExtra)
       \/ CalendarEnd(offerExtra) >= WordSize

(***************************************************************************)
(* SMAUGMarketplace.sol:30-34: between two thresholds the price of the     *)
(* lower one applies (durations below the first threshold have no price    *)
(* there).                                                                 *)
(***************************************************************************)
InstantRentPaysDocumentedPrice ==
  (/\ RentsAtOnce
   /\ NoPriceOverflow(offerExtra.duration)
   /\ Threshold(1) <= offerExtra.duration)
  => offerExtra.priceOffered >= DocumentedPrice(offerExtra.duration)
=============================================================================
