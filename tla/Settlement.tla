----------------------------- MODULE Settlement -----------------------------
(***************************************************************************)
(* A decision on its way to the access tokens and back.  The marketplace   *)
(* emits it, an Interledger agent brings it to the proxy contract of the   *)
(* authorisation ledger, the proxy announces it, access tokens are issued  *)
(* and reported to the proxy, and the agent brings the report back.        *)
(*                                                                         *)
(* The agent is reduced to what InterledgerAgent shows of it.  It is done  *)
(* with every event in the end, but not always by bringing it over: an     *)
(* event slips by that is mined between a fetch and the reading of the     *)
(* block number or while no agent runs, and a transfer that is refused,    *)
(* raises or is given up is not tried again.  Events come in any order, a  *)
(* transaction that was given up may still be mined, and a listener left   *)
(* behind may bring an event again.  What the agent answers changes        *)
(* nothing, as commits and aborts have empty bodies in both contracts.     *)
(***************************************************************************)
EXTENDS Marketplace

CONSTANTS
  Operator,    \* the account of the agent on the marketplace ledger
  MaxRepeats   \* bound: how often events are brought over again

ASSUME SettlementAssumption ==
  /\ Operator \in Account
  /\ MaxRepeats \in Nat
  /\ \A o \in OfferID \ {0} : <<o>> \in OfferLists

VARIABLES
  decisionOf,   \* the request of each decision event; 0 if it names no offer
  forwarded,    \* how often each decision was brought to the proxy
  announced,    \* InterledgerDataReceived events not yet answered
  reports,      \* payloads of the proxy's InterledgerEventSending events
  delivered,    \* how often each report was brought to the marketplace
  tokens,       \* offers that have an access token
  lostDecisions, lostReports  \* events the agent is done with and did not bring over

lossVars       == <<lostDecisions, lostReports>>
travelVars     == <<decisionOf, forwarded, announced, reports, delivered, tokens, lossVars>>
settlementVars == <<vars, travelVars>>

SettlementInit ==
  /\ Init
  /\ decisionOf = << >> /\ forwarded = << >>
  /\ announced = << >>
  /\ reports = << >> /\ delivered = << >>
  /\ tokens = {}
  /\ lostDecisions = {} /\ lostReports = {}

OffersOf(payload) == [i \in DOMAIN payload |-> payload[i].offerID]

-----------------------------------------------------------------------------
\* A call of a user, that may emit a decision.
DecisionEmitted ==
  LET payload == interledgerEvents'[Len(interledgerEvents')] IN
  /\ interledgerEvents' # interledgerEvents
  /\ decisionOf' = Append(decisionOf,
       IF payload = << >> THEN 0 ELSE offers[payload[1].offerID].requestID)
  /\ forwarded' = Append(forwarded, 0)

NoDecision == interledgerEvents' = interledgerEvents /\ UNCHANGED <<decisionOf, forwarded>>

UserCall(caller) ==
  /\ RequestCall(caller) \/ OfferCall(caller)
  /\ DecisionEmitted \/ NoDecision
  /\ UNCHANGED <<announced, reports, delivered, tokens, lossVars>>

BlockIsMined == Tick /\ UNCHANGED travelVars

\* How often an event was brought over again.
RepeatsIn(counts) ==
  MapThenSumSet(LAMBDA n : counts[n] - 1, {n \in DOMAIN counts : counts[n] > 0})
Repeats == RepeatsIn(forwarded) + RepeatsIn(delivered)

\* The proxy's interledgerReceive announces and accepts whatever it gets.
ForwardDecision(n) ==
  /\ forwarded[n] = 0 \/ Repeats < MaxRepeats
  /\ forwarded' = [forwarded EXCEPT ![n] = @ + 1]
  /\ announced' = Append(announced, OffersOf(interledgerEvents[n]))
  /\ lostDecisions' = lostDecisions \ {n}
  /\ UNCHANGED <<vars, decisionOf, reports, delivered, tokens, lostReports>>

LoseDecision(n) ==
  /\ forwarded[n] = 0
  /\ lostDecisions' = lostDecisions \cup {n}
  /\ UNCHANGED <<vars, decisionOf, forwarded, announced, reports, delivered, tokens, lostReports>>

\* External: a token is issued for every offer announced, and triggerInterledger
\* is called with all of them.
IssueTokens ==
  /\ announced # << >>
  /\ announced' = Tail(announced)
  /\ tokens' = tokens \cup Elements(Head(announced))
  /\ reports' = Append(reports, Head(announced))
  /\ delivered' = Append(delivered, 0)
  /\ UNCHANGED <<vars, decisionOf, forwarded, lossVars>>

\* A report that names no offer, offers that were deleted or offers of several
\* requests, or that comes before the decision, is rejected.
ReportIsProper(list) ==
  /\ list # << >>
  /\ OffersInPayloadAreValid(list)
  /\ requests[offers[list[1]].requestID].isDecided

DeliverReport(k) ==
  /\ delivered[k] = 0 \/ Repeats < MaxRepeats
  /\ delivered' = [delivered EXCEPT ![k] = @ + 1]
  /\ \/ InterledgerReceive(Operator, reports[k])
     \/ ~ReportIsProper(reports[k]) /\ UNCHANGED vars
  /\ lostReports' = lostReports \ {k}
  /\ UNCHANGED <<decisionOf, forwarded, announced, reports, tokens, lostDecisions>>

LoseReport(k) ==
  /\ delivered[k] = 0
  /\ lostReports' = lostReports \cup {k}
  /\ UNCHANGED <<vars, decisionOf, forwarded, announced, reports, delivered, tokens, lostDecisions>>

SettlementNext ==
  \/ \E caller \in Account \ {Operator} : UserCall(caller)
  \/ BlockIsMined
  \/ \E n \in DOMAIN forwarded : ForwardDecision(n) \/ LoseDecision(n)
  \/ IssueTokens
  \/ \E k \in DOMAIN delivered : DeliverReport(k) \/ LoseReport(k)

SettlementSpec == SettlementInit /\ [][SettlementNext]_settlementVars

\* The agent is done with every event, by bringing it over or by losing it,
\* and need not bring over what it lost; tokens are issued.  The users owe nothing.
DecisionHandled ==
  \E n \in DOMAIN forwarded :
    /\ forwarded[n] = 0 /\ n \notin lostDecisions
    /\ ForwardDecision(n) \/ LoseDecision(n)

ReportHandled ==
  \E k \in DOMAIN delivered :
    /\ delivered[k] = 0 /\ k \notin lostReports
    /\ DeliverReport(k) \/ LoseReport(k)

FairSettlement ==
  /\ SettlementSpec
  /\ WF_settlementVars(DecisionHandled)
  /\ WF_settlementVars(IssueTokens)
  /\ WF_settlementVars(ReportHandled)

-----------------------------------------------------------------------------
(***************************************************************************)
(* Nobody gets both an access token and the money back, whatever is        *)
(* brought over late, in another order or again, unless the request was    *)
(* decided more than once with different winners (SMAUGMarketplace.sol:258 *)
(* lets it); and nobody's money goes to the locker owner without a token.  *)
(***************************************************************************)
DecidedOtherwise(o) ==
  \E n, m \in DOMAIN decisionOf :
    /\ decisionOf[n] = decisionOf[m] /\ decisionOf[n] # 0
    /\ o \in Elements(OffersOf(interledgerEvents[n]))
    /\ o \notin Elements(OffersOf(interledgerEvents[m]))

TokensAreWorthTheirMoney ==
  /\ fulfilled \subseteq tokens
  /\ \A o \in tokens \cap claimable : DecidedOtherwise(o)

(***************************************************************************)
(* A decision that names a winner frees the money of every offer of the    *)
(* request, of winners and losers, unless the request is deleted before    *)
(* the report comes, or the agent lost the decision or every report of it: *)
(* nobody tries again (interledger.py:144), and the money stays where it   *)
(* is.  What the agent brings over late still frees it.  A decision that   *)
(* names nobody does not (SMAUGMarketplace.sol:595).                       *)
(***************************************************************************)
ReportsOf(n) ==
  {k \in DOMAIN reports :
     n \in DOMAIN interledgerEvents /\ reports[k] = OffersOf(interledgerEvents[n])}

Lost(n) ==
  \/ n \in lostDecisions
  \/ ReportsOf(n) # {} /\ ReportsOf(n) \subseteq lostReports

DecisionsFreeTheMoney ==
  \A n \in 1 .. MaxDecisions, r \in RequestID \ {0} :
    (n \in DOMAIN decisionOf /\ decisionOf[n] = r) ~>
      (openOffersPerRequest[r] = {} \/ ~requests[r].isDefined \/ Lost(n))
=============================================================================
