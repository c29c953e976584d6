---------------------------- MODULE Marketplace ----------------------------
(***************************************************************************)
(* The SMAUG marketplace contract: SMAUGMarketplace.sol on top of          *)
(* AbstractAuthorisedOwnerManageableMarketPlace.sol.  Locker owners        *)
(* publish requests, renters make offers and escrow their money with them, *)
(* the locker owner decides, Interledger reports which winning offers got  *)
(* an access token, and the parties withdraw.                              *)
(*                                                                         *)
(* A call is one action: the chain runs calls one at a time and a call     *)
(* that reverts changes nothing.  A call refused with a status code only   *)
(* emits FunctionStatus, so it is a step that changes nothing here and the *)
(* conditions of the early returns are guards.  What the contract inherits *)
(* from sofie-offer-marketplace and OpenZeppelin is not in the repository; *)
(* it is modelled from its use.                                            *)
(***************************************************************************)
EXTENDS Pricing, FiniteSets

CONSTANTS
  Account,             \* the addresses that call the contract
  NoAccount,           \* address zero
  Deployer,            \* the account that deployed the contract
  NewRoles,            \* the accounts the owner gives a role to
  Nonce,               \* the nonces of access tokens
  Deadlines,           \* the deadlines of requests
  RequestExtraInputs,  \* the raw arrays a locker owner may submit
  OfferExtraInputs,    \* the raw arrays a renter may submit
  Payments,            \* the amounts an offer may carry
  OfferLists,          \* the lists of offers in decisions and reports
  MaxRequests,         \* bound: requests ever made
  MaxOffers,           \* bound: offers ever made
  MaxBlock,            \* bound: the last block
  MaxDecisions,        \* bound: decisions ever made
  MaxSettled           \* bound: offers ever settled

RequestID == 0 .. MaxRequests   \* 0 is never given to a request
OfferID   == 0 .. MaxOffers

ASSUME MarketplaceAssumption ==
  /\ MaxRequests \in Nat /\ MaxOffers \in Nat
  /\ MaxBlock \in Nat /\ MaxDecisions \in Nat /\ MaxSettled \in Nat
  /\ NoAccount \notin Account
  /\ Deployer \in Account
  /\ NewRoles \subseteq Account
  /\ Deadlines \subseteq Nat
  /\ Payments \subseteq Nat
  /\ OfferLists \subseteq Seq(OfferID)
  /\ RequestExtraInputs \subseteq Seq(Word)
  /\ OfferExtraInputs \subseteq Seq(Word)

VARIABLES
  owner, managers,       \* roles of the base contract
  usedTokens,            \* access tokens spent since the last reset
  reqNum, offNum,        \* the identifiers given next
  requests, offers,      \* what the base contract stores
  requestsExtra, offersExtra,
  openOffersPerRequest,  \* offers of a request that wait for its resolution
  pendingPayments,       \* the money escrowed per offer
  settledOffers,
  balance,               \* the ether the contract holds
  block,                 \* block number and block time
  interledgerEvents      \* payloads of the InterledgerEventSending events

\* What the contract only tells the world, kept to state the properties.
VARIABLES
  requestToken,          \* the token a request cost, until the next reset
  escrowed,              \* per offer, who paid how much and to whom it may go
  fulfilled, claimable,  \* offers with an OfferFulfilled, OfferClaimable event
  cashedOut              \* per offer, the account the money was sent to

roleVars    == <<owner, managers>>
tokenVars   == <<usedTokens, requestToken>>
requestVars == <<reqNum, requests, requestsExtra>>
offerVars   == <<offNum, offers, offersExtra>>
escrowVars  == <<openOffersPerRequest, pendingPayments, balance, escrowed,
                 fulfilled, claimable, cashedOut>>
vars == <<roleVars, tokenVars, requestVars, offerVars, escrowVars,
          settledOffers, block, interledgerEvents>>

Stage == {"Pending", "Open", "Closed"}

\* Storage that was never written, or was deleted, reads as zeroes.
NoRequest == [isDefined |-> FALSE, reqStage |-> "Pending", requestMaker |-> NoAccount,
              deadline |-> 0, isDecided |-> FALSE, acceptedOfferIDs |-> << >>,
              closingBlock |-> 0]
NoOffer   == [isDefined |-> FALSE, offStage |-> "Pending", offerMaker |-> NoAccount,
              requestID |-> 0]
NoPayment == [created |-> FALSE, resolved |-> FALSE, toReturn |-> FALSE, amount |-> 0]
NoExtra   == [none |-> TRUE]
NoToken   == [nonce |-> 0, subject |-> NoAccount]
NoDeal    == [payer |-> NoAccount, payee |-> NoAccount, amount |-> 0]

\* The digest of an access token binds the nonce to the account that may use
\* it; the function and the contract it also binds are the same for all.
Token == [nonce : Nonce, subject : Account]

Elements(list) == {list[i] : i \in DOMAIN list}

Init ==
  /\ owner = Deployer /\ managers = {Deployer}
  /\ usedTokens = {}
  /\ requestToken = [r \in RequestID |-> NoToken]
  /\ reqNum = 1
  /\ requests = [r \in RequestID |-> NoRequest]
  /\ requestsExtra = [r \in RequestID |-> NoExtra]
  /\ offNum = 1
  /\ offers = [o \in OfferID |-> NoOffer]
  /\ offersExtra = [o \in OfferID |-> NoExtra]
  /\ openOffersPerRequest = [r \in RequestID |-> {}]
  /\ pendingPayments = [o \in OfferID |-> NoPayment]
  /\ settledOffers = {}
  /\ balance = 0
  /\ block = 0
  /\ interledgerEvents = << >>
  /\ escrowed = [o \in OfferID |-> NoDeal]
  /\ fulfilled = {} /\ claimable = {}
  /\ cashedOut = [o \in OfferID |-> NoAccount]

-----------------------------------------------------------------------------
(***************************************************************************)
(* Requests.                                                               *)
(***************************************************************************)
IsRequestCreator(r, caller) == requests[r].requestMaker = caller

\* Mutant: the token is not consumed.
SubmitWithoutConsuming(caller, token, signer, deadline) ==
  /\ token.subject = caller
  /\ signer \in managers
  /\ token \notin usedTokens
  /\ reqNum \in RequestID
  /\ requestToken' = [requestToken EXCEPT ![reqNum] = token]
  /\ requests' = [requests EXCEPT ![reqNum] =
                    [NoRequest EXCEPT !.isDefined = TRUE, !.requestMaker = caller,
                                      !.deadline = deadline]]
  /\ reqNum' = reqNum + 1
  /\ UNCHANGED <<roleVars, usedTokens, requestsExtra, offerVars, escrowVars, settledOffers,
                 block, interledgerEvents>>

SubmitAuthorisedRequest(caller, token, signer, deadline) ==
  /\ token.subject = caller
  /\ signer \in managers
  /\ token \notin usedTokens
  /\ reqNum \in RequestID
  /\ usedTokens' = usedTokens \cup {token}
  /\ requestToken' = [requestToken EXCEPT ![reqNum] = token]
  /\ requests' = [requests EXCEPT ![reqNum] =
                    [NoRequest EXCEPT !.isDefined = TRUE, !.requestMaker = caller,
                                      !.deadline = deadline]]
  /\ reqNum' = reqNum + 1
  /\ UNCHANGED <<roleVars, requestsExtra, offerVars, escrowVars, settledOffers,
                 block, interledgerEvents>>

\* Mutant: the extra may be submitted again, whatever the stage.
SubmitExtraAtAnyStage(caller, r, extra) ==
  /\ requests[r].isDefined
  /\ IsRequestCreator(r, caller)
  /\ RequestExtraIsValid(extra)
  /\ requestsExtra' = [requestsExtra EXCEPT ![r] = RequestExtraFromRawArray(extra)]
  /\ requests' = [requests EXCEPT ![r].reqStage = "Open"]
  /\ UNCHANGED <<roleVars, tokenVars, reqNum, offerVars, escrowVars, settledOffers,
                 block, interledgerEvents>>

SubmitRequestArrayExtra(caller, r, extra) ==
  /\ requests[r].isDefined
  /\ requests[r].reqStage = "Pending"
  /\ IsRequestCreator(r, caller)
  /\ RequestExtraIsValid(extra)
  /\ requestsExtra' = [requestsExtra EXCEPT ![r] = RequestExtraFromRawArray(extra)]
  /\ requests' = [requests EXCEPT ![r].reqStage = "Open"]
  /\ UNCHANGED <<roleVars, tokenVars, reqNum, offerVars, escrowVars, settledOffers,
                 block, interledgerEvents>>

CloseRequest(caller, r) ==
  /\ requests[r].isDefined
  /\ IsRequestCreator(r, caller)
  /\ requests[r].reqStage = "Open"
  /\ requests' = [requests EXCEPT ![r].reqStage = "Closed", ![r].closingBlock = block]
  /\ UNCHANGED <<roleVars, tokenVars, reqNum, requestsExtra, offerVars, escrowVars,
                 settledOffers, block, interledgerEvents>>

\* Mutant: every token is a bearer token.
PayloadWithoutAuthenticationKeys(list, extras) ==
  [i \in DOMAIN list |->
     [offerID |-> list[i],
      offerCreatorEncryptionKey |-> extras[list[i]].offerCreatorEncryptionKey,
      offerCreatorAuthenticationKey |-> 0]]

\* One element per accepted offer: the keys its access token is issued for.
RequestDecisionPayload(list, extras) ==
  [i \in DOMAIN list |->
     [offerID |-> list[i],
      offerCreatorEncryptionKey |-> extras[list[i]].offerCreatorEncryptionKey,
      offerCreatorAuthenticationKey |-> extras[list[i]].offerCreatorAuthenticationKey]]

\* Mutants: deciding does not close the request; it sets a stage of its own.
DecideWithoutClosing(r, list, extras) ==
  /\ Len(interledgerEvents) < MaxDecisions
  /\ requests' = [requests EXCEPT ![r].isDecided = TRUE, ![r].acceptedOfferIDs = list]
  /\ interledgerEvents' = Append(interledgerEvents, RequestDecisionPayload(list, extras))

DecideAsStage(r, list, extras) ==
  /\ Len(interledgerEvents) < MaxDecisions
  /\ requests' = [requests EXCEPT ![r].reqStage = "Decided", ![r].closingBlock = block,
                                  ![r].isDecided = TRUE, ![r].acceptedOfferIDs = list]
  /\ interledgerEvents' = Append(interledgerEvents, RequestDecisionPayload(list, extras))

\* The base contract closes the request again whatever its stage.
DecideRequestInsecure(r, list, extras) ==
  /\ Len(interledgerEvents) < MaxDecisions
  /\ requests' = [requests EXCEPT ![r].reqStage = "Closed", ![r].closingBlock = block,
                                  ![r].isDecided = TRUE, ![r].acceptedOfferIDs = list]
  /\ interledgerEvents' = Append(interledgerEvents, RequestDecisionPayload(list, extras))

\* Mutant: offers of other requests may be accepted.
AcceptedOffersOfAnyRequest(r, list) ==
  /\ \A i \in DOMAIN list : offers[list[i]].offStage = "Open"
  /\ \A i, j \in DOMAIN list : list[i] = list[j] => i = j

AcceptedOffersListIsProper(r, list) ==
  /\ \A i \in DOMAIN list : /\ offers[list[i]].requestID = r
                            /\ offers[list[i]].offStage = "Open"
  /\ \A i, j \in DOMAIN list : list[i] = list[j] => i = j

DecideRequest(caller, r, list) ==
  /\ requests[r].isDefined
  /\ IsRequestCreator(r, caller)
  /\ AcceptedOffersListIsProper(r, list)
  /\ DecideRequestInsecure(r, list, offersExtra)
  /\ UNCHANGED <<roleVars, tokenVars, reqNum, requestsExtra, offerVars, escrowVars,
                 settledOffers, block>>

WaitBeforeDeleteBlocks == 1

\* The base contract deletes the request and its offers; the extras, the list
\* of open offers and the payments stay.
DeleteRequest(caller, r) ==
  /\ requests[r].isDefined
  /\ IsRequestCreator(r, caller)
  /\ requests[r].reqStage = "Closed"
  /\ requests[r].closingBlock + WaitBeforeDeleteBlocks <= block
  /\ requests' = [requests EXCEPT ![r] = NoRequest]
  /\ offers' = [o \in OfferID |-> IF offers[o].requestID = r THEN NoOffer ELSE offers[o]]
  /\ UNCHANGED <<roleVars, tokenVars, reqNum, requestsExtra, offNum, offersExtra,
                 escrowVars, settledOffers, block, interledgerEvents>>

-----------------------------------------------------------------------------
(***************************************************************************)
(* Offers.                                                                 *)
(***************************************************************************)
SubmitOffer(caller, r) ==
  /\ requests[r].isDefined
  /\ block <= requests[r].deadline
  /\ requests[r].reqStage = "Open"
  /\ offNum \in OfferID
  /\ offers' = [offers EXCEPT ![offNum] =
                  [NoOffer EXCEPT !.isDefined = TRUE, !.offerMaker = caller, !.requestID = r]]
  /\ offNum' = offNum + 1
  /\ UNCHANGED <<roleVars, tokenVars, requestVars, offersExtra, escrowVars,
                 settledOffers, block, interledgerEvents>>

RegisterPendingPayment(o, paid) ==
  /\ pendingPayments' = [pendingPayments EXCEPT ![o] =
        [created |-> TRUE, resolved |-> FALSE, toReturn |-> TRUE, amount |-> paid]]
  /\ balance' = balance + paid

SubmitOfferArrayExtra(caller, o, extra, paid) ==
  LET r          == offers[o].requestID
      offerExtra == OfferExtraFromRawArray(extra, paid)
  IN
  /\ OfferExtraIsValid(extra)
  /\ offers[o].isDefined
  /\ offers[o].offStage = "Pending"
  /\ offers[o].offerMaker = caller
  /\ requests[r].reqStage = "Open"
  /\ OfferIsAcceptable(requestsExtra[r], offerExtra)
  /\ RegisterPendingPayment(o, paid)
  /\ offersExtra' = [offersExtra EXCEPT ![o] = offerExtra]
  /\ offers' = [offers EXCEPT ![o].offStage = "Open"]
  /\ openOffersPerRequest' = [openOffersPerRequest EXCEPT ![r] = @ \cup {o}]
  /\ escrowed' = [escrowed EXCEPT ![o] =
        [payer |-> caller, payee |-> requests[r].requestMaker, amount |-> paid]]
  /\ \/ /\ offerExtra.offerType = InstantRent
        /\ DecideRequestInsecure(r, <<o>>, offersExtra')
     \/ /\ offerExtra.offerType = Auction
        /\ UNCHANGED <<requests, interledgerEvents>>
  /\ UNCHANGED <<roleVars, tokenVars, reqNum, requestsExtra, offNum, fulfilled,
                 claimable, cashedOut, settledOffers, block>>

SettleTrade(caller, r, o) ==
  /\ requests[r].isDefined
  /\ offers[o].isDefined
  /\ offers[o].offerMaker = caller
  /\ o \notin settledOffers
  /\ Cardinality(settledOffers) < MaxSettled
  /\ settledOffers' = settledOffers \cup {o}
  /\ UNCHANGED <<roleVars, tokenVars, requestVars, offerVars, escrowVars, block,
                 interledgerEvents>>

-----------------------------------------------------------------------------
(***************************************************************************)
(* Interledger and money.                                                  *)
(***************************************************************************)
OffersInPayloadAreValid(list) ==
  /\ \A i \in DOMAIN list : offers[list[i]].isDefined
  /\ \A i \in DOMAIN list \ {1} :
       offers[list[i]].requestID = offers[list[i - 1]].requestID

\* Mutants: the list of open offers is kept; only reported offers are resolved,
\* the list being emptied or not.
ResolveAndKeepList(r, reported) ==
  LET open == openOffersPerRequest[r] IN
  /\ pendingPayments' =
       [o \in OfferID |->
          IF o \in open
          THEN [pendingPayments[o] EXCEPT !.resolved = TRUE, !.toReturn = @ /\ o \notin reported]
          ELSE pendingPayments[o]]
  /\ fulfilled' = fulfilled \cup (open \cap reported)
  /\ claimable' = claimable \cup {o \in open : pendingPayments'[o].toReturn}
  /\ UNCHANGED openOffersPerRequest

ResolveReported(r, reported, left) ==
  LET won == openOffersPerRequest[r] \cap reported IN
  /\ pendingPayments' =
       [o \in OfferID |->
          IF o \in won
          THEN [pendingPayments[o] EXCEPT !.resolved = TRUE, !.toReturn = FALSE]
          ELSE pendingPayments[o]]
  /\ fulfilled' = fulfilled \cup won
  /\ UNCHANGED claimable
  /\ openOffersPerRequest' = [openOffersPerRequest EXCEPT ![r] = left]

ResolveReportedOnly(r, reported) ==
  ResolveReported(r, reported, openOffersPerRequest[r] \ reported)

ResolveReportedAndForget(r, reported) == ResolveReported(r, reported, {})

\* Mutant: open offers are compared with the first reported one only.
ResolveFirstReported(r, reported) ==
  LET open == openOffersPerRequest[r]
      won  == {CHOOSE o \in reported : TRUE}
  IN
  /\ pendingPayments' =
       [o \in OfferID |->
          IF o \in open
          THEN [pendingPayments[o] EXCEPT !.resolved = TRUE, !.toReturn = @ /\ o \notin won]
          ELSE pendingPayments[o]]
  /\ fulfilled' = fulfilled \cup (open \cap won)
  /\ claimable' = claimable \cup {o \in open : pendingPayments'[o].toReturn}
  /\ openOffersPerRequest' = [openOffersPerRequest EXCEPT ![r] = {}]

\* Every offer that is still open is resolved: the reported ones for the
\* locker owner, the others for those who made them.
ResolveRequest(r, reported) ==
  LET open == openOffersPerRequest[r] IN
  /\ pendingPayments' =
       [o \in OfferID |->
          IF o \in open
          THEN [pendingPayments[o] EXCEPT !.resolved = TRUE, !.toReturn = @ /\ o \notin reported]
          ELSE pendingPayments[o]]
  /\ fulfilled' = fulfilled \cup (open \cap reported)
  /\ claimable' = claimable \cup {o \in open : pendingPayments'[o].toReturn}
  /\ openOffersPerRequest' = [openOffersPerRequest EXCEPT ![r] = {}]

InterledgerReceive(caller, list) ==
  LET r == offers[list[1]].requestID IN
  /\ caller = owner \/ caller \in managers
  /\ list # << >>
  /\ OffersInPayloadAreValid(list)
  /\ requests[r].isDecided
  /\ ResolveRequest(r, Elements(list))
  /\ UNCHANGED <<roleVars, tokenVars, requestVars, offerVars, balance, escrowed,
                 cashedOut, settledOffers, block, interledgerEvents>>

\* Mutants: either party may withdraw; an unresolved payment may be withdrawn.
EitherPartyMayWithdraw(caller, o) ==
  /\ pendingPayments[o].created
  /\ pendingPayments[o].resolved
  /\ \/ caller = offers[o].offerMaker
     \/ caller = requests[offers[o].requestID].requestMaker

MayWithdrawUnresolved(caller, o) ==
  /\ pendingPayments[o].created
  /\ \/ pendingPayments[o].toReturn /\ caller = offers[o].offerMaker
     \/ ~pendingPayments[o].toReturn /\ caller = requests[offers[o].requestID].requestMaker

MayWithdraw(caller, o) ==
  LET payment == pendingPayments[o] IN
  /\ payment.created
  /\ payment.resolved
  /\ \/ payment.toReturn /\ caller = offers[o].offerMaker
     \/ ~payment.toReturn /\ caller = requests[offers[o].requestID].requestMaker

\* Mutant: the payment is not deleted.
WithdrawAndKeepPayment(caller, o) ==
  /\ MayWithdraw(caller, o)
  /\ pendingPayments[o].amount <= balance
  /\ balance' = balance - pendingPayments[o].amount
  /\ cashedOut' = [cashedOut EXCEPT ![o] = caller]
  /\ UNCHANGED <<roleVars, tokenVars, requestVars, offerVars, openOffersPerRequest,
                 pendingPayments, escrowed, fulfilled, claimable, settledOffers, block,
                 interledgerEvents>>

\* A transfer the contract cannot cover reverts the call.
Withdraw(caller, o) ==
  /\ MayWithdraw(caller, o)
  /\ pendingPayments[o].amount <= balance
  /\ pendingPayments' = [pendingPayments EXCEPT ![o] = NoPayment]
  /\ balance' = balance - pendingPayments[o].amount
  /\ cashedOut' = [cashedOut EXCEPT ![o] = caller]
  /\ UNCHANGED <<roleVars, tokenVars, requestVars, offerVars, openOffersPerRequest,
                 escrowed, fulfilled, claimable, settledOffers, block, interledgerEvents>>

-----------------------------------------------------------------------------
(***************************************************************************)
(* Roles.                                                                  *)
(***************************************************************************)
ResetAccessTokens(caller) ==
  /\ caller = owner \/ caller \in managers
  /\ usedTokens' = {}
  /\ requestToken' = [r \in RequestID |-> NoToken]
  /\ UNCHANGED <<roleVars, requestVars, offerVars, escrowVars, settledOffers, block,
                 interledgerEvents>>

\* Inherited, for the owner only: managers are added and revoked, and the
\* owner is replaced (changeOwner also makes the new one a manager) or given up.
ChangeRoles(newOwner, newManagers) ==
  /\ owner' = newOwner
  /\ managers' = newManagers
  /\ UNCHANGED <<tokenVars, requestVars, offerVars, escrowVars, settledOffers, block,
                 interledgerEvents>>

AddManager(caller, a)        == caller = owner /\ ChangeRoles(owner, managers \cup {a})
RevokeManagerCert(caller, a) == caller = owner /\ a \in managers /\ ChangeRoles(owner, managers \ {a})
ChangeOwner(caller, a)       == caller = owner /\ ChangeRoles(a, managers \cup {a})
TransferOwnership(caller, a) == caller = owner /\ ChangeRoles(a, managers)
RenounceOwnership(caller)    == caller = owner /\ NewRoles # {} /\ ChangeRoles(NoAccount, managers)

\* A new block is mined.
Tick ==
  /\ block < MaxBlock
  /\ block' = block + 1
  /\ UNCHANGED <<roleVars, tokenVars, requestVars, offerVars, escrowVars,
                 settledOffers, interledgerEvents>>

-----------------------------------------------------------------------------
RequestCall(caller) ==
  \/ \E token \in Token, signer \in Account, deadline \in Deadlines :
       SubmitAuthorisedRequest(caller, token, signer, deadline)
  \/ \E r \in RequestID :
       \/ \E extra \in RequestExtraInputs : SubmitRequestArrayExtra(caller, r, extra)
       \/ CloseRequest(caller, r)
       \/ \E list \in OfferLists : DecideRequest(caller, r, list)
       \/ DeleteRequest(caller, r)

OfferCall(caller) ==
  \/ \E r \in RequestID : SubmitOffer(caller, r)
  \/ \E o \in OfferID :
       \/ \E extra \in OfferExtraInputs, paid \in Payments :
            SubmitOfferArrayExtra(caller, o, extra, paid)
       \/ \E r \in RequestID : SettleTrade(caller, r, o)
       \/ Withdraw(caller, o)

RoleCall(caller) ==
  \/ \E list \in OfferLists : InterledgerReceive(caller, list)
  \/ ResetAccessTokens(caller)
  \/ \E a \in NewRoles :
       \/ AddManager(caller, a)
       \/ RevokeManagerCert(caller, a)
       \/ ChangeOwner(caller, a)
       \/ TransferOwnership(caller, a)
  \/ RenounceOwnership(caller)

Next ==
  \/ \E caller \in Account : RequestCall(caller) \/ OfferCall(caller) \/ RoleCall(caller)
  \/ Tick

Spec == Init /\ [][Next]_vars
-----------------------------------------------------------------------------
(***************************************************************************)
(* The escrow this contract implements.                                    *)
(***************************************************************************)
EscrowStateOf(o) ==
  LET payment == pendingPayments[o] IN
  IF cashedOut[o] # NoAccount THEN "paid"
  ELSE IF ~payment.created THEN "none"
  ELSE IF ~payment.resolved THEN "held"
  ELSE IF payment.toReturn THEN "refundable" ELSE "payable"

EscrowState == [o \in OfferID |-> EscrowStateOf(o)]

E == INSTANCE Escrow WITH Amount <- Payments, state <- EscrowState,
                          deal <- escrowed, paidTo <- cashedOut, vault <- balance

\* Every step of the contract is a step of the escrow or leaves it alone.
ImplementsEscrow == E!Spec

(***************************************************************************)
(* Every variable has its type.                                            *)
(***************************************************************************)
Request == [isDefined : BOOLEAN, reqStage : Stage, requestMaker : Account \cup {NoAccount},
            deadline : Nat, isDecided : BOOLEAN, acceptedOfferIDs : Seq(OfferID),
            closingBlock : Nat]
RequestExtra == [startOfRentTime : Word, duration : Word, auctionMinPricePerSlot : Word,
                 rules : Seq(PricingRule), lockerKey : Word]
Offer == [isDefined : BOOLEAN, offStage : Stage, offerMaker : Account \cup {NoAccount},
          requestID : RequestID]
OfferExtra == [startOfRentTime : Word, duration : Word, offerType : {Auction, InstantRent},
               priceOffered : Nat, offerCreatorEncryptionKey : Word,
               offerCreatorAuthenticationKey : Word]
Payment == [created : BOOLEAN, resolved : BOOLEAN, toReturn : BOOLEAN, amount : Nat]
PayloadElement == [offerID : OfferID, offerCreatorEncryptionKey : Word,
                   offerCreatorAuthenticationKey : Word]

RolesTypeOK ==
  /\ owner \in Account \cup {NoAccount}
  /\ managers \subseteq Account
  /\ usedTokens \subseteq Token
  /\ requestToken \in [RequestID -> Token \cup {NoToken}]

RequestsTypeOK ==
  /\ reqNum \in 1 .. MaxRequests + 1
  /\ requests \in [RequestID -> Request]
  /\ requestsExtra \in [RequestID -> RequestExtra \cup {NoExtra}]

OffersTypeOK ==
  /\ offNum \in 1 .. MaxOffers + 1
  /\ offers \in [OfferID -> Offer]
  /\ offersExtra \in [OfferID -> OfferExtra \cup {NoExtra}]
  /\ settledOffers \subseteq OfferID

EscrowTypeOK ==
  /\ openOffersPerRequest \in [RequestID -> SUBSET OfferID]
  /\ pendingPayments \in [OfferID -> Payment]
  /\ balance \in Int
  /\ escrowed \in [OfferID -> E!Deal \cup {NoDeal}]
  /\ fulfilled \subseteq OfferID
  /\ claimable \subseteq OfferID
  /\ cashedOut \in [OfferID -> Account \cup {NoAccount}]

TypeOK ==
  /\ RolesTypeOK
  /\ RequestsTypeOK
  /\ OffersTypeOK
  /\ EscrowTypeOK
  /\ block \in Nat
  /\ interledgerEvents \in Seq(Seq(PayloadElement))

(***************************************************************************)
(* The ether of the contract is the money of the offers that were not paid *)
(* out, so `withdraw` can always pay what it owes.                         *)
(***************************************************************************)
Solvent == E!Solvent

(***************************************************************************)
(* `openOffersPerRequest` and `pendingPayments` agree: an offer waits for  *)
(* a resolution, in one list only, exactly as long as its payment is       *)
(* unresolved, and while its request exists the list is that request's.    *)
(* An offer missing from the list would never be resolved.                 *)
(***************************************************************************)
WaitsIn(o, r)  == o \in openOffersPerRequest[r]
Unresolved(o)  == pendingPayments[o].created /\ ~pendingPayments[o].resolved

UnresolvedOffersWait ==
  \A o \in OfferID :
    /\ Unresolved(o) <=> \E r \in RequestID : WaitsIn(o, r)
    /\ \A r \in RequestID : (WaitsIn(o, r) /\ offers[o].isDefined) => r = offers[o].requestID
    /\ \A r, q \in RequestID : (WaitsIn(o, r) /\ WaitsIn(o, q)) => r = q

(***************************************************************************)
(* One report of Interledger settles a request as a whole: of two offers   *)
(* of a request whose money is still escrowed, both or none are resolved.  *)
(***************************************************************************)
RequestResolvedAsAWhole ==
  \A o, p \in OfferID :
    (/\ offers[o].isDefined /\ offers[p].isDefined
     /\ offers[o].requestID = offers[p].requestID
     /\ pendingPayments[o].created /\ pendingPayments[p].created)
    => pendingPayments[o].resolved = pendingPayments[p].resolved

(***************************************************************************)
(* The money that left the contract went to the right side: to the account *)
(* that published the request when the offer was announced as fulfilled,   *)
(* to the account that paid it when it was announced as claimable; and no  *)
(* offer is announced as both.                                             *)
(***************************************************************************)
RightPartyPaid ==
  /\ fulfilled \cap claimable = {}
  /\ \A o \in OfferID : cashedOut[o] # NoAccount =>
       \/ o \in fulfilled /\ cashedOut[o] = escrowed[o].payee
       \/ o \in claimable /\ cashedOut[o] = escrowed[o].payer

(***************************************************************************)
(* An instant rent closes the request: the offer that rents at once is the *)
(* only one that does, no offer can open later, and its request is decided *)
(* in the same call.                                                       *)
(***************************************************************************)
OpenInstantRent(o) ==
  offers[o].offStage = "Open" /\ offersExtra[o].offerType = InstantRent

InstantRentIsExclusive ==
  \A o \in OfferID : OpenInstantRent(o) =>
    /\ requests[offers[o].requestID].reqStage = "Closed"
    /\ requests[offers[o].requestID].isDecided
    /\ \A p \in OfferID :
         (OpenInstantRent(p) /\ offers[p].requestID = offers[o].requestID) => p = o

(***************************************************************************)
(* Once a request is closed its bidding is over, for good: the stage never *)
(* goes back, also not by a deletion, and no money is escrowed for it any  *)
(* more.  Offers that were made but not completed stay without a payment.  *)
(***************************************************************************)
BiddingEnds ==
  [][\A r \in RequestID : requests[r].reqStage = "Closed" =>
       /\ requests'[r].reqStage = "Closed" \/ ~requests'[r].isDefined
       /\ openOffersPerRequest'[r] \subseteq openOffersPerRequest[r]]_vars

(***************************************************************************)
(* A verdict is final: a second report, a second decision or the deletion  *)
(* of the request never changes a resolved payment; it stays as it is      *)
(* until it is withdrawn, and a withdrawn payment never comes back.        *)
(***************************************************************************)
VerdictIsFinal ==
  [][\A o \in OfferID :
       /\ pendingPayments[o].resolved =>
            pendingPayments'[o] \in {pendingPayments[o], NoPayment}
       /\ cashedOut[o] # NoAccount => ~pendingPayments'[o].created]_vars

(***************************************************************************)
(* The event that asks for access tokens carries, for every offer it       *)
(* accepts, the keys that offer was completed with: also for an instant    *)
(* rent, whose event is emitted by the call that stores the keys.          *)
(***************************************************************************)
PayloadCarriesKeys ==
  \A n \in DOMAIN interledgerEvents : \A i \in DOMAIN interledgerEvents[n] :
    LET element == interledgerEvents[n][i]
        extra   == offersExtra[element.offerID]
    IN  /\ extra # NoExtra
        /\ element.offerCreatorEncryptionKey = extra.offerCreatorEncryptionKey
        /\ element.offerCreatorAuthenticationKey = extra.offerCreatorAuthenticationKey

(***************************************************************************)
(* The offers of one payload are offers of one request, also after other   *)
(* requests were decided or deleted: it is what interledgerReceive demands *)
(* of the report that answers it.                                          *)
(***************************************************************************)
PayloadNamesOneRequest ==
  \A n \in DOMAIN interledgerEvents :
    \A i, j \in DOMAIN interledgerEvents[n] :
      offers[interledgerEvents[n][i].offerID].requestID
        = offers[interledgerEvents[n][j].offerID].requestID

(***************************************************************************)
(* An access token buys one request, for the account it was issued to,     *)
(* until the used tokens are reset; deleting the request does not give the *)
(* token back.                                                             *)
(***************************************************************************)
TokenBuysOneRequest ==
  /\ \A r, q \in RequestID :
       (requestToken[r] # NoToken /\ requestToken[r] = requestToken[q]) => r = q
  /\ \A r \in RequestID :
       (requests[r].isDefined /\ requestToken[r] # NoToken) =>
          requests[r].requestMaker = requestToken[r].subject

-----------------------------------------------------------------------------
(***************************************************************************)
(* SMAUGMarketplace.sol:61: the money of a payment that is resolved can be *)
(* claimed.                                                                *)
(***************************************************************************)
ResolvedMoneyCanBeClaimed ==
  \A o \in OfferID : pendingPayments[o].resolved =>
    \E a \in Account : MayWithdraw(a, o)
=============================================================================
