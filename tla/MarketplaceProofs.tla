-------------------------- MODULE MarketplaceProofs --------------------------
(***************************************************************************)
(* Theorems about the marketplace contract, for any accounts, inputs and   *)
(* bounds: what its storage looks like between two calls, and that it      *)
(* implements the escrow: whatever requests, decisions, reports and        *)
(* deletions happen, the money of every offer goes through the steps of    *)
(* Escrow only.                                                            *)
(***************************************************************************)
EXTENDS Marketplace, TLAPS

(***************************************************************************)
(* What the storage of the contract looks like between two calls.          *)
(***************************************************************************)
\* Identifiers not yet given, and deleted requests, read as zeroes.
RequestsInv ==
  \A r \in RequestID :
    /\ r = 0 \/ r >= reqNum => requests[r] = NoRequest
    /\ requests[r].isDefined => requests[r].requestMaker \in Account
    /\ ~requests[r].isDefined => requests[r] = NoRequest

\* An offer exists no longer than its request, and an open one has an extra.
OffersInv ==
  \A o \in OfferID :
    /\ o = 0 \/ o >= offNum => offers[o] = NoOffer
    /\ offers[o].isDefined => /\ offers[o].offerMaker \in Account
                              /\ requests[offers[o].requestID].isDefined
    /\ ~offers[o].isDefined => offers[o] = NoOffer
    /\ offers[o].offStage = "Open" => offersExtra[o] \in OfferExtra

-----------------------------------------------------------------------------
(***************************************************************************)
(* What the helpers return.                                                *)
(***************************************************************************)
LEMMA RequestExtraType ==
  ASSUME NEW extra \in Seq(Word), RequestExtraIsValid(extra)
  PROVE  RequestExtraFromRawArray(extra) \in RequestExtra
<1>1. Len(extra) \in Nat /\ Len(extra) >= 4 /\ \A i \in 1 .. Len(extra) : extra[i] \in Word
  BY DEF RequestExtraIsValid
<1> DEFINE raw == RawRules(extra)
<1>2. raw \in Seq(Word)
  BY <1>1 DEF RawRules
<1>3. RulesFromRawArray(raw) \in Seq(PricingRule)
  <2> HIDE DEF raw
  <2> DEFINE n == Len(raw) \div 2
  <2>1. n \in Nat /\ \A i \in 1 .. n : 2*i - 1 \in 1 .. Len(raw) /\ 2*i \in 1 .. Len(raw)
    BY <1>2
  <2>2. \A i \in 1 .. n : raw[2*i - 1] \in Word /\ raw[2*i] \in Word
    BY <1>2, <2>1
  <2> HIDE DEF n
  <2>3. RulesFromRawArray(raw)
          = [i \in 1 .. n |-> [minimumNumberOfMinutes |-> raw[2*i - 1],
                               minimumPricePerMinute |-> raw[2*i]]]
    BY DEF RulesFromRawArray, n
  <2>4. RulesFromRawArray(raw) \in [1 .. n -> PricingRule]
    BY <2>2, <2>3 DEF PricingRule
  <2> QED BY <2>1, <2>4
<1> QED BY <1>1, <1>3 DEF RequestExtraFromRawArray, RequestExtra

LEMMA OfferExtraType ==
  ASSUME NEW extra \in Seq(Word), OfferExtraIsValid(extra), NEW paid \in Nat
  PROVE  OfferExtraFromRawArray(extra, paid) \in OfferExtra
<1>1. Len(extra) \in 4 .. 5 /\ \A i \in 1 .. Len(extra) : extra[i] \in Word
  BY DEF OfferExtraIsValid
<1>2. 0 \in Word
  BY PricingAssumption DEF Word
<1> QED BY <1>1, <1>2 DEF OfferExtraIsValid, OfferExtraFromRawArray, OfferExtra

LEMMA PayloadType ==
  ASSUME NEW list \in Seq(OfferID), NEW extras,
         \A i \in DOMAIN list : extras[list[i]] \in OfferExtra
  PROVE  RequestDecisionPayload(list, extras) \in Seq(PayloadElement)
<1>1. Len(list) \in Nat /\ DOMAIN list = 1 .. Len(list) /\ \A i \in DOMAIN list : list[i] \in OfferID
  OBVIOUS
<1>2. RequestDecisionPayload(list, extras) \in [1 .. Len(list) -> PayloadElement]
  BY <1>1 DEF RequestDecisionPayload, PayloadElement, OfferExtra
<1> QED BY <1>1, <1>2

\* A decision keeps the types, and who made which request.
LEMMA DecideKeeps ==
  ASSUME TypeOK, NEW r \in RequestID, NEW list \in Seq(OfferID), NEW extras,
         \A i \in DOMAIN list : extras[list[i]] \in OfferExtra,
         DecideRequestInsecure(r, list, extras)
  PROVE  /\ requests' \in [RequestID -> Request]
         /\ interledgerEvents' \in Seq(Seq(PayloadElement))
         /\ \A q \in RequestID : /\ requests'[q].isDefined = requests[q].isDefined
                                 /\ requests'[q].requestMaker = requests[q].requestMaker
         /\ \A q \in RequestID : q # r => requests'[q] = requests[q]
<1>1. requests \in [RequestID -> Request] /\ block \in Nat
      /\ interledgerEvents \in Seq(Seq(PayloadElement))
  BY DEF TypeOK, RequestsTypeOK
<1>2. requests' = [requests EXCEPT ![r] =
                     [requests[r] EXCEPT !.reqStage = "Closed", !.closingBlock = block,
                                         !.isDecided = TRUE, !.acceptedOfferIDs = list]]
  BY DEF DecideRequestInsecure
<1>3. interledgerEvents' \in Seq(Seq(PayloadElement))
  BY <1>1, PayloadType DEF DecideRequestInsecure
<1> QED BY <1>1, <1>2, <1>3 DEF Request, Stage

-----------------------------------------------------------------------------
(***************************************************************************)
(* Types, requests and offers.                                             *)
(***************************************************************************)
StorageInv == TypeOK /\ RequestsInv /\ OffersInv

LEMMA ZeroesType ==
  /\ NoRequest \in Request /\ ~NoRequest.isDefined /\ NoRequest.reqStage = "Pending"
  /\ NoOffer \in Offer /\ ~NoOffer.isDefined /\ NoOffer.offStage = "Pending"
  /\ NoOffer.requestID = 0 /\ NoOffer.offerMaker = NoAccount
  /\ NoRequest.requestMaker = NoAccount
  /\ NoPayment \in Payment /\ ~NoPayment.created /\ ~NoPayment.resolved
  /\ 0 \in RequestID
BY MarketplaceAssumption
   DEF RequestID, NoRequest, Request, Stage, NoOffer, Offer, NoPayment, Payment

LEMMA InitStorageInv == Init => StorageInv
<1> SUFFICES ASSUME Init PROVE StorageInv
  OBVIOUS
<1>2. TypeOK
  BY ZeroesType, MarketplaceAssumption
     DEF Init, TypeOK, RolesTypeOK, RequestsTypeOK, OffersTypeOK, EscrowTypeOK
<1>3. RequestsInv
  BY ZeroesType DEF Init, RequestsInv
<1>4. OffersInv
  BY ZeroesType DEF Init, OffersInv
<1> QED BY <1>2, <1>3, <1>4 DEF StorageInv

\* The calls that touch neither requests nor offers.
LEMMA StorageUntouched ==
  ASSUME StorageInv, TypeOK', UNCHANGED <<requestVars, offerVars>>
  PROVE  StorageInv'
BY DEF StorageInv, RequestsInv, OffersInv, requestVars, offerVars

\* The calls that touch no type but those of requests and offers.
LEMMA TypesUntouched ==
  ASSUME TypeOK, RequestsTypeOK', OffersTypeOK', UNCHANGED <<roleVars, tokenVars, escrowVars, block>>,
         interledgerEvents' \in Seq(Seq(PayloadElement))
  PROVE  TypeOK'
BY DEF TypeOK, RolesTypeOK, EscrowTypeOK, roleVars, tokenVars, escrowVars

LEMMA SubmitAuthorisedRequestStorage ==
  ASSUME StorageInv, NEW caller \in Account, NEW token \in Token, NEW signer \in Account,
         NEW deadline \in Deadlines, SubmitAuthorisedRequest(caller, token, signer, deadline)
  PROVE  StorageInv'
<1> DEFINE new == [NoRequest EXCEPT !.isDefined = TRUE, !.requestMaker = caller,
                                    !.deadline = deadline]
<1> USE DEF StorageInv
<1>1. new \in Request /\ new.isDefined /\ new.requestMaker = caller
  <2>1. deadline \in Nat
    BY MarketplaceAssumption
  <2> QED BY <2>1, ZeroesType DEF Request
<1> HIDE DEF new
<1>2. /\ reqNum \in RequestID /\ reqNum' = reqNum + 1 /\ reqNum \in 1 .. MaxRequests
      /\ requests \in [RequestID -> Request]
      /\ requests' = [requests EXCEPT ![reqNum] = new]
  BY MarketplaceAssumption
     DEF SubmitAuthorisedRequest, new, TypeOK, RequestsTypeOK, RequestID
<1>3. RolesTypeOK'
  BY DEF SubmitAuthorisedRequest, TypeOK, RolesTypeOK, roleVars
<1>4. RequestsTypeOK'
  BY <1>1, <1>2, MarketplaceAssumption DEF SubmitAuthorisedRequest, TypeOK, RequestsTypeOK
<1>5. TypeOK'
  BY <1>3, <1>4
     DEF SubmitAuthorisedRequest, TypeOK, OffersTypeOK, EscrowTypeOK, offerVars, escrowVars
<1>6. RequestsInv'
  BY <1>1, <1>2 DEF RequestsInv, RequestID
<1>7. OffersInv'
  <2>1. UNCHANGED offerVars
    BY DEF SubmitAuthorisedRequest
  <2>2. \A r \in RequestID : requests[r].isDefined => requests'[r].isDefined
    BY <1>1, <1>2
  <2>3. \A o \in OfferID : offers[o].requestID \in RequestID
    BY DEF TypeOK, OffersTypeOK, Offer
  <2> QED BY <2>1, <2>2, <2>3 DEF OffersInv, offerVars
<1> QED BY <1>5, <1>6, <1>7

LEMMA SubmitRequestArrayExtraStorage ==
  ASSUME StorageInv, NEW caller \in Account, NEW r \in RequestID,
         NEW extra \in RequestExtraInputs, SubmitRequestArrayExtra(caller, r, extra)
  PROVE  StorageInv'
<1> USE DEF StorageInv
<1>1. requests \in [RequestID -> Request]
      /\ requests' = [requests EXCEPT ![r] = [requests[r] EXCEPT !.reqStage = "Open"]]
  BY DEF SubmitRequestArrayExtra, TypeOK, RequestsTypeOK
<1>2. /\ requests' \in [RequestID -> Request]
      /\ \A q \in RequestID : /\ requests'[q].isDefined = requests[q].isDefined
                              /\ requests'[q].requestMaker = requests[q].requestMaker
      /\ \A q \in RequestID : q # r => requests'[q] = requests[q]
  BY <1>1 DEF Request, Stage
<1>3. RequestExtraFromRawArray(extra) \in RequestExtra
  <2>1. extra \in Seq(Word)
    BY MarketplaceAssumption
  <2> QED BY <2>1, RequestExtraType DEF SubmitRequestArrayExtra
<1>4. RequestsTypeOK'
  BY <1>2, <1>3 DEF SubmitRequestArrayExtra, TypeOK, RequestsTypeOK
<1>5. TypeOK'
  BY <1>4, TypesUntouched DEF SubmitRequestArrayExtra, TypeOK, OffersTypeOK, offerVars
<1>6. RequestsInv'
  BY <1>2, ZeroesType DEF SubmitRequestArrayExtra, RequestsInv
<1>7. OffersInv'
  <2>1. \A o \in OfferID : offers[o].requestID \in RequestID
    BY DEF TypeOK, OffersTypeOK, Offer
  <2> QED BY <1>2, <2>1 DEF SubmitRequestArrayExtra, OffersInv, offerVars
<1> QED BY <1>5, <1>6, <1>7

\* A call that changes requests without making or deleting one.
LEMMA RequestsUpdated ==
  ASSUME StorageInv, NEW r \in RequestID, requests[r].isDefined,
         RequestsTypeOK', TypeOK', reqNum' = reqNum,
         offNum' = offNum, offers' = offers, offersExtra' = offersExtra,
         \A q \in RequestID : /\ requests'[q].isDefined = requests[q].isDefined
                              /\ requests'[q].requestMaker = requests[q].requestMaker,
         \A q \in RequestID : q # r => requests'[q] = requests[q]
  PROVE  StorageInv'
<1>1. RequestsInv'
  BY ZeroesType DEF StorageInv, RequestsInv
<1>2. \A o \in OfferID : offers[o].requestID \in RequestID
  BY DEF StorageInv, TypeOK, OffersTypeOK, Offer
<1>3. OffersInv'
  BY <1>2 DEF StorageInv, OffersInv
<1> QED BY <1>1, <1>3 DEF StorageInv

LEMMA CloseRequestStorage ==
  ASSUME StorageInv, NEW caller \in Account, NEW r \in RequestID, CloseRequest(caller, r)
  PROVE  StorageInv'
<1>1. TypeOK /\ requests \in [RequestID -> Request] /\ block \in Nat
      /\ requests' = [requests EXCEPT ![r] =
                        [requests[r] EXCEPT !.reqStage = "Closed", !.closingBlock = block]]
  BY DEF CloseRequest, StorageInv, TypeOK, RequestsTypeOK
<1>2. /\ requests' \in [RequestID -> Request]
      /\ \A q \in RequestID : /\ requests'[q].isDefined = requests[q].isDefined
                              /\ requests'[q].requestMaker = requests[q].requestMaker
      /\ \A q \in RequestID : q # r => requests'[q] = requests[q]
  BY <1>1 DEF Request, Stage
<1>3. RequestsTypeOK' /\ OffersTypeOK'
  BY <1>1, <1>2 DEF CloseRequest, TypeOK, RequestsTypeOK, OffersTypeOK, offerVars
<1>4. TypeOK'
  BY <1>1, <1>3, TypesUntouched DEF CloseRequest, TypeOK
<1> QED BY <1>2, <1>3, <1>4, RequestsUpdated DEF CloseRequest, offerVars

LEMMA DecideRequestStorage ==
  ASSUME StorageInv, NEW caller \in Account, NEW r \in RequestID,
         NEW list \in OfferLists, DecideRequest(caller, r, list)
  PROVE  StorageInv'
<1>1. TypeOK /\ list \in Seq(OfferID)
  BY MarketplaceAssumption DEF StorageInv
<1>2. \A i \in DOMAIN list : offersExtra[list[i]] \in OfferExtra
  BY <1>1 DEF DecideRequest, AcceptedOffersListIsProper, StorageInv, OffersInv
<1>3. /\ requests' \in [RequestID -> Request]
      /\ interledgerEvents' \in Seq(Seq(PayloadElement))
      /\ \A q \in RequestID : /\ requests'[q].isDefined = requests[q].isDefined
                              /\ requests'[q].requestMaker = requests[q].requestMaker
      /\ \A q \in RequestID : q # r => requests'[q] = requests[q]
  BY <1>1, <1>2, DecideKeeps DEF DecideRequest
<1>4. RequestsTypeOK' /\ OffersTypeOK'
  BY <1>1, <1>3 DEF DecideRequest, TypeOK, RequestsTypeOK, OffersTypeOK, offerVars
<1>5. TypeOK'
  BY <1>1, <1>3, <1>4, TypesUntouched DEF DecideRequest
<1> QED BY <1>3, <1>4, <1>5, RequestsUpdated DEF DecideRequest, offerVars

LEMMA DeleteRequestStorage ==
  ASSUME StorageInv, NEW caller \in Account, NEW r \in RequestID, DeleteRequest(caller, r)
  PROVE  StorageInv'
<1> USE DEF StorageInv
<1>1. /\ requests \in [RequestID -> Request] /\ offers \in [OfferID -> Offer]
      /\ requests' = [requests EXCEPT ![r] = NoRequest]
      /\ offers' = [o \in OfferID |-> IF offers[o].requestID = r THEN NoOffer ELSE offers[o]]
  BY DEF DeleteRequest, TypeOK, RequestsTypeOK, OffersTypeOK
<1>2. RequestsTypeOK' /\ OffersTypeOK'
  BY <1>1, ZeroesType DEF DeleteRequest, TypeOK, RequestsTypeOK, OffersTypeOK
<1>3. TypeOK'
  BY <1>2, TypesUntouched DEF DeleteRequest, TypeOK
<1>4. RequestsInv'
  BY <1>1, ZeroesType DEF DeleteRequest, RequestsInv
<1>5. OffersInv'
  BY <1>1, ZeroesType DEF DeleteRequest, OffersInv, Offer
<1> QED BY <1>3, <1>4, <1>5

LEMMA SubmitOfferStorage ==
  ASSUME StorageInv, NEW caller \in Account, NEW r \in RequestID, SubmitOffer(caller, r)
  PROVE  StorageInv'
<1> DEFINE new == [NoOffer EXCEPT !.isDefined = TRUE, !.offerMaker = caller, !.requestID = r]
<1> USE DEF StorageInv
<1>1. new \in Offer /\ new.isDefined /\ new.offerMaker = caller /\ new.requestID = r
      /\ new.offStage = "Pending"
  BY ZeroesType DEF Offer
<1> HIDE DEF new
<1>2. /\ offNum \in OfferID /\ offNum' = offNum + 1 /\ offNum \in 1 .. MaxOffers
      /\ offers \in [OfferID -> Offer]
      /\ offers' = [offers EXCEPT ![offNum] = new]
  BY MarketplaceAssumption DEF SubmitOffer, new, TypeOK, OffersTypeOK, OfferID
<1>3. OffersTypeOK'
  BY <1>1, <1>2, MarketplaceAssumption DEF SubmitOffer, TypeOK, OffersTypeOK
<1>4. RequestsTypeOK'
  BY DEF SubmitOffer, TypeOK, RequestsTypeOK, requestVars
<1>5. TypeOK'
  BY <1>3, <1>4, TypesUntouched DEF SubmitOffer, TypeOK
<1>6. RequestsInv'
  BY DEF SubmitOffer, RequestsInv, requestVars
<1>7. OffersInv'
  BY <1>1, <1>2 DEF SubmitOffer, OffersInv, OfferID, requestVars
<1> QED BY <1>5, <1>6, <1>7

LEMMA SubmitOfferArrayExtraStorage ==
  ASSUME StorageInv, NEW caller \in Account, NEW o \in OfferID,
         NEW extra \in OfferExtraInputs, NEW paid \in Payments,
         SubmitOfferArrayExtra(caller, o, extra, paid)
  PROVE  StorageInv'
<1> DEFINE r == offers[o].requestID
           offerExtra == OfferExtraFromRawArray(extra, paid)
<1> USE DEF StorageInv
<1>1. TypeOK /\ r \in RequestID /\ requests[r].isDefined /\ requests[r].requestMaker \in Account
  BY DEF SubmitOfferArrayExtra, TypeOK, OffersTypeOK, Offer, OffersInv, RequestsInv
<1>2. paid \in Nat /\ extra \in Seq(Word)
  BY MarketplaceAssumption
<1>3. offerExtra \in OfferExtra
  BY <1>2, OfferExtraType DEF SubmitOfferArrayExtra
<1> HIDE DEF r, offerExtra
<1>4. /\ offers' = [offers EXCEPT ![o] = [offers[o] EXCEPT !.offStage = "Open"]]
      /\ offersExtra' = [offersExtra EXCEPT ![o] = offerExtra]
      /\ offNum' = offNum
      /\ offers \in [OfferID -> Offer]
      /\ offersExtra \in [OfferID -> OfferExtra \cup {NoExtra}]
  BY DEF SubmitOfferArrayExtra, offerExtra, TypeOK, OffersTypeOK
<1>5. OffersTypeOK'
  <2>1. offers' \in [OfferID -> Offer]
    BY <1>4 DEF Offer, Stage
  <2>2. offersExtra' \in [OfferID -> OfferExtra \cup {NoExtra}]
    BY <1>3, <1>4
  <2> QED BY <1>4, <2>1, <2>2 DEF SubmitOfferArrayExtra, TypeOK, OffersTypeOK
<1>6. /\ requests' \in [RequestID -> Request]
      /\ interledgerEvents' \in Seq(Seq(PayloadElement))
      /\ \A q \in RequestID : /\ requests'[q].isDefined = requests[q].isDefined
                              /\ requests'[q].requestMaker = requests[q].requestMaker
      /\ \A q \in RequestID : q # r => requests'[q] = requests[q]
  <2>1. CASE DecideRequestInsecure(r, <<o>>, offersExtra')
    <3>1. <<o>> \in Seq(OfferID) /\ \A i \in DOMAIN <<o>> : offersExtra'[<<o>>[i]] \in OfferExtra
      BY <1>3, <1>4
    <3> QED BY <1>1, <2>1, <3>1, DecideKeeps
  <2>2. CASE UNCHANGED <<requests, interledgerEvents>>
    BY <2>2 DEF TypeOK, RequestsTypeOK
  <2> QED BY <2>1, <2>2 DEF SubmitOfferArrayExtra, r
<1>7. RequestsTypeOK'
  BY <1>6 DEF SubmitOfferArrayExtra, TypeOK, RequestsTypeOK
<1>8. EscrowTypeOK'
  <2>1. /\ openOffersPerRequest' = [openOffersPerRequest EXCEPT ![r] = @ \cup {o}]
        /\ openOffersPerRequest \in [RequestID -> SUBSET OfferID]
        /\ escrowed' = [escrowed EXCEPT ![o] =
             [payer |-> caller, payee |-> requests[r].requestMaker, amount |-> paid]]
        /\ escrowed \in [OfferID -> E!Deal \cup {NoDeal}]
        /\ pendingPayments' = [pendingPayments EXCEPT ![o] =
             [created |-> TRUE, resolved |-> FALSE, toReturn |-> TRUE, amount |-> paid]]
        /\ pendingPayments \in [OfferID -> Payment]
        /\ balance' = balance + paid /\ balance \in Int
    BY DEF SubmitOfferArrayExtra, RegisterPendingPayment, r, TypeOK, EscrowTypeOK
  <2>2. [payer |-> caller, payee |-> requests[r].requestMaker, amount |-> paid] \in E!Deal
    BY <1>1, <1>2 DEF E!Deal
  <2>3. [created |-> TRUE, resolved |-> FALSE, toReturn |-> TRUE, amount |-> paid] \in Payment
    BY <1>2 DEF Payment
  <2>4. balance' \in Int
    BY <1>2, <2>1
  <2>5. openOffersPerRequest' \in [RequestID -> SUBSET OfferID]
    BY <1>1, <2>1
  <2> QED BY <2>1, <2>2, <2>3, <2>4, <2>5 DEF SubmitOfferArrayExtra, TypeOK, EscrowTypeOK
<1>9. TypeOK'
  BY <1>5, <1>6, <1>7, <1>8
     DEF SubmitOfferArrayExtra, TypeOK, RolesTypeOK, roleVars, tokenVars
<1>10. RequestsInv'
  BY <1>1, <1>6, ZeroesType DEF SubmitOfferArrayExtra, RequestsInv
<1>11. OffersInv'
  <2>1. /\ \A p \in OfferID : offers'[p].isDefined = offers[p].isDefined
        /\ \A p \in OfferID : offers'[p].offerMaker = offers[p].offerMaker
        /\ \A p \in OfferID : offers'[p].requestID = offers[p].requestID
        /\ \A p \in OfferID : p # o => offers'[p] = offers[p]
        /\ \A p \in OfferID : p # o => offersExtra'[p] = offersExtra[p]
        /\ offersExtra'[o] \in OfferExtra
        /\ \A p \in OfferID : offers[p].requestID \in RequestID
    BY <1>3, <1>4 DEF Offer
  <2>2. offers[o].isDefined
    BY DEF SubmitOfferArrayExtra
  <2> QED BY <1>4, <1>6, <2>1, <2>2, ZeroesType DEF OffersInv
<1> QED BY <1>9, <1>10, <1>11

LEMMA SettleTradeStorage ==
  ASSUME StorageInv, NEW caller \in Account, NEW r \in RequestID, NEW o \in OfferID,
         SettleTrade(caller, r, o)
  PROVE  StorageInv'
<1>1. RequestsTypeOK' /\ OffersTypeOK'
  BY DEF SettleTrade, StorageInv, TypeOK, RequestsTypeOK, OffersTypeOK, requestVars, offerVars
<1>2. TypeOK'
  BY <1>1, TypesUntouched DEF SettleTrade, StorageInv, TypeOK
<1> QED BY <1>2, StorageUntouched DEF SettleTrade

\* The calls about money and roles, and the clock, leave requests and offers.
LEMMA OtherTypes ==
  ASSUME TypeOK, UNCHANGED <<requestVars, offerVars, settledOffers, interledgerEvents>>
  PROVE  RequestsTypeOK' /\ OffersTypeOK' /\ interledgerEvents' \in Seq(Seq(PayloadElement))
BY DEF TypeOK, RequestsTypeOK, OffersTypeOK, requestVars, offerVars

LEMMA InterledgerReceiveStorage ==
  ASSUME StorageInv, NEW caller \in Account, NEW list \in OfferLists,
         InterledgerReceive(caller, list)
  PROVE  StorageInv'
<1> DEFINE r == offers[list[1]].requestID
           open == openOffersPerRequest[r]
<1>1. TypeOK /\ ResolveRequest(r, Elements(list))
  BY DEF InterledgerReceive, StorageInv
<1>2. pendingPayments' \in [OfferID -> Payment]
  BY <1>1 DEF ResolveRequest, TypeOK, EscrowTypeOK, Payment
<1>3. r \in RequestID /\ open \subseteq OfferID
  <2>1. list \in Seq(OfferID) /\ list # << >>
    BY MarketplaceAssumption DEF InterledgerReceive
  <2>2. list[1] \in OfferID
    BY <2>1
  <2> QED BY <1>1, <2>2 DEF TypeOK, OffersTypeOK, EscrowTypeOK, Offer
<1> HIDE DEF r
<1>4. /\ fulfilled' \subseteq OfferID /\ claimable' \subseteq OfferID
      /\ openOffersPerRequest' \in [RequestID -> SUBSET OfferID]
  BY <1>1, <1>3 DEF ResolveRequest, TypeOK, EscrowTypeOK
<1>5. EscrowTypeOK'
  BY <1>1, <1>2, <1>4 DEF InterledgerReceive, TypeOK, EscrowTypeOK
<1>6. TypeOK'
  BY <1>1, <1>5, OtherTypes
     DEF InterledgerReceive, TypeOK, RolesTypeOK, roleVars, tokenVars
<1> QED BY <1>6, StorageUntouched DEF InterledgerReceive

LEMMA WithdrawStorage ==
  ASSUME StorageInv, NEW caller \in Account, NEW o \in OfferID, Withdraw(caller, o)
  PROVE  StorageInv'
<1>1. TypeOK
  BY DEF StorageInv
<1>2. EscrowTypeOK'
  <2>1. pendingPayments[o].amount \in Nat
    BY <1>1 DEF TypeOK, EscrowTypeOK, Payment
  <2> QED BY <1>1, <2>1, ZeroesType DEF Withdraw, TypeOK, EscrowTypeOK
<1>3. TypeOK'
  BY <1>1, <1>2, OtherTypes DEF Withdraw, TypeOK, RolesTypeOK, roleVars, tokenVars
<1> QED BY <1>3, StorageUntouched DEF Withdraw

\* Roles, tokens and blocks.
LEMMA ResetAccessTokensStorage ==
  ASSUME StorageInv, NEW caller \in Account, ResetAccessTokens(caller)
  PROVE  StorageInv'
<1>1. RolesTypeOK' /\ EscrowTypeOK' /\ TypeOK
  BY DEF ResetAccessTokens, StorageInv, TypeOK, RolesTypeOK, EscrowTypeOK, roleVars, escrowVars
<1>2. TypeOK'
  BY <1>1, OtherTypes DEF ResetAccessTokens, TypeOK
<1> QED BY <1>2, StorageUntouched DEF ResetAccessTokens

LEMMA ChangeRolesStorage ==
  ASSUME StorageInv, NEW newOwner \in Account \cup {NoAccount},
         NEW newManagers \in SUBSET Account, ChangeRoles(newOwner, newManagers)
  PROVE  StorageInv'
<1>1. RolesTypeOK' /\ EscrowTypeOK' /\ TypeOK
  BY DEF ChangeRoles, StorageInv, TypeOK, RolesTypeOK, EscrowTypeOK, tokenVars, escrowVars
<1>2. TypeOK'
  BY <1>1, OtherTypes DEF ChangeRoles, TypeOK
<1> QED BY <1>2, StorageUntouched DEF ChangeRoles

LEMMA TickStorage ==
  ASSUME StorageInv, Tick
  PROVE  StorageInv'
<1>1. RolesTypeOK' /\ EscrowTypeOK' /\ TypeOK /\ block' \in Nat
  BY DEF Tick, StorageInv, TypeOK, RolesTypeOK, EscrowTypeOK, roleVars, tokenVars, escrowVars
<1>2. TypeOK'
  BY <1>1, OtherTypes DEF Tick, TypeOK
<1> QED BY <1>2, StorageUntouched DEF Tick

LEMMA StutterStorage ==
  ASSUME StorageInv, UNCHANGED vars
  PROVE  StorageInv'
<1>1. RolesTypeOK' /\ EscrowTypeOK' /\ TypeOK
  BY DEF vars, StorageInv, TypeOK, RolesTypeOK, EscrowTypeOK, roleVars, tokenVars, escrowVars
<1>2. TypeOK'
  BY <1>1, OtherTypes DEF vars, TypeOK
<1> QED BY <1>2, StorageUntouched DEF vars

LEMMA RoleChanges ==
  ASSUME StorageInv, NEW caller \in Account, NEW a \in NewRoles,
         AddManager(caller, a) \/ RevokeManagerCert(caller, a) \/ ChangeOwner(caller, a)
           \/ TransferOwnership(caller, a) \/ RenounceOwnership(caller)
  PROVE  \E newOwner \in Account \cup {NoAccount}, newManagers \in SUBSET Account :
           ChangeRoles(newOwner, newManagers)
<1>1. a \in Account /\ managers \subseteq Account /\ owner \in Account \cup {NoAccount}
  BY MarketplaceAssumption DEF StorageInv, TypeOK, RolesTypeOK
<1>2. managers \cup {a} \subseteq Account /\ managers \ {a} \subseteq Account
  BY <1>1
<1> QED BY <1>1, <1>2
        DEF AddManager, RevokeManagerCert, ChangeOwner, TransferOwnership, RenounceOwnership

LEMMA NextStorageInv == StorageInv /\ [Next]_vars => StorageInv'
<1> SUFFICES ASSUME StorageInv, [Next]_vars PROVE StorageInv'
  OBVIOUS
<1>1. ASSUME NEW caller \in Account, RequestCall(caller) PROVE StorageInv'
  BY <1>1, SubmitAuthorisedRequestStorage, SubmitRequestArrayExtraStorage,
     CloseRequestStorage, DecideRequestStorage, DeleteRequestStorage DEF RequestCall
<1>2. ASSUME NEW caller \in Account, OfferCall(caller) PROVE StorageInv'
  BY <1>2, SubmitOfferStorage, SubmitOfferArrayExtraStorage, SettleTradeStorage,
     WithdrawStorage DEF OfferCall
<1>3. ASSUME NEW caller \in Account, RoleCall(caller) PROVE StorageInv'
  <2>1. CASE \E list \in OfferLists : InterledgerReceive(caller, list)
    BY <2>1, InterledgerReceiveStorage
  <2>2. CASE ResetAccessTokens(caller)
    BY <2>2, ResetAccessTokensStorage
  <2>3. ASSUME NEW a \in NewRoles,
               AddManager(caller, a) \/ RevokeManagerCert(caller, a)
                 \/ ChangeOwner(caller, a) \/ TransferOwnership(caller, a)
        PROVE  StorageInv'
    BY <2>3, RoleChanges, ChangeRolesStorage
  <2>4. CASE RenounceOwnership(caller)
    <3>1. PICK a \in NewRoles : TRUE
      BY <2>4 DEF RenounceOwnership
    <3> QED BY <2>4, <3>1, RoleChanges, ChangeRolesStorage
  <2> QED BY <1>3, <2>1, <2>2, <2>3, <2>4 DEF RoleCall
<1> QED BY <1>1, <1>2, <1>3, TickStorage, StutterStorage DEF Next

(***************************************************************************)
(* Every reachable storage is well-typed: identifiers, stages, extras and  *)
(* payloads included.                                                      *)
(***************************************************************************)
THEOREM TypeCorrectness == Spec => []TypeOK
<1>1. Init => StorageInv
  BY InitStorageInv
<1>2. StorageInv /\ [Next]_vars => StorageInv'
  BY NextStorageInv
<1>3. StorageInv => TypeOK
  BY DEF StorageInv
<1> QED BY <1>1, <1>2, <1>3, PTL DEF Spec

-----------------------------------------------------------------------------
(***************************************************************************)
(* The money: what the payments look like, and the escrow they implement.  *)
(***************************************************************************)
\* A payment is that of the deal the offer was opened with, from then on.
PaymentsInv ==
  \A o \in OfferID :
    /\ (o >= offNum \/ (offers[o].isDefined /\ offers[o].offStage = "Pending"))
         => ~pendingPayments[o].created /\ cashedOut[o] = NoAccount
    /\ pendingPayments[o].created =>
         /\ cashedOut[o] = NoAccount
         /\ escrowed[o] \in E!Deal
         /\ pendingPayments[o].amount = escrowed[o].amount
    /\ (pendingPayments[o].created /\ offers[o].isDefined) =>
         /\ offers[o].offerMaker = escrowed[o].payer
         /\ requests[offers[o].requestID].requestMaker = escrowed[o].payee
    /\ Unresolved(o) => pendingPayments[o].toReturn

MoneyInv == PaymentsInv /\ UnresolvedOffersWait

IInv == StorageInv /\ MoneyInv

-----------------------------------------------------------------------------
(***************************************************************************)
(* The invariant.                                                          *)
(***************************************************************************)
LEMMA InitMoneyInv == Init => MoneyInv
BY ZeroesType DEF Init, MoneyInv, PaymentsInv, UnresolvedOffersWait, Unresolved, WaitsIn

\* Calls without money: offers and requests go on or are deleted.
LEMMA MoneyUntouched ==
  ASSUME StorageInv, StorageInv', MoneyInv, UNCHANGED escrowVars, offNum' = offNum,
         \A o \in OfferID : offers'[o] = offers[o] \/ offers'[o] = NoOffer,
         \A r \in RequestID :
           requests[r].isDefined /\ requests'[r].isDefined =>
             requests'[r].requestMaker = requests[r].requestMaker
  PROVE  MoneyInv'
<1>1. PaymentsInv'
  <2>1. \A o \in OfferID : offers'[o].isDefined =>
           /\ offers'[o] = offers[o]
           /\ requests'[offers'[o].requestID].requestMaker
                = requests[offers[o].requestID].requestMaker
    BY ZeroesType DEF StorageInv, OffersInv, TypeOK, OffersTypeOK, Offer
  <2> QED BY <2>1 DEF MoneyInv, PaymentsInv, Unresolved, escrowVars
<1>2. UnresolvedOffersWait'
  BY ZeroesType DEF MoneyInv, UnresolvedOffersWait, Unresolved, WaitsIn, escrowVars
<1> QED BY <1>1, <1>2 DEF MoneyInv

LEMMA RequestCallMoney ==
  ASSUME StorageInv, StorageInv', MoneyInv, NEW caller \in Account, RequestCall(caller)
  PROVE  UNCHANGED escrowVars /\ MoneyInv'
<1>1. requests \in [RequestID -> Request] /\ offers \in [OfferID -> Offer] /\ reqNum \in Nat
  BY DEF StorageInv, TypeOK, RequestsTypeOK, OffersTypeOK
<1>2. ASSUME NEW token \in Token, NEW signer \in Account, NEW deadline \in Deadlines,
             SubmitAuthorisedRequest(caller, token, signer, deadline)
      PROVE  UNCHANGED escrowVars /\ MoneyInv'
  <2>1. reqNum \in RequestID /\ ~requests[reqNum].isDefined
    BY <1>1, <1>2, ZeroesType DEF SubmitAuthorisedRequest, StorageInv, RequestsInv
  <2>2. \A r \in RequestID : r # reqNum => requests'[r] = requests[r]
    BY <1>1, <1>2 DEF SubmitAuthorisedRequest
  <2>3. offNum' = offNum /\ offers' = offers /\ UNCHANGED escrowVars
    BY <1>2 DEF SubmitAuthorisedRequest, offerVars
  <2> QED BY <2>1, <2>2, <2>3, MoneyUntouched
<1>3. ASSUME NEW r \in RequestID, NEW extra \in RequestExtraInputs,
             SubmitRequestArrayExtra(caller, r, extra)
      PROVE  UNCHANGED escrowVars /\ MoneyInv'
  <2>1. \A q \in RequestID : requests'[q].requestMaker = requests[q].requestMaker
    BY <1>1, <1>3 DEF SubmitRequestArrayExtra, Request
  <2>2. offNum' = offNum /\ offers' = offers /\ UNCHANGED escrowVars
    BY <1>3 DEF SubmitRequestArrayExtra, offerVars
  <2> QED BY <2>1, <2>2, MoneyUntouched
<1>4. ASSUME NEW r \in RequestID, CloseRequest(caller, r)
      PROVE  UNCHANGED escrowVars /\ MoneyInv'
  <2>1. \A q \in RequestID : requests'[q].requestMaker = requests[q].requestMaker
    BY <1>1, <1>4 DEF CloseRequest, Request
  <2>2. offNum' = offNum /\ offers' = offers /\ UNCHANGED escrowVars
    BY <1>4 DEF CloseRequest, offerVars
  <2> QED BY <2>1, <2>2, MoneyUntouched
<1>5. ASSUME NEW r \in RequestID, NEW list \in OfferLists, DecideRequest(caller, r, list)
      PROVE  UNCHANGED escrowVars /\ MoneyInv'
  <2>1. \A q \in RequestID : requests'[q].requestMaker = requests[q].requestMaker
    BY <1>1, <1>5 DEF DecideRequest, DecideRequestInsecure, Request
  <2>2. offNum' = offNum /\ offers' = offers /\ UNCHANGED escrowVars
    BY <1>5 DEF DecideRequest, offerVars
  <2> QED BY <2>1, <2>2, MoneyUntouched
<1>6. ASSUME NEW r \in RequestID, DeleteRequest(caller, r)
      PROVE  UNCHANGED escrowVars /\ MoneyInv'
  <2>1. \A q \in RequestID : requests'[q] = requests[q] \/ ~requests'[q].isDefined
    BY <1>1, <1>6, ZeroesType DEF DeleteRequest
  <2>2. \A o \in OfferID : offers'[o] = offers[o] \/ offers'[o] = NoOffer
    BY <1>6 DEF DeleteRequest
  <2>3. offNum' = offNum /\ UNCHANGED escrowVars
    BY <1>6 DEF DeleteRequest
  <2> QED BY <2>1, <2>2, <2>3, MoneyUntouched
<1> QED BY <1>2, <1>3, <1>4, <1>5, <1>6 DEF RequestCall

LEMMA SubmitOfferMoney ==
  ASSUME StorageInv, StorageInv', MoneyInv, NEW caller \in Account, NEW r \in RequestID,
         SubmitOffer(caller, r)
  PROVE  UNCHANGED escrowVars /\ MoneyInv'
<1>1. /\ offNum \in OfferID /\ offNum' = offNum + 1 /\ offNum \in Int
      /\ UNCHANGED escrowVars /\ requests' = requests
      /\ \A o \in OfferID : o # offNum => offers'[o] = offers[o]
      /\ ~pendingPayments[offNum].created /\ cashedOut[offNum] = NoAccount
  BY DEF SubmitOffer, requestVars, StorageInv, TypeOK, OffersTypeOK, OfferID, MoneyInv,
         PaymentsInv
<1>2. PaymentsInv'
  BY <1>1 DEF MoneyInv, PaymentsInv, Unresolved, escrowVars, OfferID
<1>3. UnresolvedOffersWait'
  BY <1>1 DEF MoneyInv, UnresolvedOffersWait, Unresolved, WaitsIn, escrowVars
<1> QED BY <1>1, <1>2, <1>3 DEF MoneyInv

LEMMA SettleTradeMoney ==
  ASSUME StorageInv, StorageInv', MoneyInv, NEW caller \in Account, NEW r \in RequestID,
         NEW o \in OfferID, SettleTrade(caller, r, o)
  PROVE  UNCHANGED escrowVars /\ MoneyInv'
BY MoneyUntouched DEF SettleTrade, requestVars, offerVars

-----------------------------------------------------------------------------
(***************************************************************************)
(* The calls that move money are steps of the escrow.                      *)
(***************************************************************************)
\* Completing an offer deposits its payment.
LEMMA SubmitOfferArrayExtraMoney ==
  ASSUME StorageInv, StorageInv', MoneyInv, NEW caller \in Account, NEW o \in OfferID,
         NEW extra \in OfferExtraInputs, NEW paid \in Payments,
         SubmitOfferArrayExtra(caller, o, extra, paid)
  PROVE  (\E d \in E!Deal : E!Deposit(o, d)) /\ MoneyInv'
<1> DEFINE r == offers[o].requestID
           deal == [payer |-> caller, payee |-> requests[r].requestMaker, amount |-> paid]
           payment == [created |-> TRUE, resolved |-> FALSE, toReturn |-> TRUE, amount |-> paid]
<1>1. /\ offers[o].isDefined /\ offers[o].offStage = "Pending"
      /\ offers[o].offerMaker = caller
      /\ pendingPayments' = [pendingPayments EXCEPT ![o] = payment]
      /\ balance' = balance + paid
      /\ offers' = [offers EXCEPT ![o].offStage = "Open"]
      /\ openOffersPerRequest' = [openOffersPerRequest EXCEPT ![r] = @ \cup {o}]
      /\ escrowed' = [escrowed EXCEPT ![o] = deal]
      /\ cashedOut' = cashedOut /\ offNum' = offNum
  BY DEF SubmitOfferArrayExtra, RegisterPendingPayment
<1>2. /\ pendingPayments \in [OfferID -> Payment] /\ offers \in [OfferID -> Offer]
      /\ openOffersPerRequest \in [RequestID -> SUBSET OfferID]
      /\ escrowed \in [OfferID -> E!Deal \cup {NoDeal}]
      /\ requests \in [RequestID -> Request]
      /\ cashedOut \in [OfferID -> Account \cup {NoAccount}]
      /\ o \in Int /\ offNum \in Int /\ ~(o >= offNum)
  BY <1>1, ZeroesType DEF StorageInv, TypeOK, OffersTypeOK, EscrowTypeOK, RequestsTypeOK,
                         OffersInv, OfferID
<1>3. r \in RequestID /\ requests[r].requestMaker \in Account /\ paid \in Nat
  BY <1>1, <1>2, MarketplaceAssumption DEF StorageInv, OffersInv, RequestsInv, Offer
<1>4. deal \in E!Deal /\ deal.payer = caller /\ deal.payee = requests[r].requestMaker
      /\ deal.amount = paid
  BY <1>3 DEF E!Deal
<1>5. payment.created /\ ~payment.resolved /\ payment.toReturn /\ payment.amount = paid
  OBVIOUS
<1>6. \A q \in RequestID : requests'[q].requestMaker = requests[q].requestMaker
  <2>1. CASE DecideRequestInsecure(r, <<o>>, offersExtra')
    <3> HIDE DEF r
    <3> QED BY <1>2, <1>3, <2>1 DEF DecideRequestInsecure, Request
  <2>2. CASE requests' = requests
    BY <2>2
  <2> QED BY <2>1, <2>2 DEF SubmitOfferArrayExtra
<1>7. \A p \in OfferID : /\ offers'[p].isDefined = offers[p].isDefined
                         /\ offers'[p].offerMaker = offers[p].offerMaker
                         /\ offers'[p].requestID = offers[p].requestID
                         /\ p # o => offers'[p] = offers[p]
                         /\ p = o => offers'[p].offStage = "Open"
  BY <1>1, <1>2 DEF Offer
<1> HIDE DEF r, deal, payment
<1>8. ~pendingPayments[o].created /\ cashedOut[o] = NoAccount
  BY <1>1 DEF MoneyInv, PaymentsInv
<1>9. /\ pendingPayments'[o] = payment /\ escrowed'[o] = deal
      /\ \A p \in OfferID : p # o => /\ pendingPayments'[p] = pendingPayments[p]
                                     /\ escrowed'[p] = escrowed[p]
  BY <1>1, <1>2
<1>10. E!Deposit(o, deal)
  <2>1. EscrowState[o] = "none"
    BY <1>8 DEF EscrowState, EscrowStateOf
  <2>2. \A p \in OfferID : EscrowState'[p] = IF p = o THEN "held" ELSE EscrowState[p]
    BY <1>1, <1>5, <1>8, <1>9 DEF EscrowState, EscrowStateOf
  <2>3. EscrowState' = [EscrowState EXCEPT ![o] = "held"]
    BY <2>2 DEF EscrowState
  <2> QED BY <1>1, <1>4, <1>9, <2>1, <2>3 DEF E!Deposit
<1>11. PaymentsInv'
  <2>1. ASSUME NEW p \in OfferID
        PROVE  requests'[offers'[p].requestID].requestMaker
                 = requests[offers[p].requestID].requestMaker
    <3>1. offers[p].requestID \in RequestID
      BY <1>2 DEF Offer
    <3>2. offers'[p].requestID = offers[p].requestID
      BY <1>7
    <3>3. requests'[offers[p].requestID].requestMaker
            = requests[offers[p].requestID].requestMaker
      BY <1>6, <3>1
    <3> QED BY <3>2, <3>3
  <2>2. offers[o].requestID = r
    BY DEF r
  <2> QED BY <1>1, <1>2, <1>3, <1>4, <1>5, <1>6, <1>7, <1>8, <1>9, <2>1, <2>2
          DEF MoneyInv, PaymentsInv, Unresolved
<1>12. UnresolvedOffersWait'
  <2>1. \A q \in RequestID : ~WaitsIn(o, q)
    BY <1>8 DEF MoneyInv, UnresolvedOffersWait, Unresolved
  <2>2. \A p \in OfferID, q \in RequestID : WaitsIn(p, q)' <=> WaitsIn(p, q) \/ (p = o /\ q = r)
    BY <1>1, <1>2, <1>3 DEF WaitsIn
  <2>3. \A p \in OfferID : p # o => Unresolved(p)' = Unresolved(p)
    BY <1>9 DEF Unresolved
  <2>4. Unresolved(o)' /\ offers[o].requestID = r
    BY <1>5, <1>9 DEF Unresolved, r
  <2>5. ASSUME NEW p \in OfferID
        PROVE  /\ Unresolved(p)' <=> \E q \in RequestID : WaitsIn(p, q)'
               /\ \A q \in RequestID : (WaitsIn(p, q)' /\ offers'[p].isDefined)
                                         => q = offers'[p].requestID
               /\ \A q, x \in RequestID : (WaitsIn(p, q)' /\ WaitsIn(p, x)') => q = x
    <3>1. CASE p = o
      <4>1. \A q \in RequestID : WaitsIn(o, q)' <=> q = r
        BY <2>1, <2>2
      <4>2. offers'[o].requestID = r
        BY <1>7, <2>4
      <4> QED BY <1>3, <2>4, <3>1, <4>1, <4>2
    <3>2. CASE p # o
      <4>1. \A q \in RequestID : WaitsIn(p, q)' <=> WaitsIn(p, q)
        BY <2>2, <3>2
      <4>2. offers'[p] = offers[p] /\ (Unresolved(p)' <=> Unresolved(p))
        BY <1>7, <2>3, <3>2
      <4> QED BY <4>1, <4>2 DEF MoneyInv, UnresolvedOffersWait
    <3> QED BY <3>1, <3>2
  <2> QED BY <2>5 DEF UnresolvedOffersWait
<1> QED BY <1>4, <1>10, <1>11, <1>12 DEF MoneyInv

\* A report resolves every offer that waits for the request it names.
LEMMA InterledgerReceiveMoney ==
  ASSUME StorageInv, MoneyInv, NEW caller \in Account, NEW list \in OfferLists,
         InterledgerReceive(caller, list)
  PROVE  (\E won, lost \in SUBSET OfferID : E!Resolve(won, lost)) /\ MoneyInv'
<1> DEFINE r == offers[list[1]].requestID
           reported == Elements(list)
           open == openOffersPerRequest[r]
<1>1. /\ ResolveRequest(r, reported)
      /\ UNCHANGED <<requestVars, offerVars, balance, escrowed, cashedOut>>
  BY DEF InterledgerReceive
<1>2. /\ pendingPayments \in [OfferID -> Payment] /\ offers \in [OfferID -> Offer]
      /\ openOffersPerRequest \in [RequestID -> SUBSET OfferID]
  BY DEF StorageInv, TypeOK, OffersTypeOK, EscrowTypeOK
<1>3. r \in RequestID /\ open \subseteq OfferID
  <2>1. list \in Seq(OfferID) /\ list # << >>
    BY MarketplaceAssumption DEF InterledgerReceive
  <2>2. list[1] \in OfferID
    BY <2>1
  <2> QED BY <1>2, <2>2 DEF Offer
<1> HIDE DEF r, reported
<1>4. \A o \in OfferID :
        /\ o \notin open => pendingPayments'[o] = pendingPayments[o]
        /\ o \in open => /\ pendingPayments'[o].created = pendingPayments[o].created
                         /\ pendingPayments'[o].resolved
                         /\ pendingPayments'[o].toReturn
                              = (pendingPayments[o].toReturn /\ o \notin reported)
                         /\ pendingPayments'[o].amount = pendingPayments[o].amount
  BY <1>1, <1>2 DEF ResolveRequest, Payment
<1>5. openOffersPerRequest' = [openOffersPerRequest EXCEPT ![r] = {}]
  BY <1>1 DEF ResolveRequest
<1>6. \A o \in OfferID : o \in open => Unresolved(o) /\ pendingPayments[o].toReturn
                                       /\ cashedOut[o] = NoAccount
  BY <1>3 DEF MoneyInv, UnresolvedOffersWait, WaitsIn, PaymentsInv, Unresolved
<1> HIDE DEF open
<1>7. E!Resolve(open \cap reported, open \ reported)
  <2>1. \A o \in OfferID : o \in open => EscrowState[o] = "held"
    BY <1>6 DEF EscrowState, EscrowStateOf, Unresolved
  <2>2. \A o \in OfferID :
          /\ o \in open /\ o \in reported => EscrowState'[o] = "payable"
          /\ o \in open /\ o \notin reported => EscrowState'[o] = "refundable"
          /\ o \notin open => EscrowState'[o] = EscrowState[o]
    BY <1>1, <1>4, <1>6 DEF EscrowState, EscrowStateOf, Unresolved
  <2>3. EscrowState' = [o \in OfferID |->
          IF o \in open \cap reported THEN "payable"
          ELSE IF o \in open \ reported THEN "refundable" ELSE EscrowState[o]]
    BY <2>2 DEF EscrowState
  <2> QED BY <1>1, <1>3, <2>1, <2>3 DEF E!Resolve, E!Offer, OfferID
<1>8. PaymentsInv'
  BY <1>1, <1>4, <1>6 DEF MoneyInv, PaymentsInv, Unresolved, requestVars, offerVars
<1>9. UnresolvedOffersWait'
  <2>1. \A o \in OfferID, q \in RequestID : WaitsIn(o, q)' <=> WaitsIn(o, q) /\ q # r
    BY <1>2, <1>3, <1>5 DEF WaitsIn
  <2>2. \A o \in OfferID : Unresolved(o)' <=> Unresolved(o) /\ ~WaitsIn(o, r)
    BY <1>4 DEF Unresolved, WaitsIn, open
  <2> QED BY <1>1, <1>3, <2>1, <2>2 DEF MoneyInv, UnresolvedOffersWait, offerVars
<1>10. (open \cap reported) \in SUBSET OfferID /\ (open \ reported) \in SUBSET OfferID
  BY <1>3
<1> QED BY <1>7, <1>8, <1>9, <1>10 DEF MoneyInv

\* Deleted offers and requests have no maker, so nobody withdraws for them.
LEMMA WithdrawerIsParty ==
  ASSUME StorageInv, MoneyInv, NEW caller \in Account, NEW o \in OfferID,
         MayWithdraw(caller, o)
  PROVE  /\ offers[o].isDefined /\ offers[o].offStage # "Pending"
         /\ pendingPayments[o].toReturn => caller = escrowed[o].payer
         /\ ~pendingPayments[o].toReturn => caller = escrowed[o].payee
<1>1. caller # NoAccount /\ pendingPayments[o].created
  BY MarketplaceAssumption DEF MayWithdraw
<1>2. offers[o].isDefined /\ offers[o].offStage # "Pending"
  <2>1. requests[0].requestMaker = NoAccount
    BY ZeroesType DEF StorageInv, RequestsInv
  <2>2. ~offers[o].isDefined => offers[o] = NoOffer
    BY DEF StorageInv, OffersInv
  <2>3. offers[o].isDefined
    BY <1>1, <2>1, <2>2, ZeroesType DEF MayWithdraw
  <2> QED BY <1>1, <2>3 DEF MoneyInv, PaymentsInv
<1>3. /\ pendingPayments[o].toReturn => caller = escrowed[o].payer
      /\ ~pendingPayments[o].toReturn => caller = escrowed[o].payee
  BY <1>1, <1>2 DEF MayWithdraw, MoneyInv, PaymentsInv
<1> QED BY <1>2, <1>3

\* A withdrawal pays out the offer, to the account its deal names.
LEMMA WithdrawMoney ==
  ASSUME StorageInv, MoneyInv, NEW caller \in Account, NEW o \in OfferID, Withdraw(caller, o)
  PROVE  E!PayOut(o) /\ MoneyInv'
<1>1. /\ MayWithdraw(caller, o)
      /\ pendingPayments' = [pendingPayments EXCEPT ![o] = NoPayment]
      /\ balance' = balance - pendingPayments[o].amount
      /\ cashedOut' = [cashedOut EXCEPT ![o] = caller]
      /\ UNCHANGED <<requestVars, offerVars, openOffersPerRequest, escrowed>>
  BY DEF Withdraw
<1>2. /\ pendingPayments \in [OfferID -> Payment] /\ offers \in [OfferID -> Offer]
      /\ cashedOut \in [OfferID -> Account \cup {NoAccount}]
      /\ caller # NoAccount
  BY MarketplaceAssumption DEF StorageInv, TypeOK, OffersTypeOK, EscrowTypeOK
<1>3. /\ pendingPayments[o].created /\ pendingPayments[o].resolved
      /\ cashedOut[o] = NoAccount
      /\ pendingPayments[o].amount = escrowed[o].amount
  BY <1>1 DEF MayWithdraw, MoneyInv, PaymentsInv
<1>4. offers[o].isDefined /\ offers[o].offStage # "Pending"
  BY <1>1, WithdrawerIsParty
<1>5. /\ pendingPayments[o].toReturn => caller = escrowed[o].payer
      /\ ~pendingPayments[o].toReturn => caller = escrowed[o].payee
  BY <1>1, WithdrawerIsParty
<1>6. ~pendingPayments'[o].created /\ cashedOut'[o] = caller
      /\ \A p \in OfferID : p # o => /\ pendingPayments'[p] = pendingPayments[p]
                                     /\ cashedOut'[p] = cashedOut[p]
  BY <1>1, <1>2, ZeroesType
<1>7. E!PayOut(o)
  <2>1. EscrowState[o] = IF pendingPayments[o].toReturn THEN "refundable" ELSE "payable"
    BY <1>3 DEF EscrowState, EscrowStateOf
  <2>2. caller = E!Recipient(o)
    BY <1>5, <2>1 DEF E!Recipient
  <2>3. \A p \in OfferID : EscrowState'[p] = IF p = o THEN "paid" ELSE EscrowState[p]
    BY <1>2, <1>6 DEF EscrowState, EscrowStateOf
  <2>4. EscrowState' = [EscrowState EXCEPT ![o] = "paid"]
    BY <2>3 DEF EscrowState
  <2> QED BY <1>1, <1>3, <2>1, <2>2, <2>4 DEF E!PayOut
<1>8. PaymentsInv'
  <2>1. ~(o >= offNum)
    BY <1>4, ZeroesType DEF StorageInv, OffersInv
  <2> QED BY <1>1, <1>4, <1>6, <2>1
          DEF MoneyInv, PaymentsInv, Unresolved, requestVars, offerVars
<1>9. UnresolvedOffersWait'
  <2>1. \A p \in OfferID : Unresolved(p)' <=> Unresolved(p)
    BY <1>3, <1>6 DEF Unresolved
  <2> QED BY <1>1, <2>1 DEF MoneyInv, UnresolvedOffersWait, WaitsIn, offerVars
<1> QED BY <1>7, <1>8, <1>9 DEF MoneyInv

\* Roles, tokens, blocks and steps of others leave the money alone.
LEMMA RoleCallMoney ==
  ASSUME StorageInv, StorageInv', MoneyInv,
         UNCHANGED <<requestVars, offerVars, escrowVars>>
  PROVE  MoneyInv'
BY MoneyUntouched DEF requestVars, offerVars

-----------------------------------------------------------------------------
(***************************************************************************)
(* The invariant and the refinement, step by step.                         *)
(***************************************************************************)
EscrowStep == [E!Next]_(E!vars)

LEMMA EscrowStutters == UNCHANGED escrowVars => UNCHANGED E!vars
BY DEF escrowVars, E!vars, EscrowState, EscrowStateOf

LEMMA NextIInv == IInv /\ [Next]_vars => IInv' /\ EscrowStep
<1> SUFFICES ASSUME IInv, [Next]_vars PROVE MoneyInv' /\ EscrowStep
  BY NextStorageInv DEF IInv
<1>1. StorageInv /\ StorageInv' /\ MoneyInv
  BY NextStorageInv DEF IInv
<1>2. ASSUME UNCHANGED escrowVars PROVE EscrowStep
  BY <1>2, EscrowStutters DEF EscrowStep
<1>3. ASSUME NEW caller \in Account, RequestCall(caller) PROVE MoneyInv' /\ EscrowStep
  BY <1>1, <1>2, <1>3, RequestCallMoney
<1>4. ASSUME NEW caller \in Account, NEW r \in RequestID, SubmitOffer(caller, r)
      PROVE  MoneyInv' /\ EscrowStep
  BY <1>1, <1>2, <1>4, SubmitOfferMoney
<1>5. ASSUME NEW caller \in Account, NEW o \in OfferID, NEW extra \in OfferExtraInputs,
             NEW paid \in Payments, SubmitOfferArrayExtra(caller, o, extra, paid)
      PROVE  MoneyInv' /\ EscrowStep
  <2>1. MoneyInv' /\ \E d \in E!Deal : E!Deposit(o, d)
    BY <1>1, <1>5, SubmitOfferArrayExtraMoney
  <2> QED BY <2>1 DEF EscrowStep, E!Next, E!Offer, OfferID
<1>6. ASSUME NEW caller \in Account, NEW r \in RequestID, NEW o \in OfferID,
             SettleTrade(caller, r, o)
      PROVE  MoneyInv' /\ EscrowStep
  BY <1>1, <1>2, <1>6, SettleTradeMoney
<1>7. ASSUME NEW caller \in Account, NEW o \in OfferID, Withdraw(caller, o)
      PROVE  MoneyInv' /\ EscrowStep
  <2>1. MoneyInv' /\ E!PayOut(o)
    BY <1>1, <1>7, WithdrawMoney
  <2> QED BY <2>1 DEF EscrowStep, E!Next, E!Offer, OfferID
<1>8. ASSUME NEW caller \in Account, NEW list \in OfferLists, InterledgerReceive(caller, list)
      PROVE  MoneyInv' /\ EscrowStep
  <2>1. MoneyInv' /\ \E won, lost \in SUBSET OfferID : E!Resolve(won, lost)
    BY <1>1, <1>8, InterledgerReceiveMoney
  <2> QED BY <2>1 DEF EscrowStep, E!Next, E!Offer, OfferID
<1>9. ASSUME UNCHANGED <<requestVars, offerVars, escrowVars>> PROVE MoneyInv' /\ EscrowStep
  BY <1>1, <1>2, <1>9, RoleCallMoney
<1>10. ASSUME NEW caller \in Account, RoleCall(caller) PROVE MoneyInv' /\ EscrowStep
  <2>1. \/ \E list \in OfferLists : InterledgerReceive(caller, list)
        \/ UNCHANGED <<requestVars, offerVars, escrowVars>>
    BY <1>10 DEF RoleCall, ResetAccessTokens, AddManager, RevokeManagerCert, ChangeOwner,
                TransferOwnership, RenounceOwnership, ChangeRoles
  <2> QED BY <1>8, <1>9, <2>1
<1>11. CASE Tick \/ UNCHANGED vars
  BY <1>9, <1>11 DEF Tick, vars
<1> QED BY <1>3, <1>4, <1>5, <1>6, <1>7, <1>10, <1>11 DEF Next, OfferCall

LEMMA InitIInv == Init => IInv /\ E!Init
<1> SUFFICES ASSUME Init PROVE IInv /\ E!Init
  OBVIOUS
<1>1. IInv
  BY InitStorageInv, InitMoneyInv DEF IInv
<1>2. E!Init
  BY ZeroesType DEF Init, E!Init, E!Offer, OfferID, EscrowState, EscrowStateOf,
                    NoDeal, E!NoDeal
<1> QED BY <1>1, <1>2

(***************************************************************************)
(* Storage and money are in order after every call.                        *)
(***************************************************************************)
THEOREM Invariance == Spec => []IInv
<1>1. Init => IInv
  BY InitIInv
<1>2. IInv /\ [Next]_vars => IInv'
  BY NextIInv
<1> QED BY <1>1, <1>2, PTL DEF Spec

(***************************************************************************)
(* An offer waits in the list of its request, and in no other, exactly as  *)
(* long as its payment is unresolved: `submitOfferArrayExtra` puts it      *)
(* there, `resolveRequest` empties the list, and neither deletions nor     *)
(* later decisions part the two.                                           *)
(***************************************************************************)
THEOREM OffersWait == Spec => []UnresolvedOffersWait
<1>1. IInv => UnresolvedOffersWait
  BY DEF IInv, MoneyInv
<1> QED BY <1>1, Invariance, PTL

(***************************************************************************)
(* The contract implements the escrow: every call deposits, resolves or    *)
(* pays out as Escrow does, or leaves the money alone.                     *)
(***************************************************************************)
THEOREM Refinement == Spec => ImplementsEscrow
<1>1. Init => IInv /\ E!Init
  BY InitIInv
<1>2. IInv /\ [Next]_vars => IInv' /\ [E!Next]_(E!vars)
  BY NextIInv DEF EscrowStep
<1> QED BY <1>1, <1>2, PTL DEF Spec, ImplementsEscrow, E!Spec

\* The escrow with its theorems, under the same refinement mapping.
EP == INSTANCE EscrowProofs WITH Amount <- Payments, state <- EscrowState,
                                 deal <- escrowed, paidTo <- cashedOut, vault <- balance

\* EP names the definitions that Marketplace names with E.
LEMMA SameEscrow ==
  /\ EP!EscrowAssumption
  /\ E!Init => EP!Init
  /\ [E!Next]_(E!vars) => [EP!Next]_(EP!vars)
  /\ EP!Solvent => Solvent
<1>1. EP!EscrowAssumption
  BY MarketplaceAssumption DEF EP!EscrowAssumption
<1> USE DEF E!Offer, EP!Offer, E!Deal, EP!Deal, E!NoDeal, EP!NoDeal
<1>2. E!Init => EP!Init
  BY Zenon DEF E!Init, EP!Init
<1>3. [E!Next]_(E!vars) => [EP!Next]_(EP!vars)
  BY Zenon DEF E!Next, EP!Next, E!vars, EP!vars, E!Deposit, EP!Deposit, E!Resolve,
               EP!Resolve, E!PayOut, EP!PayOut, E!Recipient, EP!Recipient
<1>4. EP!Solvent => Solvent
  BY Zenon DEF Solvent, E!Solvent, EP!Solvent, E!HeldFor, EP!HeldFor, E!Total, EP!Total
<1> QED BY <1>1, <1>2, <1>3, <1>4

(***************************************************************************)
(* The ether of the contract is always the money of the offers not paid    *)
(* out: the contract implements the escrow, and the escrow is solvent.     *)
(***************************************************************************)
THEOREM Solvency == Spec => []Solvent
<1>1. E!Init => EP!Inv
  BY SameEscrow, EP!InitInv
<1>2. EP!Inv /\ [E!Next]_(E!vars) => EP!Inv'
  BY SameEscrow, EP!NextInv
<1>3. EP!Inv => Solvent
  BY SameEscrow, EP!InvSolvent
<1> QED BY <1>1, <1>2, <1>3, Refinement, PTL DEF ImplementsEscrow, E!Spec
=============================================================================
