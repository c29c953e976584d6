------------------------- MODULE MarketplaceVerdicts -------------------------
(***************************************************************************)
(* The money of an offer goes where the verdict of Interledger sends it,   *)
(* and a verdict never changes; and what stays true of requests, offers,   *)
(* decisions and access tokens through their lives.                        *)
(***************************************************************************)
EXTENDS MarketplaceProofs

PaidAsAnnounced(o) ==
  \/ o \in fulfilled /\ cashedOut[o] = escrowed[o].payee
  \/ o \in claimable /\ cashedOut[o] = escrowed[o].payer

\* The events of an offer agree with its payment, and after the withdrawal
\* with the account that was paid.
VerdictsInv ==
  \A o \in OfferID :
    /\ ~(o \in fulfilled /\ o \in claimable)
    /\ ~pendingPayments[o].created => ~pendingPayments[o].resolved
    /\ (~pendingPayments[o].resolved /\ cashedOut[o] = NoAccount)
         => o \notin fulfilled /\ o \notin claimable
    /\ (pendingPayments[o].resolved /\ pendingPayments[o].toReturn) => o \in claimable
    /\ (pendingPayments[o].resolved /\ ~pendingPayments[o].toReturn) => o \in fulfilled
    /\ cashedOut[o] # NoAccount => PaidAsAnnounced(o)

\* What VerdictIsFinal says of a step.
VerdictKept ==
  \A o \in OfferID :
    /\ pendingPayments[o].resolved => pendingPayments'[o] \in {pendingPayments[o], NoPayment}
    /\ cashedOut[o] # NoAccount => ~pendingPayments'[o].created

\* The calls that move money.
MoneyCall(caller) ==
  \/ \E o \in OfferID, extra \in OfferExtraInputs, paid \in Payments :
       SubmitOfferArrayExtra(caller, o, extra, paid)
  \/ \E list \in OfferLists : InterledgerReceive(caller, list)
  \/ \E o \in OfferID : Withdraw(caller, o)

LEMMA MoneyCalls ==
  ASSUME IInv, [Next]_vars
  PROVE  UNCHANGED escrowVars \/ \E caller \in Account : MoneyCall(caller)
<1>1. StorageInv /\ StorageInv' /\ MoneyInv
  BY NextStorageInv DEF IInv
<1>2. ASSUME NEW caller \in Account, RequestCall(caller) PROVE UNCHANGED escrowVars
  BY <1>1, <1>2, RequestCallMoney
<1>3. ASSUME NEW caller \in Account, OfferCall(caller)
      PROVE  UNCHANGED escrowVars \/ MoneyCall(caller)
  BY <1>1, <1>3, SubmitOfferMoney, SettleTradeMoney DEF OfferCall, MoneyCall
<1>4. ASSUME NEW caller \in Account, RoleCall(caller)
      PROVE  UNCHANGED escrowVars \/ MoneyCall(caller)
  BY <1>4 DEF RoleCall, MoneyCall, ResetAccessTokens, AddManager, RevokeManagerCert,
              ChangeOwner, TransferOwnership, RenounceOwnership, ChangeRoles
<1>5. CASE Tick \/ UNCHANGED vars
  BY <1>5 DEF Tick, vars
<1> QED BY <1>2, <1>3, <1>4, <1>5 DEF Next

-----------------------------------------------------------------------------
\* An offer that is completed was neither paid for nor announced before.
LEMMA SubmitOfferArrayExtraVerdicts ==
  ASSUME IInv, VerdictsInv, NEW caller \in Account, NEW o \in OfferID,
         NEW extra \in OfferExtraInputs, NEW paid \in Payments,
         SubmitOfferArrayExtra(caller, o, extra, paid)
  PROVE  VerdictsInv' /\ VerdictKept
<1>1. /\ ~pendingPayments[o].created /\ cashedOut[o] = NoAccount
      /\ UNCHANGED <<fulfilled, claimable, cashedOut>>
  BY DEF IInv, MoneyInv, PaymentsInv, SubmitOfferArrayExtra
<1>2. ~pendingPayments'[o].resolved
      /\ \A p \in OfferID : p # o => /\ pendingPayments'[p] = pendingPayments[p]
                                     /\ escrowed'[p] = escrowed[p]
  BY DEF IInv, StorageInv, TypeOK, EscrowTypeOK, SubmitOfferArrayExtra,
         RegisterPendingPayment
<1>3. VerdictsInv'
  BY <1>1, <1>2 DEF VerdictsInv, PaidAsAnnounced
<1>4. \A p \in OfferID : cashedOut[p] # NoAccount => ~pendingPayments[p].created
  BY DEF IInv, MoneyInv, PaymentsInv
<1>5. VerdictKept
  BY <1>1, <1>2, <1>4 DEF VerdictsInv, VerdictKept
<1> QED BY <1>3, <1>5

\* A report announces the offers that waited, and only those.
LEMMA InterledgerReceiveVerdicts ==
  ASSUME IInv, VerdictsInv, NEW caller \in Account, NEW list \in OfferLists,
         InterledgerReceive(caller, list)
  PROVE  VerdictsInv' /\ VerdictKept
<1> DEFINE r == offers[list[1]].requestID
           reported == Elements(list)
           open == openOffersPerRequest[r]
<1>1. ResolveRequest(r, reported) /\ UNCHANGED <<escrowed, cashedOut>>
  BY DEF InterledgerReceive
<1>2. pendingPayments \in [OfferID -> Payment]
  BY DEF IInv, StorageInv, TypeOK, EscrowTypeOK
<1>3. r \in RequestID
  <2>1. list \in Seq(OfferID) /\ list # << >>
    BY MarketplaceAssumption DEF InterledgerReceive
  <2>2. list[1] \in OfferID
    BY <2>1
  <2> QED BY <2>2 DEF IInv, StorageInv, TypeOK, OffersTypeOK, Offer
<1> HIDE DEF r, reported
<1>4. \A o \in OfferID : o \in open => /\ ~pendingPayments[o].resolved
                                       /\ pendingPayments[o].created
                                       /\ pendingPayments[o].toReturn
                                       /\ cashedOut[o] = NoAccount
  BY <1>3 DEF IInv, MoneyInv, PaymentsInv, UnresolvedOffersWait, WaitsIn, Unresolved
<1>5. \A o \in OfferID :
        /\ o \notin open => pendingPayments'[o] = pendingPayments[o]
        /\ o \in open => /\ pendingPayments'[o].resolved /\ pendingPayments'[o].created
                         /\ pendingPayments'[o].toReturn <=> o \notin reported
  <2>1. \A o \in OfferID :
          /\ o \notin open => pendingPayments'[o] = pendingPayments[o]
          /\ o \in open => /\ pendingPayments'[o].created = pendingPayments[o].created
                           /\ pendingPayments'[o].resolved
                           /\ pendingPayments'[o].toReturn
                                = (pendingPayments[o].toReturn /\ o \notin reported)
    BY <1>1, <1>2 DEF ResolveRequest, Payment
  <2> QED BY <1>4, <2>1
<1>6. \A o \in OfferID :
        /\ o \in fulfilled' <=> o \in fulfilled \/ (o \in open /\ o \in reported)
        /\ o \in claimable' <=> o \in claimable \/ (o \in open /\ o \notin reported)
  <2>1. /\ fulfilled' = fulfilled \cup (open \cap reported)
        /\ claimable' = claimable \cup {o \in open : pendingPayments'[o].toReturn}
    BY <1>1 DEF ResolveRequest
  <2> QED BY <1>5, <2>1
<1> HIDE DEF open
<1>7. VerdictsInv'
  BY <1>1, <1>4, <1>5, <1>6 DEF VerdictsInv, PaidAsAnnounced
<1>8. \A p \in OfferID : cashedOut[p] # NoAccount => ~pendingPayments[p].created
  BY DEF IInv, MoneyInv, PaymentsInv
<1>9. VerdictKept
  BY <1>4, <1>5, <1>8 DEF VerdictKept
<1> QED BY <1>7, <1>9

\* Who may withdraw is who the announcement names.
LEMMA WithdrawVerdicts ==
  ASSUME IInv, VerdictsInv, NEW caller \in Account, NEW o \in OfferID, Withdraw(caller, o)
  PROVE  VerdictsInv' /\ VerdictKept
<1>1. /\ MayWithdraw(caller, o)
      /\ caller # NoAccount
      /\ UNCHANGED <<escrowed, fulfilled, claimable>>
  BY MarketplaceAssumption DEF Withdraw
<1>2. /\ pendingPayments'[o] = NoPayment /\ cashedOut'[o] = caller
      /\ \A p \in OfferID : p # o => /\ pendingPayments'[p] = pendingPayments[p]
                                     /\ cashedOut'[p] = cashedOut[p]
  BY DEF Withdraw, IInv, StorageInv, TypeOK, EscrowTypeOK
<1>3. /\ pendingPayments[o].toReturn => caller = escrowed[o].payer
      /\ ~pendingPayments[o].toReturn => caller = escrowed[o].payee
  BY WithdrawerIsParty DEF IInv, Withdraw
<1>4. PaidAsAnnounced(o)'
  BY <1>1, <1>2, <1>3 DEF VerdictsInv, PaidAsAnnounced, MayWithdraw
<1>5. VerdictsInv'
  BY <1>1, <1>2, <1>4, ZeroesType DEF VerdictsInv, PaidAsAnnounced
<1>6. \A p \in OfferID : cashedOut[p] # NoAccount => ~pendingPayments[p].created
  BY DEF IInv, MoneyInv, PaymentsInv
<1>7. VerdictKept
  BY <1>2, <1>6, ZeroesType DEF VerdictKept
<1> QED BY <1>5, <1>7

LEMMA NextVerdicts ==
  IInv /\ VerdictsInv /\ [Next]_vars => VerdictsInv' /\ VerdictKept
<1> SUFFICES ASSUME IInv, VerdictsInv, [Next]_vars PROVE VerdictsInv' /\ VerdictKept
  OBVIOUS
<1>1. CASE UNCHANGED escrowVars
  <2>1. VerdictsInv'
    BY <1>1 DEF VerdictsInv, PaidAsAnnounced, escrowVars
  <2>2. \A p \in OfferID : cashedOut[p] # NoAccount => ~pendingPayments[p].created
    BY DEF IInv, MoneyInv, PaymentsInv
  <2>3. VerdictKept
    BY <1>1, <2>2 DEF VerdictKept, escrowVars
  <2> QED BY <2>1, <2>3
<1>2. ASSUME NEW caller \in Account, MoneyCall(caller) PROVE VerdictsInv' /\ VerdictKept
  BY <1>2, SubmitOfferArrayExtraVerdicts, InterledgerReceiveVerdicts, WithdrawVerdicts
     DEF MoneyCall
<1> QED BY <1>1, <1>2, MoneyCalls

LEMMA InitVerdictsInv == Init => VerdictsInv
BY ZeroesType DEF Init, VerdictsInv

(***************************************************************************)
(* Money left the contract only for the account that published the request *)
(* of a fulfilled offer, or for the one that paid for a claimable offer.   *)
(***************************************************************************)
THEOREM RightParty == Spec => []RightPartyPaid
<1>1. Init => IInv /\ VerdictsInv
  BY InitIInv, InitVerdictsInv
<1>2. IInv /\ VerdictsInv /\ [Next]_vars => (IInv /\ VerdictsInv)'
  BY NextIInv, NextVerdicts
<1>3. IInv /\ VerdictsInv => RightPartyPaid
  <2> SUFFICES ASSUME IInv, VerdictsInv PROVE RightPartyPaid
    OBVIOUS
  <2>1. fulfilled \subseteq OfferID /\ claimable \subseteq OfferID
    BY DEF IInv, StorageInv, TypeOK, EscrowTypeOK
  <2>2. fulfilled \cap claimable = {}
    BY <2>1 DEF VerdictsInv
  <2> QED BY <2>2 DEF VerdictsInv, PaidAsAnnounced, RightPartyPaid
<1> QED BY <1>1, <1>2, <1>3, PTL DEF Spec

(***************************************************************************)
(* A resolved payment stays as it is until it is withdrawn, and never      *)
(* comes back: no later report, decision or deletion changes a verdict.    *)
(***************************************************************************)
THEOREM Finality == Spec => VerdictIsFinal
<1>1. Init => IInv /\ VerdictsInv
  BY InitIInv, InitVerdictsInv
<1>2. IInv /\ VerdictsInv /\ [Next]_vars => (IInv /\ VerdictsInv)' /\ [VerdictKept]_vars
  BY NextIInv, NextVerdicts
<1>3. VerdictIsFinal <=> [][VerdictKept]_vars
  BY PTL DEF VerdictIsFinal, VerdictKept
<1> QED BY <1>1, <1>2, <1>3, PTL DEF Spec

-----------------------------------------------------------------------------
(***************************************************************************)
(* The life of requests and offers.                                        *)
(***************************************************************************)
\* Bidding is over for what was decided, and only what was decided is resolved.
LifeInv ==
  /\ \A r \in RequestID : requests[r].isDecided => requests[r].reqStage = "Closed"
  /\ \A o \in OfferID : (offers[o].isDefined /\ pendingPayments[o].resolved)
                          => requests[offers[o].requestID].isDecided

\* Requests are closed and decided for good, and keep who made them.
RequestsGoOn ==
  \A r \in RequestID :
    /\ requests[r].reqStage = "Closed" =>
         requests'[r].reqStage = "Closed" \/ ~requests'[r].isDefined
    /\ requests[r].isDecided => requests'[r].isDecided \/ ~requests'[r].isDefined
    /\ requests'[r].isDecided => requests'[r].reqStage = "Closed"
    /\ requests'[r].isDefined =>
         \/ requests[r].isDefined /\ requests'[r].requestMaker = requests[r].requestMaker
         \/ reqNum' > reqNum

\* Offers stay as they are, are deleted with their request, or are made.
OffersKept ==
  /\ offersExtra' = offersExtra /\ offNum' >= offNum
  /\ \A o \in OfferID : \/ offers'[o] = offers[o]
                        \/ /\ offers'[o] = NoOffer
                           /\ ~requests'[offers[o].requestID].isDefined
                        \/ o >= offNum /\ offers'[o].offStage = "Pending"
  /\ \A r \in RequestID : openOffersPerRequest'[r] \subseteq openOffersPerRequest[r]

CompletesOffer(o) ==
  \E caller \in Account, extra \in OfferExtraInputs, paid \in Payments :
    SubmitOfferArrayExtra(caller, o, extra, paid)

LEMMA OffersUnchanged ==
  ASSUME StorageInv, UNCHANGED <<offNum, offers, offersExtra, openOffersPerRequest>>
  PROVE  OffersKept
BY DEF OffersKept, StorageInv, TypeOK, OffersTypeOK

LEMMA DecidedGoOn ==
  ASSUME StorageInv, LifeInv, NEW r \in RequestID, NEW list, NEW extras,
         DecideRequestInsecure(r, list, extras)
  PROVE  RequestsGoOn
<1>1. requests \in [RequestID -> Request]
  BY DEF StorageInv, TypeOK, RequestsTypeOK
<1>2. requests' = [requests EXCEPT ![r] =
                     [requests[r] EXCEPT !.reqStage = "Closed", !.closingBlock = block,
                                         !.isDecided = TRUE, !.acceptedOfferIDs = list]]
  BY DEF DecideRequestInsecure
<1>3. requests'[r].reqStage = "Closed" /\ requests'[r].isDecided
      /\ requests'[r].isDefined = requests[r].isDefined
      /\ requests'[r].requestMaker = requests[r].requestMaker
      /\ \A q \in RequestID \ {r} : requests'[q] = requests[q]
  BY <1>1, <1>2 DEF Request
<1> QED BY <1>3 DEF RequestsGoOn, LifeInv

LEMMA RequestCallGoesOn ==
  ASSUME StorageInv, LifeInv, NEW caller \in Account, RequestCall(caller)
  PROVE  RequestsGoOn /\ OffersKept
<1>1. requests \in [RequestID -> Request] /\ reqNum \in Nat /\ block \in Nat
  BY DEF StorageInv, TypeOK, RequestsTypeOK
<1>2. ASSUME NEW token \in Token, NEW signer \in Account, NEW deadline \in Deadlines,
             SubmitAuthorisedRequest(caller, token, signer, deadline)
      PROVE  RequestsGoOn /\ OffersKept
  <2>1. reqNum \in RequestID /\ requests[reqNum] = NoRequest
    BY <1>1, <1>2 DEF SubmitAuthorisedRequest, StorageInv, RequestsInv
  <2>2. requests[reqNum].reqStage # "Closed" /\ ~requests[reqNum].isDecided
    BY <2>1 DEF NoRequest
  <2>3. ~requests'[reqNum].isDecided /\ \A r \in RequestID \ {reqNum} : requests'[r] = requests[r]
    BY <1>1, <1>2, <2>1 DEF SubmitAuthorisedRequest, NoRequest
  <2>4. RequestsGoOn
    BY <1>1, <1>2, <2>1, <2>2, <2>3 DEF RequestsGoOn, LifeInv, SubmitAuthorisedRequest
  <2> QED BY <1>2, <2>4, OffersUnchanged DEF SubmitAuthorisedRequest, offerVars, escrowVars
<1>3. ASSUME NEW r \in RequestID, NEW extra \in RequestExtraInputs,
             SubmitRequestArrayExtra(caller, r, extra)
      PROVE  RequestsGoOn /\ OffersKept
  <2>1. requests[r].reqStage = "Pending" /\ ~requests[r].isDecided
    BY <1>3 DEF SubmitRequestArrayExtra, LifeInv
  <2>2. /\ requests'[r].isDecided = requests[r].isDecided
        /\ requests'[r].isDefined = requests[r].isDefined
        /\ requests'[r].requestMaker = requests[r].requestMaker
        /\ \A q \in RequestID \ {r} : requests'[q] = requests[q]
    BY <1>1, <1>3 DEF SubmitRequestArrayExtra, Request
  <2>3. RequestsGoOn
    BY <2>1, <2>2 DEF RequestsGoOn, LifeInv
  <2> QED BY <1>3, <2>3, OffersUnchanged DEF SubmitRequestArrayExtra, offerVars, escrowVars
<1>4. ASSUME NEW r \in RequestID, CloseRequest(caller, r) PROVE RequestsGoOn /\ OffersKept
  <2>1. requests' = [requests EXCEPT ![r] =
                       [requests[r] EXCEPT !.reqStage = "Closed", !.closingBlock = block]]
    BY <1>4 DEF CloseRequest
  <2>2. /\ requests'[r].reqStage = "Closed" /\ requests'[r].isDecided = requests[r].isDecided
        /\ requests'[r].isDefined = requests[r].isDefined
        /\ requests'[r].requestMaker = requests[r].requestMaker
        /\ \A q \in RequestID \ {r} : requests'[q] = requests[q]
    BY <1>1, <2>1 DEF Request
  <2>3. RequestsGoOn
    BY <2>2 DEF RequestsGoOn, LifeInv
  <2> QED BY <1>4, <2>3, OffersUnchanged DEF CloseRequest, offerVars, escrowVars
<1>5. ASSUME NEW r \in RequestID, NEW list \in OfferLists, DecideRequest(caller, r, list)
      PROVE  RequestsGoOn /\ OffersKept
  BY <1>5, DecidedGoOn, OffersUnchanged DEF DecideRequest, offerVars, escrowVars
<1>6. ASSUME NEW r \in RequestID, DeleteRequest(caller, r) PROVE RequestsGoOn /\ OffersKept
  <2>1. requests'[r] = NoRequest /\ \A q \in RequestID \ {r} : requests'[q] = requests[q]
    BY <1>1, <1>6 DEF DeleteRequest
  <2>2. RequestsGoOn
    BY <2>1 DEF RequestsGoOn, LifeInv, NoRequest
  <2>3. OffersKept
    BY <1>6, <2>1
    DEF DeleteRequest, OffersKept, NoRequest, escrowVars, StorageInv, TypeOK, OffersTypeOK
  <2> QED BY <2>2, <2>3
<1> QED BY <1>2, <1>3, <1>4, <1>5, <1>6 DEF RequestCall

LEMMA OfferCallGoesOn ==
  ASSUME StorageInv, LifeInv, NEW caller \in Account, OfferCall(caller)
  PROVE  RequestsGoOn /\ (OffersKept \/ \E o \in OfferID : CompletesOffer(o))
<1>1. ASSUME requests' = requests PROVE RequestsGoOn
  BY <1>1 DEF RequestsGoOn, LifeInv
<1>2. offers \in [OfferID -> Offer] /\ offNum \in Int
  BY DEF StorageInv, TypeOK, OffersTypeOK
<1>3. ASSUME NEW r \in RequestID, SubmitOffer(caller, r) PROVE RequestsGoOn /\ OffersKept
  <2>1. \A o \in OfferID \ {offNum} : offers'[o] = offers[o]
    BY <1>2, <1>3 DEF SubmitOffer
  <2>2. offers'[offNum].offStage = "Pending" /\ offNum >= offNum /\ offNum' >= offNum
    BY <1>2, <1>3 DEF SubmitOffer, NoOffer
  <2>3. UNCHANGED <<requests, offersExtra, openOffersPerRequest>>
    BY <1>3 DEF SubmitOffer, requestVars, escrowVars
  <2> QED BY <1>1, <2>1, <2>2, <2>3 DEF OffersKept
<1>4. ASSUME NEW o \in OfferID, NEW extra \in OfferExtraInputs, NEW paid \in Payments,
             SubmitOfferArrayExtra(caller, o, extra, paid)
      PROVE  RequestsGoOn /\ CompletesOffer(o)
  <2>1. CompletesOffer(o)
    BY <1>4 DEF CompletesOffer
  <2>2. offers[o].requestID \in RequestID
    BY <1>2 DEF Offer
  <2>3. requests' = requests
        \/ \E extras : DecideRequestInsecure(offers[o].requestID, <<o>>, extras)
    BY <1>4 DEF SubmitOfferArrayExtra
  <2> QED BY <1>1, <2>1, <2>2, <2>3, DecidedGoOn
<1>5. ASSUME NEW r \in RequestID, NEW o \in OfferID, SettleTrade(caller, r, o)
      PROVE  RequestsGoOn /\ OffersKept
  BY <1>1, <1>5, OffersUnchanged DEF SettleTrade, requestVars, offerVars, escrowVars
<1>6. ASSUME NEW o \in OfferID, Withdraw(caller, o) PROVE RequestsGoOn /\ OffersKept
  BY <1>1, <1>6, OffersUnchanged DEF Withdraw, requestVars, offerVars
<1> QED BY <1>3, <1>4, <1>5, <1>6 DEF OfferCall

LEMMA ReportGoesOn ==
  ASSUME StorageInv, LifeInv, NEW caller \in Account, NEW list \in OfferLists,
         InterledgerReceive(caller, list)
  PROVE  RequestsGoOn /\ OffersKept
<1> DEFINE r == offers[list[1]].requestID
<1>1. UNCHANGED <<requests, offNum, offers, offersExtra>>
      /\ openOffersPerRequest' = [openOffersPerRequest EXCEPT ![r] = {}]
  BY DEF InterledgerReceive, ResolveRequest, requestVars, offerVars
<1>2. openOffersPerRequest \in [RequestID -> SUBSET OfferID] /\ offNum \in Int
  BY DEF StorageInv, TypeOK, OffersTypeOK, EscrowTypeOK
<1> HIDE DEF r
<1>3. /\ \A q \in RequestID : openOffersPerRequest'[q] \subseteq openOffersPerRequest[q]
      /\ offNum >= offNum
  BY <1>1, <1>2
<1> QED BY <1>1, <1>3 DEF RequestsGoOn, OffersKept, LifeInv

LEMMA StepGoesOn ==
  ASSUME StorageInv, LifeInv, [Next]_vars
  PROVE  RequestsGoOn /\ (OffersKept \/ \E o \in OfferID : CompletesOffer(o))
<1>1. ASSUME UNCHANGED <<requestVars, offerVars, escrowVars>> PROVE RequestsGoOn /\ OffersKept
  BY <1>1, OffersUnchanged DEF requestVars, offerVars, escrowVars, RequestsGoOn, LifeInv
<1>2. ASSUME NEW caller \in Account, RoleCall(caller) PROVE RequestsGoOn /\ OffersKept
  BY <1>1, <1>2, ReportGoesOn DEF RoleCall, ResetAccessTokens, AddManager, RevokeManagerCert,
     ChangeOwner, TransferOwnership, RenounceOwnership, ChangeRoles
<1>3. CASE Tick \/ UNCHANGED vars
  BY <1>1, <1>3 DEF Tick, vars
<1> QED BY <1>2, <1>3, RequestCallGoesOn, OfferCallGoesOn DEF Next

\* An offer that is completed belongs to an open request, which may be decided at once.
LEMMA CompletedOffer ==
  ASSUME StorageInv, LifeInv, NEW o \in OfferID, CompletesOffer(o)
  PROVE  LET r == offers[o].requestID IN
         /\ r \in RequestID /\ requests[r].reqStage = "Open" /\ ~requests[r].isDecided
         /\ offers[o].isDefined /\ offers[o].offStage = "Pending" /\ offNum' = offNum
         /\ \A p \in OfferID : /\ offers'[p].isDefined = offers[p].isDefined
                               /\ offers'[p].requestID = offers[p].requestID
         /\ offers'[o].offStage = "Open"
         /\ \A p \in OfferID \ {o} : /\ offers'[p] = offers[p]
                                     /\ offersExtra'[p] = offersExtra[p]
                                     /\ pendingPayments'[p] = pendingPayments[p]
         /\ ~pendingPayments'[o].resolved
         /\ \A q \in RequestID \ {r} : openOffersPerRequest'[q] = openOffersPerRequest[q]
         /\ offersExtra'[o].offerType = InstantRent
              => requests'[r].reqStage = "Closed" /\ requests'[r].isDecided
<1> DEFINE r == offers[o].requestID
<1>1. PICK caller \in Account, extra \in OfferExtraInputs, paid \in Payments :
        SubmitOfferArrayExtra(caller, o, extra, paid)
  BY DEF CompletesOffer
<1> DEFINE offerExtra == OfferExtraFromRawArray(extra, paid)
<1>2. /\ offers \in [OfferID -> Offer] /\ DOMAIN offersExtra = OfferID
      /\ requests \in [RequestID -> Request]
      /\ pendingPayments \in [OfferID -> Payment]
      /\ DOMAIN openOffersPerRequest = RequestID
  BY DEF StorageInv, TypeOK, RequestsTypeOK, OffersTypeOK, EscrowTypeOK
<1>3. r \in RequestID
  BY <1>2 DEF Offer
<1>4. offers[o].isDefined /\ offers[o].offStage = "Pending" /\ requests[r].reqStage = "Open"
  BY <1>1 DEF SubmitOfferArrayExtra
<1>5. ~requests[r].isDecided
  BY <1>3, <1>4 DEF LifeInv
<1>6. /\ offers' = [offers EXCEPT ![o] = [offers[o] EXCEPT !.offStage = "Open"]]
      /\ offersExtra' = [offersExtra EXCEPT ![o] = offerExtra] /\ offNum' = offNum
      /\ openOffersPerRequest' = [openOffersPerRequest EXCEPT ![r] = openOffersPerRequest[r] \cup {o}]
      /\ pendingPayments' = [pendingPayments EXCEPT ![o] =
            [created |-> TRUE, resolved |-> FALSE, toReturn |-> TRUE, amount |-> paid]]
  BY <1>1 DEF SubmitOfferArrayExtra, RegisterPendingPayment
<1>7. offerExtra.offerType = InstantRent =>
        requests'[r].reqStage = "Closed" /\ requests'[r].isDecided
  <2> SUFFICES ASSUME offerExtra.offerType = InstantRent
               PROVE  requests'[r].reqStage = "Closed" /\ requests'[r].isDecided
    OBVIOUS
  <2>1. PICK extras : DecideRequestInsecure(r, <<o>>, extras)
    BY <1>1 DEF SubmitOfferArrayExtra, Auction, InstantRent
  <2>2. requests' = [requests EXCEPT ![r] =
                       [requests[r] EXCEPT !.reqStage = "Closed", !.closingBlock = block,
                                           !.isDecided = TRUE, !.acceptedOfferIDs = <<o>>]]
    BY <2>1 DEF DecideRequestInsecure
  <2> QED BY <1>2, <1>3, <2>2 DEF Request
<1> HIDE DEF offerExtra
<1>8. /\ \A p \in OfferID : /\ offers'[p].isDefined = offers[p].isDefined
                            /\ offers'[p].requestID = offers[p].requestID
      /\ offers'[o].offStage = "Open"
      /\ \A p \in OfferID \ {o} : offers'[p] = offers[p]
  BY <1>2, <1>6 DEF Offer
<1>9. /\ \A p \in OfferID \ {o} : /\ offersExtra'[p] = offersExtra[p]
                                  /\ pendingPayments'[p] = pendingPayments[p]
      /\ ~pendingPayments'[o].resolved
      /\ offersExtra'[o] = offerExtra
      /\ \A q \in RequestID \ {r} : openOffersPerRequest'[q] = openOffersPerRequest[q]
  BY <1>2, <1>6
<1> QED BY <1>3, <1>4, <1>5, <1>6, <1>7, <1>8, <1>9

\* Offers that are there were there, with the same request, unless just made.
LEMMA KeptOffers ==
  ASSUME StorageInv, OffersKept, NEW o \in OfferID, offers'[o].isDefined, o < offNum
  PROVE  offers'[o] = offers[o]
<1>1. o \in Int /\ offNum \in Int
  BY MarketplaceAssumption DEF StorageInv, TypeOK, OffersTypeOK, OfferID
<1> QED BY <1>1 DEF OffersKept, NoOffer

LEMMA PaidOffersAreGiven ==
  ASSUME IInv, NEW o \in OfferID, pendingPayments[o].created
  PROVE  o < offNum
<1>1. o \in Int /\ offNum \in Int
  BY MarketplaceAssumption DEF IInv, StorageInv, TypeOK, OffersTypeOK, OfferID
<1> QED BY <1>1 DEF IInv, MoneyInv, PaymentsInv

\* What is resolved stays so while it is not withdrawn; who waits was not resolved.
ResolvedInv == LifeInv /\ RequestResolvedAsAWhole

LEMMA PaymentsUntouched ==
  ASSUME IInv, IInv', VerdictsInv, ResolvedInv, RequestsGoOn, OffersKept,
         \A o \in OfferID : pendingPayments'[o] = pendingPayments[o]
                            \/ (~pendingPayments'[o].created /\ ~pendingPayments'[o].resolved)
  PROVE  ResolvedInv'
<1>1. \A o \in OfferID : (offers'[o].isDefined /\ pendingPayments'[o].created) =>
        offers'[o] = offers[o] /\ pendingPayments'[o] = pendingPayments[o]
  BY KeptOffers, PaidOffersAreGiven DEF IInv
<1>2. \A o \in OfferID : pendingPayments[o].resolved => pendingPayments[o].created
  BY DEF VerdictsInv
<1>3. RequestResolvedAsAWhole'
  BY <1>1 DEF ResolvedInv, RequestResolvedAsAWhole
<1>4. ASSUME NEW o \in OfferID, offers'[o].isDefined, pendingPayments'[o].resolved
      PROVE  requests'[offers'[o].requestID].isDecided
  <2>1. offers'[o] = offers[o] /\ pendingPayments'[o] = pendingPayments[o]
    BY <1>1, <1>2, <1>4
  <2>2. requests[offers[o].requestID].isDecided
    BY <1>4, <2>1 DEF ResolvedInv, LifeInv
  <2>3. offers[o].requestID \in RequestID /\ requests'[offers'[o].requestID].isDefined
    BY <1>4 DEF IInv, StorageInv, OffersInv, TypeOK, OffersTypeOK, Offer
  <2> QED BY <2>1, <2>2, <2>3 DEF RequestsGoOn
<1>5. LifeInv'
  BY <1>4 DEF LifeInv, RequestsGoOn
<1> QED BY <1>3, <1>5 DEF ResolvedInv

LEMMA ReportResolves ==
  ASSUME IInv, IInv', VerdictsInv, ResolvedInv, NEW caller \in Account, NEW list \in OfferLists,
         InterledgerReceive(caller, list)
  PROVE  ResolvedInv'
<1> DEFINE r == offers[list[1]].requestID
           open == openOffersPerRequest[r]
<1>1. /\ ResolveRequest(r, Elements(list)) /\ UNCHANGED <<requests, offers>>
      /\ list # << >> /\ requests[r].isDecided
  BY DEF InterledgerReceive, requestVars, offerVars
<1>2. pendingPayments \in [OfferID -> Payment] /\ offers \in [OfferID -> Offer]
  BY DEF IInv, StorageInv, TypeOK, OffersTypeOK, EscrowTypeOK
<1>3. r \in RequestID
  <2>1. list \in Seq(OfferID)
    BY MarketplaceAssumption
  <2>2. list[1] \in OfferID
    BY <1>1, <2>1
  <2> QED BY <1>2, <2>2 DEF Offer
<1> HIDE DEF r
<1>4. \A o \in OfferID :
        /\ o \notin open => pendingPayments'[o] = pendingPayments[o]
        /\ o \in open => /\ pendingPayments'[o].created = pendingPayments[o].created
                         /\ pendingPayments'[o].resolved
  BY <1>1, <1>2 DEF ResolveRequest, Payment
<1>5. \A o \in OfferID : o \in open => pendingPayments[o].created /\ ~pendingPayments[o].resolved
                                      /\ (offers[o].isDefined => offers[o].requestID = r)
  BY <1>3 DEF IInv, MoneyInv, UnresolvedOffersWait, WaitsIn, Unresolved
<1>6. \A o \in OfferID :
        (offers[o].isDefined /\ pendingPayments'[o].created) =>
          pendingPayments'[o].resolved
            = (offers[o].requestID = r \/ pendingPayments[o].resolved)
  <2> SUFFICES ASSUME NEW o \in OfferID, offers[o].isDefined, pendingPayments'[o].created
               PROVE  pendingPayments'[o].resolved
                        = (offers[o].requestID = r \/ pendingPayments[o].resolved)
    OBVIOUS
  <2>1. CASE o \in open
    BY <1>2, <1>4, <1>5, <2>1 DEF Payment
  <2>2. CASE o \notin open
    <3>1. pendingPayments'[o] = pendingPayments[o]
      BY <1>4, <2>2
    <3>2. offers[o].requestID = r => pendingPayments[o].resolved
      BY <1>3, <2>2, <3>1 DEF IInv, MoneyInv, UnresolvedOffersWait, WaitsIn, Unresolved
    <3> QED BY <1>2, <3>1, <3>2 DEF Payment
  <2> QED BY <2>1, <2>2
<1> HIDE DEF open
<1>7. RequestResolvedAsAWhole'
  BY <1>1, <1>4, <1>6 DEF ResolvedInv, RequestResolvedAsAWhole
<1>8. \A o \in OfferID : (offers[o].isDefined /\ pendingPayments'[o].resolved)
                           => requests[offers[o].requestID].isDecided
  BY <1>1, <1>4, <1>5 DEF ResolvedInv, LifeInv
<1> QED BY <1>1, <1>7, <1>8 DEF ResolvedInv, LifeInv

LEMMA CompletionResolvesNothing ==
  ASSUME IInv, IInv', VerdictsInv, ResolvedInv, RequestsGoOn, NEW o \in OfferID, CompletesOffer(o)
  PROVE  ResolvedInv'
<1> DEFINE r == offers[o].requestID
<1>1. /\ r \in RequestID /\ ~requests[r].isDecided
      /\ offers[o].isDefined
      /\ \A p \in OfferID : /\ offers'[p].isDefined = offers[p].isDefined
                            /\ offers'[p].requestID = offers[p].requestID
      /\ \A p \in OfferID \ {o} : pendingPayments'[p] = pendingPayments[p]
      /\ ~pendingPayments'[o].resolved
  BY CompletedOffer DEF IInv, ResolvedInv
<1> HIDE DEF r
<1>2. \A p \in OfferID : (offers[p].isDefined /\ offers[p].requestID = r)
                           => pendingPayments'[p].resolved = FALSE
  <2> SUFFICES ASSUME NEW p \in OfferID, offers[p].isDefined, offers[p].requestID = r
               PROVE  ~pendingPayments'[p].resolved /\ pendingPayments'[p].resolved \in BOOLEAN
    OBVIOUS
  <2>1. pendingPayments'[p].resolved \in BOOLEAN
    BY DEF IInv, StorageInv, TypeOK, EscrowTypeOK, Payment
  <2>2. CASE p = o
    BY <1>1, <2>1, <2>2
  <2>3. CASE p # o
    BY <1>1, <2>1, <2>3 DEF ResolvedInv, LifeInv
  <2> QED BY <2>2, <2>3
<1>3. \A p \in OfferID : offers[p].requestID # r => p # o
  BY DEF r
<1>4. RequestResolvedAsAWhole'
  <2> SUFFICES ASSUME NEW p \in OfferID, NEW q \in OfferID,
                      offers'[p].isDefined, offers'[q].isDefined,
                      offers'[p].requestID = offers'[q].requestID,
                      pendingPayments'[p].created, pendingPayments'[q].created
               PROVE  pendingPayments'[p].resolved = pendingPayments'[q].resolved
    BY DEF RequestResolvedAsAWhole
  <2>1. /\ offers[p].isDefined /\ offers[q].isDefined
        /\ offers[p].requestID = offers[q].requestID
    BY <1>1
  <2>2. CASE offers[p].requestID = r
    BY <1>2, <2>1, <2>2
  <2>3. CASE offers[p].requestID # r
    <3>1. pendingPayments'[p] = pendingPayments[p] /\ pendingPayments'[q] = pendingPayments[q]
      BY <1>1, <1>3, <2>1, <2>3
    <3>2. pendingPayments[p].resolved = pendingPayments[q].resolved
      BY <2>1, <3>1 DEF ResolvedInv, RequestResolvedAsAWhole
    <3> QED BY <3>1, <3>2
  <2> QED BY <2>2, <2>3
<1>5. ASSUME NEW p \in OfferID, offers'[p].isDefined, pendingPayments'[p].resolved
      PROVE  requests'[offers'[p].requestID].isDecided
  <2>1. p # o /\ pendingPayments[p].resolved /\ offers[p].isDefined
        /\ offers'[p].requestID = offers[p].requestID
    BY <1>1, <1>5
  <2>2. requests[offers[p].requestID].isDecided
    BY <2>1 DEF ResolvedInv, LifeInv
  <2>3. offers[p].requestID \in RequestID /\ requests'[offers'[p].requestID].isDefined
    BY <1>5 DEF IInv, StorageInv, OffersInv, TypeOK, OffersTypeOK, Offer
  <2> QED BY <2>1, <2>2, <2>3 DEF RequestsGoOn
<1> QED BY <1>4, <1>5 DEF ResolvedInv, LifeInv, RequestsGoOn

LEMMA NextResolved ==
  ASSUME IInv, VerdictsInv, ResolvedInv, [Next]_vars
  PROVE  ResolvedInv'
<1>1. IInv' /\ RequestsGoOn /\ (OffersKept \/ \E o \in OfferID : CompletesOffer(o))
  BY NextIInv, StepGoesOn DEF IInv, ResolvedInv
<1>2. ASSUME NEW o \in OfferID, CompletesOffer(o) PROVE ResolvedInv'
  BY <1>1, <1>2, CompletionResolvesNothing
<1>3. CASE OffersKept /\ UNCHANGED escrowVars
  <2>1. \A o \in OfferID : pendingPayments'[o] = pendingPayments[o]
    BY <1>3 DEF escrowVars
  <2> QED BY <1>1, <1>3, <2>1, PaymentsUntouched
<1>4. ASSUME OffersKept, NEW caller \in Account, MoneyCall(caller) PROVE ResolvedInv'
  <2>1. ASSUME NEW o \in OfferID, Withdraw(caller, o) PROVE ResolvedInv'
    <3>1. \A p \in OfferID : pendingPayments'[p] \in {pendingPayments[p], NoPayment}
      BY <2>1 DEF Withdraw, IInv, StorageInv, TypeOK, EscrowTypeOK
    <3> QED BY <1>1, <1>4, <3>1, PaymentsUntouched DEF NoPayment
  <2> QED BY <1>1, <1>2, <1>4, <2>1, ReportResolves DEF MoneyCall, CompletesOffer
<1> QED BY <1>1, <1>2, <1>3, <1>4, MoneyCalls

LEMMA InitResolved == Init => ResolvedInv
BY ZeroesType DEF Init, ResolvedInv, LifeInv, RequestResolvedAsAWhole, NoRequest

-----------------------------------------------------------------------------
(***************************************************************************)
(* Instant rents and the end of bidding.                                   *)
(***************************************************************************)
LEMMA NextInstantRent ==
  ASSUME IInv, IInv', LifeInv, InstantRentIsExclusive, RequestsGoOn,
         OffersKept \/ \E o \in OfferID : CompletesOffer(o)
  PROVE  InstantRentIsExclusive'
<1>1. /\ \A o \in OfferID : ~offers[o].isDefined => offers[o] = NoOffer
      /\ \A o \in OfferID : offers'[o].isDefined => requests'[offers'[o].requestID].isDefined
      /\ \A o \in OfferID : ~offers'[o].isDefined => offers'[o] = NoOffer
      /\ \A o \in OfferID : offers[o].requestID \in RequestID
  BY DEF IInv, StorageInv, OffersInv, TypeOK, OffersTypeOK, Offer
<1>2. CASE OffersKept
  <2>1. \A o \in OfferID : (OpenInstantRent(o))' =>
          OpenInstantRent(o) /\ offers'[o] = offers[o] /\ offers'[o].isDefined
    BY <1>1, <1>2 DEF OffersKept, OpenInstantRent, NoOffer
  <2> QED BY <1>1, <2>1 DEF InstantRentIsExclusive, RequestsGoOn
<1>3. ASSUME NEW o \in OfferID, CompletesOffer(o) PROVE InstantRentIsExclusive'
  <2> DEFINE r == offers[o].requestID
  <2>1. /\ r \in RequestID /\ requests[r].reqStage = "Open"
        /\ offers'[o].requestID = r
        /\ \A p \in OfferID \ {o} : offers'[p] = offers[p] /\ offersExtra'[p] = offersExtra[p]
        /\ offersExtra'[o].offerType = InstantRent
              => requests'[r].reqStage = "Closed" /\ requests'[r].isDecided
    BY <1>3, CompletedOffer DEF IInv
  <2> HIDE DEF r
  <2>2. \A p \in OfferID \ {o} : (OpenInstantRent(p))' =>
          OpenInstantRent(p) /\ offers'[p] = offers[p] /\ offers[p].requestID # r
    BY <2>1 DEF OpenInstantRent, InstantRentIsExclusive
  <2>3. ASSUME NEW p \in OfferID, (OpenInstantRent(p))'
        PROVE  /\ requests'[offers'[p].requestID].reqStage = "Closed"
               /\ requests'[offers'[p].requestID].isDecided
    <3>1. CASE p = o
      BY <2>1, <2>3, <3>1 DEF OpenInstantRent
    <3>2. CASE p # o
      <4>1. OpenInstantRent(p) /\ offers'[p] = offers[p]
        BY <2>2, <2>3, <3>2
      <4>2. offers'[p].isDefined
        BY <1>1, <2>3 DEF OpenInstantRent, NoOffer
      <4> QED BY <1>1, <4>1, <4>2 DEF InstantRentIsExclusive, RequestsGoOn
    <3> QED BY <3>1, <3>2
  <2>4. ASSUME NEW p \in OfferID, NEW q \in OfferID, (OpenInstantRent(p))', (OpenInstantRent(q))',
               offers'[q].requestID = offers'[p].requestID
        PROVE  q = p
    <3>1. CASE p = o \/ q = o
      BY <2>1, <2>2, <2>4, <3>1
    <3>2. CASE p # o /\ q # o
      BY <2>2, <2>4, <3>2 DEF InstantRentIsExclusive
    <3> QED BY <3>1, <3>2
  <2> QED BY <2>3, <2>4 DEF InstantRentIsExclusive
<1> QED BY <1>2, <1>3

\* What BiddingEnds says of a step.
BiddingIsOver ==
  \A r \in RequestID : requests[r].reqStage = "Closed" =>
    /\ requests'[r].reqStage = "Closed" \/ ~requests'[r].isDefined
    /\ openOffersPerRequest'[r] \subseteq openOffersPerRequest[r]

LEMMA StepEndsBidding ==
  ASSUME StorageInv, LifeInv, [Next]_vars
  PROVE  BiddingIsOver
<1>1. RequestsGoOn /\ (OffersKept \/ \E o \in OfferID : CompletesOffer(o))
  BY StepGoesOn
<1>2. ASSUME NEW r \in RequestID, requests[r].reqStage = "Closed"
      PROVE  openOffersPerRequest'[r] \subseteq openOffersPerRequest[r]
  <2>1. ASSUME NEW o \in OfferID, CompletesOffer(o)
        PROVE  openOffersPerRequest'[r] = openOffersPerRequest[r]
    <3>1. /\ requests[offers[o].requestID].reqStage = "Open"
          /\ \A q \in RequestID \ {offers[o].requestID} :
               openOffersPerRequest'[q] = openOffersPerRequest[q]
      BY <2>1, CompletedOffer
    <3> QED BY <1>2, <3>1
  <2> QED BY <1>1, <2>1 DEF OffersKept
<1> QED BY <1>1, <1>2 DEF BiddingIsOver, RequestsGoOn

-----------------------------------------------------------------------------
(***************************************************************************)
(* What decisions name.                                                    *)
(***************************************************************************)
NamesOpenOffers(payload) ==
  \A i \in DOMAIN payload :
    LET o == payload[i].offerID IN
    /\ o \in OfferID /\ o < offNum
    /\ offers[o].isDefined => offers[o].offStage = "Open"

CarriesKeys(payload) ==
  \A i \in DOMAIN payload :
    LET extra == offersExtra[payload[i].offerID] IN
    /\ extra # NoExtra
    /\ payload[i].offerCreatorEncryptionKey = extra.offerCreatorEncryptionKey
    /\ payload[i].offerCreatorAuthenticationKey = extra.offerCreatorAuthenticationKey

NamesOneRequest(payload) ==
  \A i, j \in DOMAIN payload :
    offers[payload[i].offerID].requestID = offers[payload[j].offerID].requestID

ProperPayload(payload) ==
  NamesOpenOffers(payload) /\ CarriesKeys(payload) /\ NamesOneRequest(payload)

PayloadInv == \A n \in DOMAIN interledgerEvents : ProperPayload(interledgerEvents[n])

\* A new event names open offers of one request, with the keys they have now.
NewEvent(list, r) ==
  /\ interledgerEvents' = Append(interledgerEvents, RequestDecisionPayload(list, offersExtra'))
  /\ \A i \in DOMAIN list :
       /\ list[i] \in OfferID /\ offers[list[i]].isDefined
       /\ offers'[list[i]].offStage = "Open" /\ offers'[list[i]].requestID = r

LEMMA EventsGoOn ==
  ASSUME StorageInv, LifeInv, [Next]_vars
  PROVE  \/ interledgerEvents' = interledgerEvents
         \/ \E list \in Seq(OfferID), r \in RequestID : NewEvent(list, r)
<1> DEFINE Goal == \/ interledgerEvents' = interledgerEvents
                   \/ \E list \in Seq(OfferID), r \in RequestID : NewEvent(list, r)
<1>1. ASSUME NEW caller \in Account, NEW r \in RequestID, NEW list \in OfferLists,
             DecideRequest(caller, r, list)
      PROVE  Goal
  <2>1. list \in Seq(OfferID) /\ UNCHANGED <<offers, offersExtra>>
    BY <1>1, MarketplaceAssumption DEF DecideRequest, offerVars
  <2>2. interledgerEvents' = Append(interledgerEvents, RequestDecisionPayload(list, offersExtra'))
    BY <1>1, <2>1 DEF DecideRequest, DecideRequestInsecure
  <2>3. \A i \in DOMAIN list : /\ list[i] \in OfferID
                               /\ offers[list[i]].requestID = r
                               /\ offers[list[i]].offStage = "Open"
    BY <1>1, <2>1 DEF DecideRequest, AcceptedOffersListIsProper
  <2>4. \A i \in DOMAIN list : offers[list[i]].isDefined
    BY <2>3, ZeroesType DEF StorageInv, OffersInv
  <2>5. NewEvent(list, r)
    BY <2>1, <2>2, <2>3, <2>4 DEF NewEvent
  <2> QED BY <2>1, <2>5
<1>2. ASSUME NEW caller \in Account, NEW o \in OfferID, NEW extra \in OfferExtraInputs,
             NEW paid \in Payments, SubmitOfferArrayExtra(caller, o, extra, paid)
      PROVE  Goal
  <2>1. CompletesOffer(o)
    BY <1>2 DEF CompletesOffer
  <2>2. /\ offers[o].requestID \in RequestID /\ offers[o].isDefined
        /\ offers'[o].requestID = offers[o].requestID /\ offers'[o].offStage = "Open"
    BY <2>1, CompletedOffer
  <2>3. \/ interledgerEvents' = interledgerEvents
        \/ interledgerEvents' = Append(interledgerEvents, RequestDecisionPayload(<<o>>, offersExtra'))
    BY <1>2 DEF SubmitOfferArrayExtra, DecideRequestInsecure
  <2>4. <<o>> \in Seq(OfferID) /\ DOMAIN <<o>> = {1} /\ <<o>>[1] = o
    OBVIOUS
  <2>5. ASSUME interledgerEvents' # interledgerEvents PROVE NewEvent(<<o>>, offers[o].requestID)
    <3>1. \A i \in DOMAIN <<o>> :
            /\ <<o>>[i] \in OfferID /\ offers[<<o>>[i]].isDefined
            /\ offers'[<<o>>[i]].offStage = "Open"
            /\ offers'[<<o>>[i]].requestID = offers[o].requestID
      BY <2>2, <2>4
    <3> QED BY <2>3, <2>5, <3>1 DEF NewEvent
  <2> QED BY <2>2, <2>4, <2>5
<1>3. ASSUME NEW caller \in Account, RequestCall(caller) PROVE Goal
  BY <1>1, <1>3 DEF RequestCall, SubmitAuthorisedRequest, SubmitRequestArrayExtra, CloseRequest,
     DeleteRequest
<1>4. ASSUME NEW caller \in Account, OfferCall(caller) PROVE Goal
  BY <1>2, <1>4 DEF OfferCall, SubmitOffer, SettleTrade, Withdraw
<1>5. ASSUME NEW caller \in Account, RoleCall(caller) PROVE Goal
  BY <1>5 DEF RoleCall, InterledgerReceive, ResetAccessTokens, AddManager, RevokeManagerCert,
     ChangeOwner, TransferOwnership, RenounceOwnership, ChangeRoles
<1>6. CASE Tick \/ UNCHANGED vars
  BY <1>6 DEF Tick, vars
<1> QED BY <1>3, <1>4, <1>5, <1>6 DEF Next

\* The offers that were named stay open, with their keys, or are deleted together.
LEMMA NamedOffersStay ==
  ASSUME StorageInv, LifeInv, OffersKept \/ \E o \in OfferID : CompletesOffer(o),
         NEW p \in OfferID, p < offNum, offers[p].isDefined => offers[p].offStage = "Open"
  PROVE  /\ offersExtra'[p] = offersExtra[p]
         /\ \/ offers'[p] = offers[p]
            \/ offers'[p] = NoOffer /\ ~requests'[offers[p].requestID].isDefined
<1>1. p \in Int /\ offNum \in Int
  BY MarketplaceAssumption DEF StorageInv, TypeOK, OffersTypeOK, OfferID
<1>2. ASSUME NEW o \in OfferID, CompletesOffer(o)
      PROVE  offers'[p] = offers[p] /\ offersExtra'[p] = offersExtra[p]
  <2>1. /\ offers[o].isDefined /\ offers[o].offStage = "Pending"
        /\ \A q \in OfferID \ {o} : offers'[q] = offers[q] /\ offersExtra'[q] = offersExtra[q]
    BY <1>2, CompletedOffer
  <2> QED BY <2>1
<1> QED BY <1>1, <1>2 DEF OffersKept

LEMMA PayloadStays ==
  ASSUME StorageInv, StorageInv', LifeInv, offNum' >= offNum,
         OffersKept \/ \E o \in OfferID : CompletesOffer(o),
         NEW payload, ProperPayload(payload)
  PROVE  (ProperPayload(payload))'
<1>1. /\ offNum \in Int /\ offNum' \in Int /\ OfferID \subseteq Int
      /\ \A o \in OfferID : ~offers'[o].isDefined => offers'[o] = NoOffer
      /\ \A o \in OfferID : offers'[o].isDefined => requests'[offers'[o].requestID].isDefined
  BY MarketplaceAssumption DEF StorageInv, OffersInv, TypeOK, OffersTypeOK, OfferID
<1>2. \A i \in DOMAIN payload : LET o == payload[i].offerID IN
        /\ o \in OfferID /\ o < offNum /\ offersExtra'[o] = offersExtra[o]
        /\ \/ offers'[o] = offers[o]
           \/ offers'[o] = NoOffer /\ ~requests'[offers[o].requestID].isDefined
  BY NamedOffersStay DEF ProperPayload, NamesOpenOffers
<1>3. (NamesOpenOffers(payload))'
  <2> SUFFICES ASSUME NEW i \in DOMAIN payload
               PROVE  LET o == payload[i].offerID IN
                      /\ o \in OfferID /\ o < offNum'
                      /\ offers'[o].isDefined => offers'[o].offStage = "Open"
    BY DEF NamesOpenOffers
  <2>1. PICK o \in OfferID : o = payload[i].offerID
    BY <1>2
  <2>2. o < offNum /\ (offers[o].isDefined => offers[o].offStage = "Open")
    BY <2>1 DEF ProperPayload, NamesOpenOffers
  <2>3. offers'[o] = offers[o] \/ offers'[o] = NoOffer
    BY <1>2, <2>1
  <2>4. o < offNum'
    BY <1>1, <2>2
  <2>5. ~NoOffer.isDefined
    BY ZeroesType
  <2> QED BY <2>1, <2>2, <2>3, <2>4, <2>5
<1>4. (CarriesKeys(payload))'
  BY <1>2 DEF ProperPayload, CarriesKeys
<1>5. (NamesOneRequest(payload))'
  <2> SUFFICES ASSUME NEW i \in DOMAIN payload, NEW j \in DOMAIN payload
               PROVE  offers'[payload[i].offerID].requestID = offers'[payload[j].offerID].requestID
    BY DEF NamesOneRequest
  <2> DEFINE o == payload[i].offerID
             p == payload[j].offerID
  <2>1. offers[o].requestID = offers[p].requestID
    BY DEF ProperPayload, NamesOneRequest
  <2>2. CASE offers'[o] = offers[o] /\ offers'[p] = offers[p]
    BY <2>1, <2>2
  <2>3. CASE offers'[o] = NoOffer /\ offers'[p] = NoOffer
    BY <2>3
  <2>4. ASSUME NEW x \in OfferID, NEW y \in OfferID, offers[x].requestID = offers[y].requestID,
               offers'[x] = offers[x], offers'[y] = NoOffer,
               ~requests'[offers[y].requestID].isDefined
        PROVE  offers'[x] = offers'[y]
    <3>1. ~offers'[x].isDefined
      BY <1>1, <2>4
    <3> QED BY <1>1, <2>4, <3>1
  <2> QED BY <1>2, <2>1, <2>2, <2>3, <2>4
<1> QED BY <1>3, <1>4, <1>5 DEF ProperPayload

LEMMA ExtraIsThere == \A extra \in OfferExtra : extra # NoExtra
BY DEF OfferExtra, NoExtra

LEMMA NewPayload ==
  ASSUME StorageInv, StorageInv', offNum' >= offNum, NEW list \in Seq(OfferID), NEW r,
         NewEvent(list, r)
  PROVE  (ProperPayload(RequestDecisionPayload(list, offersExtra)))'
<1>1. \A i \in DOMAIN list : LET o == list[i] IN
        /\ o \in OfferID /\ o < offNum'
        /\ offersExtra'[o] \in OfferExtra
        /\ offers'[o].offStage = "Open" /\ offers'[o].requestID = r
  <2> SUFFICES ASSUME NEW i \in DOMAIN list
               PROVE  LET o == list[i] IN
                      /\ o \in OfferID /\ o < offNum'
                      /\ offersExtra'[o] \in OfferExtra
                      /\ offers'[o].offStage = "Open" /\ offers'[o].requestID = r
    OBVIOUS
  <2>1. PICK o \in OfferID : o = list[i]
    BY DEF NewEvent
  <2>2. /\ offers[o].isDefined
        /\ offers'[o].offStage = "Open" /\ offers'[o].requestID = r
    BY <2>1 DEF NewEvent
  <2>3. o \in Int /\ offNum \in Int /\ offNum' \in Int
    BY MarketplaceAssumption DEF StorageInv, TypeOK, OffersTypeOK, OfferID
  <2>4. o < offNum'
    BY <2>2, <2>3, ZeroesType DEF StorageInv, OffersInv
  <2>5. offersExtra'[o] \in OfferExtra
    BY <2>2 DEF StorageInv, OffersInv
  <2> QED BY <2>1, <2>2, <2>4, <2>5
<1> DEFINE payload == RequestDecisionPayload(list, offersExtra')
<1>2. /\ DOMAIN payload = DOMAIN list
      /\ \A i \in DOMAIN list :
           /\ payload[i].offerID = list[i]
           /\ payload[i].offerCreatorEncryptionKey
                = offersExtra'[list[i]].offerCreatorEncryptionKey
           /\ payload[i].offerCreatorAuthenticationKey
                = offersExtra'[list[i]].offerCreatorAuthenticationKey
  BY DEF RequestDecisionPayload
<1>3. PICK P : P = payload
  OBVIOUS
<1> HIDE DEF payload
<1>4. (NamesOpenOffers(P))'
  BY <1>1, <1>2, <1>3 DEF NamesOpenOffers
<1>5. (CarriesKeys(P))'
  BY <1>1, <1>2, <1>3, ExtraIsThere DEF CarriesKeys
<1>6. (NamesOneRequest(P))'
  BY <1>1, <1>2, <1>3 DEF NamesOneRequest
<1>7. (ProperPayload(P))'
  BY <1>4, <1>5, <1>6 DEF ProperPayload
<1> QED BY <1>3, <1>7 DEF payload

LEMMA OffersAreGivenInOrder ==
  ASSUME StorageInv, LifeInv, OffersKept \/ \E o \in OfferID : CompletesOffer(o)
  PROVE  offNum' >= offNum
<1>1. ASSUME NEW o \in OfferID, CompletesOffer(o) PROVE offNum' = offNum
  BY <1>1, CompletedOffer
<1> QED BY <1>1 DEF OffersKept, StorageInv, TypeOK, OffersTypeOK

LEMMA NextPayloadInv ==
  ASSUME StorageInv, StorageInv', LifeInv, PayloadInv, [Next]_vars
  PROVE  PayloadInv'
<1>1. /\ OffersKept \/ \E o \in OfferID : CompletesOffer(o)
      /\ offNum' >= offNum
  BY StepGoesOn, OffersAreGivenInOrder
<1>2. \A n \in DOMAIN interledgerEvents : (ProperPayload(interledgerEvents[n]))'
        \/ interledgerEvents'[n] # interledgerEvents[n]
  <2> SUFFICES ASSUME NEW n \in DOMAIN interledgerEvents,
                      interledgerEvents'[n] = interledgerEvents[n]
               PROVE  (ProperPayload(interledgerEvents[n]))'
    OBVIOUS
  <2>1. PICK payload : payload = interledgerEvents[n]
    OBVIOUS
  <2>2. (ProperPayload(payload))'
    BY <1>1, <2>1, PayloadStays DEF PayloadInv
  <2> QED BY <2>1, <2>2
<1>3. CASE interledgerEvents' = interledgerEvents
  BY <1>2, <1>3 DEF PayloadInv
<1>4. ASSUME NEW list \in Seq(OfferID), NEW r \in RequestID, NewEvent(list, r) PROVE PayloadInv'
  <2>1. (ProperPayload(RequestDecisionPayload(list, offersExtra)))'
    BY <1>1, <1>4, NewPayload
  <2>2. interledgerEvents \in Seq(Seq(PayloadElement))
    BY DEF StorageInv, TypeOK
  <2>3. /\ DOMAIN interledgerEvents' = DOMAIN interledgerEvents \cup {Len(interledgerEvents) + 1}
        /\ \A n \in DOMAIN interledgerEvents : interledgerEvents'[n] = interledgerEvents[n]
        /\ interledgerEvents'[Len(interledgerEvents) + 1]
             = RequestDecisionPayload(list, offersExtra')
    BY <1>4, <2>2 DEF NewEvent
  <2>4. ASSUME NEW n \in DOMAIN interledgerEvents' PROVE (ProperPayload(interledgerEvents[n]))'
    <3>1. CASE n \in DOMAIN interledgerEvents
      BY <1>2, <2>3, <3>1
    <3>2. CASE n = Len(interledgerEvents) + 1
      BY <2>1, <2>3, <3>2
    <3> QED BY <2>3, <3>1, <3>2
  <2> QED BY <2>4 DEF PayloadInv
<1> QED BY <1>3, <1>4, EventsGoOn

-----------------------------------------------------------------------------
(***************************************************************************)
(* What access tokens buy.                                                 *)
(***************************************************************************)
TokensInv ==
  /\ \A r \in RequestID : requestToken[r] # NoToken => requestToken[r] \in usedTokens
  /\ TokenBuysOneRequest

LEMMA NextTokensInv ==
  ASSUME StorageInv, LifeInv, TokensInv, [Next]_vars
  PROVE  TokensInv'
<1>1. /\ requestToken \in [RequestID -> Token \cup {NoToken}] /\ reqNum \in Int
      /\ requests \in [RequestID -> Request]
  BY DEF StorageInv, TypeOK, RolesTypeOK, RequestsTypeOK
<1>2. RequestsGoOn
  BY StepGoesOn
<1>3. ASSUME UNCHANGED <<usedTokens, requestToken, reqNum>> PROVE TokensInv'
  <2>1. \A r \in RequestID : requests'[r].isDefined =>
          requests[r].isDefined /\ requests'[r].requestMaker = requests[r].requestMaker
    BY <1>1, <1>2, <1>3 DEF RequestsGoOn
  <2> QED BY <1>3, <2>1 DEF TokensInv, TokenBuysOneRequest
<1>4. ASSUME NEW caller \in Account, NEW token \in Token, NEW signer \in Account,
             NEW deadline \in Deadlines, SubmitAuthorisedRequest(caller, token, signer, deadline)
      PROVE  TokensInv'
  <2>1. /\ reqNum \in RequestID /\ token \notin usedTokens /\ token.subject = caller
        /\ usedTokens' = usedTokens \cup {token}
        /\ requestToken'[reqNum] = token /\ requests'[reqNum].requestMaker = caller
        /\ \A r \in RequestID \ {reqNum} : requestToken'[r] = requestToken[r]
                                           /\ requests'[r] = requests[r]
    BY <1>1, <1>4 DEF SubmitAuthorisedRequest, NoRequest
  <2> QED BY <2>1 DEF TokensInv, TokenBuysOneRequest
<1>5. ASSUME NEW caller \in Account, ResetAccessTokens(caller) PROVE TokensInv'
  BY <1>5 DEF ResetAccessTokens, TokensInv, TokenBuysOneRequest
<1>6. ASSUME NEW caller \in Account, RequestCall(caller) PROVE TokensInv'
  BY <1>3, <1>4, <1>6 DEF RequestCall, SubmitRequestArrayExtra, CloseRequest, DecideRequest,
     DeleteRequest, tokenVars
<1>7. ASSUME NEW caller \in Account, OfferCall(caller) PROVE TokensInv'
  <2>1. ASSUME NEW o \in OfferID, NEW extra, NEW paid, SubmitOfferArrayExtra(caller, o, extra, paid)
        PROVE  UNCHANGED <<usedTokens, requestToken, reqNum>>
    BY <2>1 DEF SubmitOfferArrayExtra, tokenVars
  <2>2. UNCHANGED <<usedTokens, requestToken, reqNum>>
    BY <1>7, <2>1 DEF OfferCall, SubmitOffer, SettleTrade, Withdraw, tokenVars, requestVars
  <2> QED BY <1>3, <2>2
<1>8. ASSUME NEW caller \in Account, RoleCall(caller) PROVE TokensInv'
  BY <1>3, <1>5, <1>8 DEF RoleCall, InterledgerReceive, AddManager, RevokeManagerCert,
     ChangeOwner, TransferOwnership, RenounceOwnership, ChangeRoles, tokenVars, requestVars
<1>9. CASE Tick \/ UNCHANGED vars
  BY <1>3, <1>9 DEF Tick, vars, tokenVars, requestVars
<1> QED BY <1>6, <1>7, <1>8, <1>9 DEF Next

-----------------------------------------------------------------------------
(***************************************************************************)
(* What was accepted stays acceptable: a completed offer fits the request  *)
(* it was made for, and pays for it, as long as it exists.                 *)
(***************************************************************************)
OffersAreAcceptable ==
  \A o \in OfferID : (offers[o].isDefined /\ offers[o].offStage = "Open") =>
    OfferIsAcceptable(requestsExtra[offers[o].requestID], offersExtra[o])

\* A request that was open once, as one with offers was, has an extra.
BookingInv ==
  /\ \A r \in RequestID : requests[r].reqStage = "Open" => requestsExtra[r] \in RequestExtra
  /\ \A o \in OfferID : offers[o].isDefined =>
       /\ requests[offers[o].requestID].reqStage # "Pending"
       /\ requestsExtra[offers[o].requestID] \in RequestExtra
  /\ OffersAreAcceptable

\* Once published, the extra of a request is fixed.
PublishedStay ==
  \A r \in RequestID :
    /\ requests[r].reqStage # "Pending" =>
         requests'[r].reqStage # "Pending" /\ requestsExtra'[r] = requestsExtra[r]
    /\ requests'[r].reqStage = "Open" =>
         requests[r].reqStage = "Open" \/ requestsExtra'[r] \in RequestExtra

LEMMA BookingStays ==
  ASSUME StorageInv, BookingInv, PublishedStay, UNCHANGED <<offers, offersExtra>>
  PROVE  BookingInv'
<1>1. \A o \in OfferID : offers[o].requestID \in RequestID
  BY DEF StorageInv, TypeOK, OffersTypeOK, Offer
<1>2. ASSUME NEW r \in RequestID, requests'[r].reqStage = "Open"
      PROVE  requestsExtra'[r] \in RequestExtra
  BY <1>2 DEF PublishedStay, BookingInv
<1>3. ASSUME NEW o \in OfferID, offers'[o].isDefined
      PROVE  /\ requests'[offers'[o].requestID].reqStage # "Pending"
             /\ requestsExtra'[offers'[o].requestID] = requestsExtra[offers[o].requestID]
  BY <1>1, <1>3 DEF PublishedStay, BookingInv
<1> QED BY <1>2, <1>3 DEF BookingInv, OffersAreAcceptable

LEMMA RequestCallBooking ==
  ASSUME StorageInv, BookingInv, NEW caller \in Account, RequestCall(caller)
  PROVE  BookingInv'
<1>1. /\ requests \in [RequestID -> Request] /\ reqNum \in Nat
      /\ DOMAIN requestsExtra = RequestID /\ block \in Nat
  BY DEF StorageInv, TypeOK, RequestsTypeOK
<1>2. ASSUME NEW token \in Token, NEW signer \in Account, NEW deadline \in Deadlines,
             SubmitAuthorisedRequest(caller, token, signer, deadline)
      PROVE  BookingInv'
  <2>1. reqNum \in RequestID /\ requests[reqNum] = NoRequest
    BY <1>1, <1>2 DEF SubmitAuthorisedRequest, StorageInv, RequestsInv
  <2>2. /\ requests[reqNum].reqStage = "Pending" /\ requests'[reqNum].reqStage = "Pending"
        /\ \A r \in RequestID \ {reqNum} : requests'[r] = requests[r]
        /\ UNCHANGED <<requestsExtra, offers, offersExtra>>
    BY <1>1, <1>2, <2>1 DEF SubmitAuthorisedRequest, NoRequest, offerVars
  <2>3. PublishedStay
    BY <2>2 DEF PublishedStay
  <2> QED BY <2>2, <2>3, BookingStays
<1>3. ASSUME NEW r \in RequestID, NEW extra \in RequestExtraInputs,
             SubmitRequestArrayExtra(caller, r, extra)
      PROVE  BookingInv'
  <2>1. RequestExtraFromRawArray(extra) \in RequestExtra
    BY <1>3, RequestExtraType, MarketplaceAssumption DEF SubmitRequestArrayExtra
  <2>2. /\ requests[r].reqStage = "Pending"
        /\ requestsExtra' = [requestsExtra EXCEPT ![r] = RequestExtraFromRawArray(extra)]
        /\ \A q \in RequestID \ {r} : requests'[q] = requests[q]
        /\ UNCHANGED <<offers, offersExtra>>
    BY <1>1, <1>3 DEF SubmitRequestArrayExtra, offerVars
  <2>3. requestsExtra'[r] \in RequestExtra
        /\ \A q \in RequestID \ {r} : requestsExtra'[q] = requestsExtra[q]
    BY <1>1, <2>1, <2>2
  <2>4. PublishedStay
    BY <2>2, <2>3 DEF PublishedStay
  <2> QED BY <2>2, <2>4, BookingStays
<1>4. ASSUME NEW r \in RequestID,
             CloseRequest(caller, r) \/ \E list \in OfferLists : DecideRequest(caller, r, list)
      PROVE  BookingInv'
  <2>1. /\ requests'[r].reqStage = "Closed"
        /\ \A q \in RequestID \ {r} : requests'[q] = requests[q]
        /\ UNCHANGED <<requestsExtra, offers, offersExtra>>
    <3>1. CASE CloseRequest(caller, r)
      <4>1. requests' = [requests EXCEPT ![r] =
                           [requests[r] EXCEPT !.reqStage = "Closed", !.closingBlock = block]]
        BY <3>1 DEF CloseRequest
      <4> QED BY <1>1, <3>1, <4>1 DEF CloseRequest, offerVars, Request
    <3>2. ASSUME NEW list \in OfferLists, DecideRequest(caller, r, list)
          PROVE  /\ requests'[r].reqStage = "Closed"
                 /\ \A q \in RequestID \ {r} : requests'[q] = requests[q]
                 /\ UNCHANGED <<requestsExtra, offers, offersExtra>>
      <4>1. requests' = [requests EXCEPT ![r] =
                           [requests[r] EXCEPT !.reqStage = "Closed", !.closingBlock = block,
                                               !.isDecided = TRUE, !.acceptedOfferIDs = list]]
        BY <3>2 DEF DecideRequest, DecideRequestInsecure
      <4> QED BY <1>1, <3>2, <4>1 DEF DecideRequest, offerVars, Request
    <3> QED BY <1>4, <3>1, <3>2
  <2>2. PublishedStay
    BY <2>1 DEF PublishedStay
  <2> QED BY <2>1, <2>2, BookingStays
<1>5. ASSUME NEW r \in RequestID, DeleteRequest(caller, r) PROVE BookingInv'
  <2>1. /\ requests'[r] = NoRequest /\ \A q \in RequestID \ {r} : requests'[q] = requests[q]
        /\ offers' = [o \in OfferID |-> IF offers[o].requestID = r THEN NoOffer ELSE offers[o]]
        /\ UNCHANGED <<requestsExtra, offersExtra>>
    BY <1>1, <1>5 DEF DeleteRequest
  <2>2. ASSUME NEW o \in OfferID, offers'[o].isDefined
        PROVE  /\ offers[o].isDefined /\ offers'[o] = offers[o]
               /\ offers[o].requestID \in RequestID \ {r}
    BY <2>1, <2>2 DEF NoOffer, StorageInv, TypeOK, OffersTypeOK, Offer
  <2>3. OffersAreAcceptable'
    BY <2>1, <2>2 DEF BookingInv, OffersAreAcceptable
  <2>4. ASSUME NEW o \in OfferID, offers'[o].isDefined
        PROVE  /\ requests'[offers'[o].requestID].reqStage # "Pending"
               /\ requestsExtra'[offers'[o].requestID] \in RequestExtra
    BY <2>1, <2>2, <2>4 DEF BookingInv
  <2>5. \A q \in RequestID : requests'[q].reqStage = "Open" => requestsExtra'[q] \in RequestExtra
    BY <2>1 DEF BookingInv, NoRequest
  <2> QED BY <2>3, <2>4, <2>5 DEF BookingInv
<1> QED BY <1>2, <1>3, <1>4, <1>5 DEF RequestCall

LEMMA OfferCallBooking ==
  ASSUME StorageInv, BookingInv, NEW caller \in Account, OfferCall(caller)
  PROVE  BookingInv'
<1>1. /\ requests \in [RequestID -> Request] /\ offers \in [OfferID -> Offer]
      /\ DOMAIN offersExtra = OfferID /\ offNum \in Int /\ block \in Nat
  BY DEF StorageInv, TypeOK, RequestsTypeOK, OffersTypeOK
<1>2. ASSUME UNCHANGED <<requests, requestsExtra, offers, offersExtra>> PROVE BookingInv'
  BY <1>2 DEF BookingInv, OffersAreAcceptable
<1>3. ASSUME NEW r \in RequestID, SubmitOffer(caller, r) PROVE BookingInv'
  <2>1. /\ offNum \in OfferID /\ requests[r].reqStage = "Open"
        /\ offers' = [offers EXCEPT ![offNum] =
             [NoOffer EXCEPT !.isDefined = TRUE, !.offerMaker = caller, !.requestID = r]]
        /\ UNCHANGED <<requests, requestsExtra, offersExtra>>
    BY <1>3 DEF SubmitOffer, requestVars
  <2>2. offers'[offNum].offStage = "Pending" /\ offers'[offNum].requestID = r
        /\ \A o \in OfferID \ {offNum} : offers'[o] = offers[o]
    BY <1>1, <2>1 DEF NoOffer
  <2> QED BY <2>1, <2>2 DEF BookingInv, OffersAreAcceptable
<1>4. ASSUME NEW o \in OfferID, NEW extra \in OfferExtraInputs, NEW paid \in Payments,
             SubmitOfferArrayExtra(caller, o, extra, paid)
      PROVE  BookingInv'
  <2> DEFINE r == offers[o].requestID
             offerExtra == OfferExtraFromRawArray(extra, paid)
  <2>1. /\ offers' = [offers EXCEPT ![o] = [offers[o] EXCEPT !.offStage = "Open"]]
        /\ offersExtra' = [offersExtra EXCEPT ![o] = offerExtra]
        /\ OfferIsAcceptable(requestsExtra[r], offerExtra)
        /\ UNCHANGED requestsExtra /\ offers[o].isDefined
    BY <1>4 DEF SubmitOfferArrayExtra
  <2>2. \A q \in RequestID :
          \/ requests'[q] = requests[q]
          \/ requests'[q].reqStage = "Closed"
    <3>1. CASE requests' = requests
      BY <3>1
    <3>2. ASSUME NEW extras, DecideRequestInsecure(r, <<o>>, extras)
          PROVE  \A q \in RequestID : requests'[q] = requests[q] \/ requests'[q].reqStage = "Closed"
      <4>1. requests' = [requests EXCEPT ![r] =
                           [requests[r] EXCEPT !.reqStage = "Closed", !.closingBlock = block,
                                               !.isDecided = TRUE, !.acceptedOfferIDs = <<o>>]]
        BY <3>2 DEF DecideRequestInsecure
      <4> QED BY <1>1, <4>1 DEF Request
    <3> QED BY <1>4, <3>1, <3>2 DEF SubmitOfferArrayExtra
  <2> HIDE DEF offerExtra
  <2>3. \A p \in OfferID : /\ offers'[p].isDefined = offers[p].isDefined
                           /\ offers'[p].requestID = offers[p].requestID
                           /\ offers[p].requestID \in RequestID
                           /\ p # o => offers'[p] = offers[p] /\ offersExtra'[p] = offersExtra[p]
    BY <1>1, <2>1 DEF Offer
  <2>4. offersExtra'[o] = offerExtra
    BY <1>1, <2>1
  <2>5. OffersAreAcceptable'
    BY <2>1, <2>3, <2>4 DEF BookingInv, OffersAreAcceptable
  <2>6. \A p \in OfferID : offers'[p].isDefined =>
          /\ requests'[offers'[p].requestID].reqStage # "Pending"
          /\ requestsExtra'[offers'[p].requestID] \in RequestExtra
    BY <2>1, <2>2, <2>3 DEF BookingInv
  <2>7. \A q \in RequestID : requests'[q].reqStage = "Open" => requestsExtra'[q] \in RequestExtra
    BY <2>1, <2>2 DEF BookingInv
  <2> QED BY <2>5, <2>6, <2>7 DEF BookingInv
<1> QED
  BY <1>2, <1>3, <1>4 DEF OfferCall, SettleTrade, Withdraw, requestVars, offerVars

LEMMA NextBooking ==
  ASSUME StorageInv, BookingInv, [Next]_vars
  PROVE  BookingInv'
<1>1. ASSUME UNCHANGED <<requests, requestsExtra, offers, offersExtra>> PROVE BookingInv'
  BY <1>1 DEF BookingInv, OffersAreAcceptable
<1>2. ASSUME NEW caller \in Account, RoleCall(caller) PROVE BookingInv'
  BY <1>1, <1>2 DEF RoleCall, InterledgerReceive, ResetAccessTokens, AddManager, RevokeManagerCert,
     ChangeOwner, TransferOwnership, RenounceOwnership, ChangeRoles, requestVars, offerVars
<1>3. CASE Tick \/ UNCHANGED vars
  BY <1>1, <1>3 DEF Tick, vars, requestVars, offerVars
<1> QED BY <1>2, <1>3, RequestCallBooking, OfferCallBooking DEF Next

-----------------------------------------------------------------------------
(***************************************************************************)
(* The theorems.                                                           *)
(***************************************************************************)
LedgerInv ==
  IInv /\ VerdictsInv /\ ResolvedInv /\ InstantRentIsExclusive /\ PayloadInv /\ TokensInv
  /\ BookingInv

LEMMA LedgerInvariance ==
  /\ Init => LedgerInv
  /\ LedgerInv /\ [Next]_vars => LedgerInv' /\ BiddingIsOver
<1>1. Init => LedgerInv
  <2> SUFFICES ASSUME Init PROVE LedgerInv
    OBVIOUS
  <2>1. IInv /\ VerdictsInv /\ ResolvedInv
    BY InitIInv, InitVerdictsInv, InitResolved
  <2>2. InstantRentIsExclusive /\ PayloadInv /\ TokensInv
    BY ZeroesType
    DEF Init, InstantRentIsExclusive, OpenInstantRent, PayloadInv, TokensInv, TokenBuysOneRequest
  <2>3. BookingInv
    BY DEF Init, BookingInv, OffersAreAcceptable, NoRequest, NoOffer
  <2> QED BY <2>1, <2>2, <2>3 DEF LedgerInv
<1>2. ASSUME LedgerInv, [Next]_vars PROVE LedgerInv' /\ BiddingIsOver
  <2>1. IInv /\ VerdictsInv /\ ResolvedInv /\ LifeInv /\ StorageInv
    BY <1>2 DEF LedgerInv, ResolvedInv, IInv
  <2>2. IInv' /\ VerdictsInv' /\ ResolvedInv' /\ StorageInv'
    BY <1>2, <2>1, NextIInv, NextVerdicts, NextResolved DEF IInv
  <2>3. RequestsGoOn /\ (OffersKept \/ \E o \in OfferID : CompletesOffer(o))
    BY <1>2, <2>1, StepGoesOn
  <2>4. InstantRentIsExclusive'
    BY <1>2, <2>1, <2>2, <2>3, NextInstantRent DEF LedgerInv
  <2>5. PayloadInv' /\ TokensInv' /\ BookingInv' /\ BiddingIsOver
    BY <1>2, <2>1, <2>2, NextPayloadInv, NextTokensInv, NextBooking, StepEndsBidding DEF LedgerInv
  <2> QED BY <2>2, <2>4, <2>5 DEF LedgerInv
<1> QED BY <1>1, <1>2

(***************************************************************************)
(* One report settles a request as a whole (SMAUGMarketplace.sol:690):     *)
(* only a decided request has resolved offers, and it is closed, so no     *)
(* offer comes to it after the others were resolved.                       *)
(***************************************************************************)
THEOREM WholeRequests == Spec => []RequestResolvedAsAWhole
<1>1. LedgerInv => RequestResolvedAsAWhole
  BY DEF LedgerInv, ResolvedInv
<1> QED BY <1>1, LedgerInvariance, PTL DEF Spec

(***************************************************************************)
(* An instant rent closes and decides its request in the call that opens   *)
(* the offer (SMAUGMarketplace.sol:413), so it stays the only one.         *)
(***************************************************************************)
THEOREM InstantRents == Spec => []InstantRentIsExclusive
<1>1. LedgerInv => InstantRentIsExclusive
  BY DEF LedgerInv
<1> QED BY <1>1, LedgerInvariance, PTL DEF Spec

(***************************************************************************)
(* A closed request stays closed until it is deleted, and takes no more    *)
(* money.                                                                  *)
(***************************************************************************)
THEOREM EndOfBidding == Spec => BiddingEnds
<1>1. BiddingEnds <=> [][BiddingIsOver]_vars
  BY PTL DEF BiddingEnds, BiddingIsOver
<1>2. LedgerInv /\ [Next]_vars => LedgerInv' /\ [BiddingIsOver]_vars
  BY LedgerInvariance
<1> QED BY <1>1, <1>2, LedgerInvariance, PTL DEF Spec

(***************************************************************************)
(* Decisions name completed offers with the keys these were completed      *)
(* with, also after later decisions and deletions.                         *)
(***************************************************************************)
THEOREM Payloads == Spec => []PayloadCarriesKeys
<1>1. LedgerInv => PayloadCarriesKeys
  BY DEF LedgerInv, PayloadInv, ProperPayload, CarriesKeys, PayloadCarriesKeys
<1> QED BY <1>1, LedgerInvariance, PTL DEF Spec

(***************************************************************************)
(* And the offers a payload still finds in the contract are all of one     *)
(* request, so that the answer to it can be reported (the contract refuses *)
(* a report whose offers are of several).                                  *)
(***************************************************************************)
THEOREM PayloadsNameOneRequest == Spec => []PayloadNamesOneRequest
<1>1. LedgerInv => PayloadNamesOneRequest
  BY DEF LedgerInv, PayloadInv, ProperPayload, NamesOneRequest, PayloadNamesOneRequest
<1> QED BY <1>1, LedgerInvariance, PTL DEF Spec

(***************************************************************************)
(* A completed offer fits its request and pays for it as long as it        *)
(* exists: an extra is submitted once (SMAUGMarketplace.sol:132), and the  *)
(* identifier of a deleted request is not given again.                     *)
(***************************************************************************)
THEOREM OffersStayAcceptable == Spec => []OffersAreAcceptable
<1>1. LedgerInv => OffersAreAcceptable
  BY DEF LedgerInv, BookingInv
<1> QED BY <1>1, LedgerInvariance, PTL DEF Spec

(***************************************************************************)
(* An access token buys one request, for the account it was issued to,     *)
(* until the used tokens are reset.                                        *)
(***************************************************************************)
THEOREM TokensBuyOnce == Spec => []TokenBuysOneRequest
<1>1. LedgerInv => TokenBuysOneRequest
  BY DEF LedgerInv, TokensInv
<1> QED BY <1>1, LedgerInvariance, PTL DEF Spec
=============================================================================
