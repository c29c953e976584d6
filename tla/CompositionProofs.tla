-------------------------- MODULE CompositionProofs --------------------------
(***************************************************************************)
(* The demo and the settlement of decisions use the contract as its own    *)
(* specification lets any account use it, so what is proved of the         *)
(* contract holds in both; what the demo's memory is good for; and that    *)
(* access tokens and money go to the right offers, whatever travels late.  *)
(***************************************************************************)
EXTENDS DemoClient, Settlement, MarketplaceVerdicts

(***************************************************************************)
(* Where a menu entry is, and what it needs there.                         *)
(***************************************************************************)
AtRequest == step \in {"getNewAccessToken", "submitRequest", "submitRequestExtra"}
AtOffer   == step \in {"submitOffer", "submitOfferExtra"}

EntryInv ==
  /\ step = "menu" => ~testing /\ testOffers = << >> /\ answer = Idle
  /\ step = "getNewAccessToken" => answer = Idle
  /\ AtRequest => requestForm \in RequestForms \cup {TestRequest}
  /\ step = "submitRequest" => token \in Token
  /\ (AtOffer /\ ~testing) => offerForm \in OfferForms /\ offerForm.price > 0
  /\ (AtOffer /\ testing) => Len(testOffers) \in 0 .. 2
  /\ (AtRequest /\ testing) => testOffers = << >>
  /\ step = "decideRequest" => Len(testOffers) = 3
  /\ step = "submitOfferExtra" => offerID # 0
  /\ testOffers \in Seq(OfferID \ {0})
  /\ step = "submitRequest" => answer \in {Idle} \cup RequestID
  /\ step = "submitOffer" => answer \in {Idle} \cup (OfferID \ {0})

ClientInv == ClientTypeOK /\ EntryInv

LEMMA NextTestOffer == \A n \in 0 .. 2 : n + 1 \in 1 .. 3
BY SMT

LEMMA Accounts ==
  ASSUME ClientTypeOK
  PROVE  /\ OwnAccounts \subseteq Account
         /\ Requester \in OwnAccounts
         /\ (EntryInv /\ AtOffer) => Bidder \in OwnAccounts
<1>1. NodeAccounts \in Seq(Account) /\ 1 \in DOMAIN NodeAccounts
  BY ClientAssumption
<1>2. OwnAccounts \subseteq Account
  BY <1>1 DEF OwnAccounts
<1>3. Requester \in OwnAccounts
  BY <1>1 DEF Requester, OwnAccounts, ClientTypeOK
<1>4. ASSUME EntryInv, AtOffer PROVE Bidder \in OwnAccounts
  <2>1. CASE testing
    <3>1. Len(testOffers) \in 0 .. 2
      BY <1>4, <2>1 DEF EntryInv
    <3>2. Len(testOffers) + 1 \in 1 .. 3
      BY <3>1, NextTestOffer
    <3> QED BY <2>1, <3>2, ClientAssumption DEF Bidder
  <2>2. CASE ~testing
    BY <2>2 DEF Bidder, ClientTypeOK
  <2> QED BY <2>1, <2>2
<1> QED BY <1>2, <1>3, <1>4

\* The dates an offer is made for are some that may be typed.
TypedDates == OfferForms \cup {TestOffer[i] : i \in 1 .. 3}

LEMMA DatesAreTyped ==
  ASSUME ClientTypeOK, EntryInv, AtOffer
  PROVE  Dates \in TypedDates /\ Dates # NoDates
<1>1. CASE testing
  <2>1. Len(testOffers) + 1 \in 1 .. 3
    <3>1. Len(testOffers) \in 0 .. 2
      BY <1>1 DEF EntryInv
    <3> QED BY <3>1, NextTestOffer
  <2>2. Dates \in {TestOffer[i] : i \in 1 .. 3} /\ Dates.price > 0
    BY <1>1, <2>1, ClientAssumption DEF Dates
  <2> QED BY <2>2 DEF TypedDates, NoDates
<1>2. CASE ~testing
  <2>1. Dates \in OfferForms /\ Dates.price > 0
    BY <1>2 DEF Dates, EntryInv
  <2> QED BY <2>1 DEF TypedDates, NoDates
<1> QED BY <1>1, <1>2

-----------------------------------------------------------------------------
(***************************************************************************)
(* Every step of the demo is a call of the contract, or leaves it alone.   *)
(***************************************************************************)
LEMMA CallsAreNext ==
  ASSUME NEW caller \in Account
  PROVE  /\ RequestCall(caller) => Next
         /\ OfferCall(caller) => Next
         /\ RoleCall(caller) => Next
BY DEF Next

\* The demo makes every call but one: it deletes no request.
KeepingCall(caller) ==
  \/ \E t \in Token, signer \in Account, deadline \in Deadlines :
       SubmitAuthorisedRequest(caller, t, signer, deadline)
  \/ \E r \in RequestID :
       \/ \E extra \in RequestExtraInputs : SubmitRequestArrayExtra(caller, r, extra)
       \/ CloseRequest(caller, r)
       \/ \E list \in OfferLists : DecideRequest(caller, r, list)
  \/ OfferCall(caller)

KeepingStep == UNCHANGED vars \/ \E caller \in Account : KeepingCall(caller)

LEMMA KeepingIsNext == KeepingStep => [Next]_vars
BY CallsAreNext DEF KeepingStep, KeepingCall, RequestCall

LEMMA MenuUsesContract ==
  ASSUME ClientInv, Menu
  PROVE  KeepingStep
<1>1. currentAccount \in Account
  BY Accounts DEF ClientInv, ClientTypeOK, EntryTypeOK
<1>2. TypedID(RequestID) \subseteq RequestID /\ TypedID(OfferID) \subseteq OfferID
  BY DEF TypedID
<1>3. ASSUME NEW r \in TypedID(RequestID), HandleRequestClosing(r) PROVE KeepingStep
  BY <1>1, <1>2, <1>3, Zenon DEF KeepingStep, KeepingCall, HandleRequestClosing
<1>4. ASSUME NEW r \in TypedID(RequestID), NEW list \in ListForms, HandleRequestDecision(r, list)
      PROVE  KeepingStep
  <2>1. list \in OfferLists BY ClientAssumption
  <2> QED BY <1>1, <1>2, <1>4, <2>1, Zenon DEF KeepingStep, KeepingCall, HandleRequestDecision
<1>5. ASSUME NEW r \in TypedID(RequestID), NEW o \in TypedID(OfferID), HandleOfferSettlment(r, o)
      PROVE  KeepingStep
  BY <1>1, <1>2, <1>5, Zenon DEF KeepingStep, KeepingCall, HandleOfferSettlment, OfferCall
<1>6. ASSUME NEW o \in TypedID(OfferID), HandleCreatorClaim(o) PROVE KeepingStep
  BY <1>1, <1>2, <1>6, Zenon DEF KeepingStep, KeepingCall, HandleCreatorClaim, OfferCall
<1>7. ASSUME NEW account, ChangeAccount(account) PROVE UNCHANGED vars
  BY <1>7 DEF ChangeAccount
<1>8. ASSUME NEW call, NEW r, Enter(call, r) PROVE UNCHANGED vars
  BY <1>8 DEF Enter
<1>9. ASSUME CheckForOffersEvents PROVE UNCHANGED vars
  BY <1>9 DEF CheckForOffersEvents
<1> QED
  BY <1>3, <1>4, <1>5, <1>6, <1>7, <1>8, <1>9
  DEF Menu, TriggerInterledger, HandleAuctionRequestCreation, HandleOfferCreation, KeepingStep

LEMMA SelectionIsListed ==
  ASSUME testOffers[1] \in OfferID \ {0}, testOffers[3] \in OfferID \ {0}
  PROVE  TestSelection \in OfferLists
<1>1. \A o, p \in OfferID \ {0} : <<o, p>> \in OfferLists
  BY ClientInputsAssumption DEF TypedID
<1>2. PICK o \in OfferID \ {0} : testOffers[1] = o
  OBVIOUS
<1>3. PICK p \in OfferID \ {0} : testOffers[3] = p
  OBVIOUS
<1>4. <<o, p>> \in OfferLists
  BY <1>1
<1>5. TestSelection = <<o, p>>
  BY <1>2, <1>3 DEF TestSelection
<1> QED BY <1>4, <1>5, Zenon

LEMMA FirstAndThird ==
  ASSUME NEW S, NEW s \in Seq(S), Len(s) = 3
  PROVE  s[1] \in S /\ s[3] \in S
<1>1. 1 \in 1 .. Len(s) /\ 3 \in 1 .. Len(s)
  BY SMT
<1> QED BY <1>1

LEMMA EntryUsesContract ==
  ASSUME ClientInv, EntryStep
  PROVE  KeepingStep
<1>1. Requester \in Account /\ (AtOffer => Bidder \in Account)
  BY Accounts DEF ClientInv
<1>2. requestID \in RequestID /\ offerID \in OfferID
  BY DEF ClientInv, ClientTypeOK, EntryTypeOK
<1>3. CASE SendRequest
  <2>1. step = "submitRequest" BY <1>3 DEF SendRequest, Sent
  <2>2. token \in Token /\ requestForm.deadline \in Deadlines
    BY <2>1, ClientInputsAssumption DEF ClientInv, EntryInv, AtRequest
  <2>3. KeepingCall(Requester) BY <1>3, <2>2 DEF SendRequest, KeepingCall
  <2> QED BY <1>1, <2>3, Zenon DEF KeepingStep
<1>4. CASE SendRequestExtra
  <2>1. step = "submitRequestExtra" BY <1>4 DEF SendRequestExtra, Sent
  <2>2. RequestExtraOf(requestForm) \in RequestExtraInputs
    BY <2>1, ClientInputsAssumption DEF ClientInv, EntryInv, AtRequest
  <2>3. KeepingCall(Requester) BY <1>2, <1>4, <2>2 DEF SendRequestExtra, KeepingCall
  <2> QED BY <1>1, <2>3, Zenon DEF KeepingStep
<1>5. CASE SendOffer
  <2>1. AtOffer BY <1>5 DEF SendOffer, Sent, AtOffer
  <2>2. KeepingCall(Bidder) BY <1>2, <1>5 DEF SendOffer, OfferCall, KeepingCall
  <2> QED BY <1>1, <2>1, <2>2, Zenon DEF KeepingStep
<1>6. CASE SendOfferExtra
  <2>1. AtOffer BY <1>6 DEF SendOfferExtra, Sent, AtOffer
  <2>2. Dates \in TypedDates BY <2>1, DatesAreTyped DEF ClientInv
  <2>3. EncryptionKey \in {1, 2} BY DEF EncryptionKey
  <2>4. OfferExtraOf(Dates, EncryptionKey) \in OfferExtraInputs /\ Dates.price \in Payments
    BY <2>2, <2>3, ClientInputsAssumption DEF TypedDates
  <2>5. KeepingCall(Bidder) BY <1>2, <1>6, <2>4 DEF SendOfferExtra, OfferCall, KeepingCall
  <2> QED BY <1>1, <2>1, <2>5, Zenon DEF KeepingStep
<1>7. CASE SendTestDecision
  <2>1. step = "decideRequest" BY <1>7 DEF SendTestDecision, Sent
  <2>2. testOffers \in Seq(OfferID \ {0}) /\ Len(testOffers) = 3
    BY <2>1 DEF ClientInv, EntryInv
  <2>3. testOffers[1] \in OfferID \ {0} /\ testOffers[3] \in OfferID \ {0}
    BY <2>2, FirstAndThird
  <2>4. TestSelection \in OfferLists
    BY <2>3, SelectionIsListed
  <2>5. KeepingCall(Requester) BY <1>2, <1>7, <2>4 DEF SendTestDecision, KeepingCall
  <2> QED BY <1>1, <2>5, Zenon DEF KeepingStep
<1>8. CASE GetNewAccessToken \/ ReceiptArrives \/ ReceiptLost \/ CallFails
  BY <1>8 DEF GetNewAccessToken, ReceiptArrives, ReceiptLost, CallFails, KeepingStep
<1> QED BY <1>3, <1>4, <1>5, <1>6, <1>7, <1>8 DEF EntryStep

LEMMA ClientUsesContract == ClientInv /\ [ClientNext]_<<vars, clientVars>> => [Next]_vars
<1> SUFFICES ASSUME ClientInv, [ClientNext]_<<vars, clientVars>> PROVE [Next]_vars
  OBVIOUS
<1>1. ASSUME NEW caller \in OtherAccounts, OtherCall(caller) PROVE Next
  <2>1. caller \in Account /\ ListForms \subseteq OfferLists BY ClientAssumption
  <2>2. RequestCall(caller) \/ OfferCall(caller) \/ RoleCall(caller)
    BY <1>1, <2>1 DEF OtherCall, OfferCall, RoleCall
  <2> QED BY <2>1, <2>2, CallsAreNext
<1>2. CASE TimePasses
  BY <1>2 DEF TimePasses, Next
<1>3. ASSUME NEW event \in Event, HearEvent(event) PROVE UNCHANGED vars
  BY <1>3 DEF HearEvent
<1>4. CASE Exit
  BY <1>4 DEF Exit
<1> QED BY <1>1, <1>2, <1>3, <1>4, MenuUsesContract, EntryUsesContract, KeepingIsNext DEF ClientNext

-----------------------------------------------------------------------------
(***************************************************************************)
(* ClientInv is inductive.                                                 *)
(***************************************************************************)
LEMMA InitClientInv == ClientInit => ClientInv
<1> SUFFICES ASSUME ClientInit PROVE ClientInv
  OBVIOUS
<1> USE DEF ClientInit
<1>1. 0 \in RequestID /\ 0 \in OfferID
  BY MarketplaceAssumption DEF RequestID, OfferID
<1>2. EntryTypeOK
  <2>1. testOffers \in Seq(OfferID)
    OBVIOUS
  <2> QED BY <1>1, <2>1, Zenon DEF EntryTypeOK
<1>3. MemoryTypeOK
  BY DEF MemoryTypeOK
<1>4. EventsTypeOK
  BY DEF EventsTypeOK
<1>5. currentAccount \in OwnAccounts /\ sessions \in Nat
  <2>1. 1 \in DOMAIN NodeAccounts
    BY ClientAssumption
  <2> QED BY <2>1 DEF OwnAccounts
<1>6. EntryInv
  BY DEF EntryInv, AtRequest, AtOffer
<1> QED BY <1>2, <1>3, <1>4, <1>5, <1>6 DEF ClientInv, ClientTypeOK

\* Back at the menu the entry has nothing left.
LEMMA BackToMenuKeeps ==
  ASSUME BackToMenu, answer' = Idle
  PROVE  EntryTypeOK' /\ EntryInv'
<1>1. 0 \in RequestID /\ 0 \in OfferID
  BY MarketplaceAssumption DEF RequestID, OfferID
<1>2. EntryTypeOK'
  <2>1. << >> \in Seq(OfferID)
    OBVIOUS
  <2> QED BY <1>1, <2>1, Zenon DEF EntryTypeOK, BackToMenu
<1>3. EntryInv'
  BY DEF EntryInv, BackToMenu, AtRequest, AtOffer
<1> QED BY <1>2, <1>3

LEMMA EntryUntouched ==
  ASSUME EntryTypeOK, EntryInv, UNCHANGED entryVars
  PROVE  EntryTypeOK' /\ EntryInv'
BY DEF EntryTypeOK, EntryInv, entryVars, AtRequest, AtOffer

LEMMA MemoryUntouched ==
  ASSUME MemoryTypeOK, UNCHANGED memoryVars
  PROVE  MemoryTypeOK'
BY DEF MemoryTypeOK, memoryVars

LEMMA EventsUntouched ==
  ASSUME EventsTypeOK, UNCHANGED <<eventVars, wire>>
  PROVE  EventsTypeOK'
BY DEF EventsTypeOK, eventVars

LEMMA UserUntouched ==
  ASSUME ClientInv, UNCHANGED userVars
  PROVE  (currentAccount \in OwnAccounts /\ sessions \in Nat)'
BY DEF ClientInv, ClientTypeOK, userVars

LEMMA EntersKeep ==
  ASSUME ClientInv,
         \/ TriggerInterledger
         \/ \E form \in RequestForms : HandleAuctionRequestCreation(form)
         \/ \E r \in TypedID(RequestID) : \E form \in OfferForms : HandleOfferCreation(r, form)
  PROVE  ClientInv'
<1>1. UNCHANGED memoryVars /\ UNCHANGED <<eventVars, wire>> /\ UNCHANGED userVars
  BY DEF TriggerInterledger, HandleAuctionRequestCreation, HandleOfferCreation, Enter
<1>2. MemoryTypeOK' /\ EventsTypeOK' /\ (currentAccount \in OwnAccounts /\ sessions \in Nat)'
  BY <1>1, MemoryUntouched, EventsUntouched, UserUntouched DEF ClientInv, ClientTypeOK
<1>3. 0 \in RequestID /\ TypedID(RequestID) \subseteq RequestID
  BY MarketplaceAssumption DEF RequestID, TypedID
<1>4. /\ UNCHANGED <<token, offerID, testOffers, answer>>
      /\ step = "menu"
      /\ requestID' \in RequestID
      /\ \/ /\ step' = "getNewAccessToken" /\ testing' \in BOOLEAN
            /\ requestForm' \in RequestForms \cup {TestRequest} /\ UNCHANGED offerForm
         \/ /\ step' = "submitOffer" /\ UNCHANGED <<testing, requestForm>>
            /\ offerForm' \in OfferForms /\ offerForm'.price > 0
  BY <1>3 DEF TriggerInterledger, HandleAuctionRequestCreation, HandleOfferCreation, Enter,
              OfferFormIsValid, ClientInv, ClientTypeOK, EntryTypeOK
<1>5. EntryTypeOK'
  BY <1>4 DEF ClientInv, ClientTypeOK, EntryTypeOK, Call
<1>6. ~testing /\ testOffers = << >> /\ (step' = "submitOffer" => answer' = Idle)
  BY <1>4 DEF ClientInv, EntryInv
<1>7. EntryInv'
  BY <1>4, <1>6 DEF EntryInv, AtRequest, AtOffer, ClientInv
<1> QED BY <1>2, <1>5, <1>7 DEF ClientInv, ClientTypeOK

\* The other entries of the menu.
LEMMA MenuKeeps ==
  ASSUME ClientInv, Menu
  PROVE  ClientInv'
<1>1. ASSUME NEW i \in DOMAIN NodeAccounts, ChangeAccount(NodeAccounts[i]) PROVE ClientInv'
  <2>1. UNCHANGED entryVars /\ UNCHANGED memoryVars /\ UNCHANGED <<eventVars, wire>>
    BY <1>1 DEF ChangeAccount
  <2>2. (currentAccount \in OwnAccounts /\ sessions \in Nat)'
    BY <1>1 DEF ChangeAccount, OwnAccounts, ClientInv, ClientTypeOK
  <2> QED BY <2>1, <2>2, EntryUntouched, MemoryUntouched, EventsUntouched DEF ClientInv, ClientTypeOK
<1>2. ASSUME UNCHANGED clientVars PROVE ClientInv'
  BY <1>2, EntryUntouched, MemoryUntouched, EventsUntouched, UserUntouched
  DEF ClientInv, ClientTypeOK, clientVars
<1>3. ASSUME NEW r \in TypedID(RequestID),
             \/ HandleRequestClosing(r)
             \/ \E list \in ListForms : HandleRequestDecision(r, list)
             \/ \E o \in TypedID(OfferID) : HandleOfferSettlment(r, o)
      PROVE  ClientInv'
  <2>1. UNCHANGED clientVars
    BY <1>3 DEF HandleRequestClosing, HandleRequestDecision, HandleOfferSettlment
  <2> QED BY <1>2, <2>1
<1>4. ASSUME NEW o \in TypedID(OfferID), HandleCreatorClaim(o) PROVE ClientInv'
  <2>1. UNCHANGED clientVars
    BY <1>4 DEF HandleCreatorClaim
  <2> QED BY <1>2, <2>1
<1>5. CASE CheckForOffersEvents
  <2>1. UNCHANGED entryVars /\ UNCHANGED userVars /\ UNCHANGED <<wire, heard, keys, bought, unanswered>>
    BY <1>5 DEF CheckForOffersEvents
  <2>2. \A i \in DOMAIN unseenOfferFulfilledEvents : unseenOfferFulfilledEvents[i] \in OfferID
    BY DEF ClientInv, ClientTypeOK, EventsTypeOK
  <2>3. opened' \subseteq OfferID
    BY <1>5, <2>2 DEF CheckForOffersEvents, ClientInv, ClientTypeOK, MemoryTypeOK
  <2>4. MemoryTypeOK'
    BY <2>1, <2>3 DEF ClientInv, ClientTypeOK, MemoryTypeOK
  <2>5. EventsTypeOK'
    <3>1. << >> \in Seq(OfferID)
      OBVIOUS
    <3>2. EventsTypeOK
      BY DEF ClientInv, ClientTypeOK
    <3> QED BY <1>5, <2>1, <3>1, <3>2, Zenon DEF CheckForOffersEvents, EventsTypeOK
  <2> QED BY <2>1, <2>4, <2>5, EntryUntouched, UserUntouched DEF ClientInv, ClientTypeOK
<1>6. CASE \/ TriggerInterledger
            \/ \E form \in RequestForms : HandleAuctionRequestCreation(form)
  BY <1>6, EntersKeep
<1>7. ASSUME NEW r \in TypedID(RequestID), NEW form \in OfferForms, HandleOfferCreation(r, form)
      PROVE  ClientInv'
  BY <1>7, EntersKeep
<1> QED BY <1>1, <1>2, <1>3, <1>4, <1>5, <1>6, <1>7 DEF Menu

\* A call that is sent only adds the receipt that is awaited.
LEMMA SentKeeps ==
  ASSUME NEW id, ClientInv, id \in RequestID \cup OfferID,
         \E call \in Call :
           /\ Sent(call, id)
           /\ call = "submitRequest" => id \in RequestID
           /\ call = "submitOffer" => id \in OfferID \ {0}
           /\ call # "getNewAccessToken"
  PROVE  EntryTypeOK' /\ EntryInv' /\ EventsTypeOK' /\ (currentAccount \in OwnAccounts /\ sessions \in Nat)'
<1>1. /\ UNCHANGED <<step, testing, requestForm, offerForm, token, requestID, offerID, testOffers>>
      /\ UNCHANGED <<eventVars, wire>> /\ UNCHANGED userVars /\ answer' = id
      /\ step \in Call \ {"getNewAccessToken"}
      /\ step = "submitRequest" => id \in RequestID
      /\ step = "submitOffer" => id \in OfferID \ {0}
  BY DEF Sent
<1>2. EntryTypeOK'
  BY <1>1 DEF EntryTypeOK, ClientInv, ClientTypeOK
<1>3. EntryInv'
  BY <1>1 DEF EntryInv, ClientInv, AtRequest, AtOffer, Call
<1> QED BY <1>1, <1>2, <1>3, EventsUntouched, UserUntouched DEF ClientInv, ClientTypeOK

LEMMA SendKeeps ==
  ASSUME ClientInv, StorageInv,
         SendRequest \/ SendRequestExtra \/ SendOffer \/ SendOfferExtra \/ SendTestDecision
  PROVE  ClientInv'
<1>1. requestID \in RequestID /\ offerID \in OfferID
  BY DEF ClientInv, ClientTypeOK, EntryTypeOK
<1>2. offNum # 0
  <2>1. offNum \in 1 .. MaxOffers + 1
    BY DEF StorageInv, TypeOK, OffersTypeOK
  <2> QED BY <2>1, SMT
<1>3. EntryTypeOK' /\ EntryInv' /\ EventsTypeOK' /\ (currentAccount \in OwnAccounts /\ sessions \in Nat)'
  <2>1. CASE SendRequest
    <3>1. Sent("submitRequest", reqNum) /\ reqNum \in RequestID
      BY <2>1 DEF SendRequest, SubmitAuthorisedRequest
    <3> QED BY <3>1, SentKeeps DEF Call
  <2>2. CASE SendRequestExtra
    <3>1. Sent("submitRequestExtra", requestID)
      BY <2>2 DEF SendRequestExtra
    <3> QED BY <1>1, <3>1, SentKeeps DEF Call
  <2>3. CASE SendOffer
    <3>1. Sent("submitOffer", offNum) /\ offNum \in OfferID \ {0}
      BY <1>2, <2>3 DEF SendOffer, SubmitOffer
    <3> QED BY <3>1, SentKeeps DEF Call
  <2>4. CASE SendOfferExtra
    <3>1. Sent("submitOfferExtra", offerID)
      BY <2>4 DEF SendOfferExtra
    <3> QED BY <1>1, <3>1, SentKeeps DEF Call
  <2>5. CASE SendTestDecision
    <3>1. Sent("decideRequest", requestID)
      BY <2>5 DEF SendTestDecision
    <3> QED BY <1>1, <3>1, SentKeeps DEF Call
  <2> QED BY <2>1, <2>2, <2>3, <2>4, <2>5
<1>4. MemoryTypeOK'
  <2>1. UNCHANGED <<keys, unanswered, opened>>
    BY DEF SendRequest, SendRequestExtra, SendOffer, SendOfferExtra, SendTestDecision, Sent
  <2>2. CASE SendOfferExtra
    <3>1. Dates \in TypedDates
      BY <2>2, DatesAreTyped DEF SendOfferExtra, Sent, AtOffer, ClientInv
    <3>2. bought' = [bought EXCEPT ![offerID] = Dates]
      BY <2>2 DEF SendOfferExtra
    <3> QED BY <2>1, <3>1, <3>2 DEF MemoryTypeOK, TypedDates, ClientInv, ClientTypeOK
  <2>3. CASE ~SendOfferExtra
    <3>1. UNCHANGED bought
      BY <2>3 DEF SendRequest, SendRequestExtra, SendOffer, SendTestDecision
    <3> QED BY <2>1, <3>1 DEF MemoryTypeOK, ClientInv, ClientTypeOK
  <2> QED BY <2>2, <2>3
<1> QED BY <1>3, <1>4 DEF ClientInv, ClientTypeOK

\* A receipt leads the entry to its next call, or back to the menu.
LEMMA LongerTestOffers ==
  ASSUME NEW s \in Seq(OfferID \ {0}), NEW o \in OfferID \ {0}, Len(s) \in 0 .. 2
  PROVE  /\ Append(s, o) \in Seq(OfferID \ {0})
         /\ Append(s, o) \in Seq(OfferID)
         /\ Len(s) < 2 => Len(Append(s, o)) \in 0 .. 2
         /\ ~(Len(s) < 2) => Len(Append(s, o)) = 3
<1>1. Append(s, o) \in Seq(OfferID \ {0}) /\ Append(s, o) \in Seq(OfferID)
  OBVIOUS
<1>2. Len(Append(s, o)) = Len(s) + 1
  OBVIOUS
<1>3. \A n \in 0 .. 2 : (n < 2 => n + 1 \in 0 .. 2) /\ (~(n < 2) => n + 1 = 3)
  BY SMT
<1> QED BY <1>1, <1>2, <1>3

LEMMA ReceiptKeeps ==
  ASSUME ClientInv, ReceiptArrives \/ ReceiptLost
  PROVE  ClientInv'
<1>1. UNCHANGED <<eventVars, wire>> /\ UNCHANGED userVars /\ answer # Idle /\ answer' = Idle
  BY DEF ReceiptArrives, ReceiptLost
<1>2. EventsTypeOK' /\ (currentAccount \in OwnAccounts /\ sessions \in Nat)'
  BY <1>1, EventsUntouched, UserUntouched DEF ClientInv, ClientTypeOK
<1>3. MemoryTypeOK'
  BY DEF ReceiptArrives, ReceiptLost, KeepKeys, MemoryTypeOK, ClientInv, ClientTypeOK, EntryTypeOK
<1>4. EntryTypeOK' /\ EntryInv'
  <2>1. CASE BackToMenu
    BY <1>1, <2>1, BackToMenuKeeps
  <2>2. CASE RequestSubmitted
    <3>1. answer \in RequestID
      BY <1>1, <2>2 DEF RequestSubmitted, ClientInv, EntryInv
    <3>2. EntryTypeOK'
      BY <1>1, <2>2, <3>1 DEF RequestSubmitted, EntryTypeOK, ClientInv, ClientTypeOK, Call
    <3>3. EntryInv'
      BY <1>1, <2>2 DEF RequestSubmitted, EntryInv, ClientInv, AtRequest, AtOffer
    <3> QED BY <3>2, <3>3
  <2>3. CASE OfferSubmitted
    <3>1. answer \in OfferID \ {0}
      BY <1>1, <2>3 DEF OfferSubmitted, ClientInv, EntryInv
    <3>2. EntryTypeOK'
      BY <1>1, <2>3, <3>1 DEF OfferSubmitted, EntryTypeOK, ClientInv, ClientTypeOK, Call
    <3>3. EntryInv'
      BY <1>1, <2>3, <3>1 DEF OfferSubmitted, EntryInv, ClientInv, AtRequest, AtOffer
    <3> QED BY <3>2, <3>3
  <2>4. CASE TestRequestCompleted
    <3>1. EntryTypeOK'
      BY <1>1, <2>4 DEF TestRequestCompleted, EntryTypeOK, ClientInv, ClientTypeOK, Call
    <3>2. testOffers = << >>
      BY <2>4 DEF TestRequestCompleted, EntryInv, ClientInv, AtRequest
    <3>3. EntryInv'
      BY <1>1, <2>4, <3>2 DEF TestRequestCompleted, EntryInv, ClientInv, AtRequest, AtOffer
    <3> QED BY <3>1, <3>3
  <2>5. CASE TestOfferCompleted
    <3>1. /\ testOffers \in Seq(OfferID \ {0}) /\ Len(testOffers) \in 0 .. 2
          /\ offerID \in OfferID \ {0} /\ step = "submitOfferExtra" /\ testing
      BY <2>5 DEF TestOfferCompleted, EntryInv, ClientInv, AtOffer, ClientTypeOK, EntryTypeOK
    <3>2. /\ testOffers' \in Seq(OfferID \ {0}) /\ testOffers' \in Seq(OfferID)
          /\ \/ step' = "submitOffer" /\ Len(testOffers') \in 0 .. 2
             \/ step' = "decideRequest" /\ Len(testOffers') = 3
      BY <2>5, <3>1, LongerTestOffers DEF TestOfferCompleted
    <3>3. UNCHANGED <<testing, requestForm, offerForm, token, requestID, offerID>>
      BY <2>5 DEF TestOfferCompleted
    <3>4. EntryTypeOK'
      BY <1>1, <3>2, <3>3 DEF EntryTypeOK, ClientInv, ClientTypeOK, Call
    <3>5. EntryInv'
      BY <1>1, <3>1, <3>2, <3>3 DEF EntryInv, AtRequest, AtOffer
    <3> QED BY <3>4, <3>5
  <2> QED BY <2>1, <2>2, <2>3, <2>4, <2>5 DEF ReceiptArrives, ReceiptLost, Finished
<1> QED BY <1>2, <1>3, <1>4 DEF ClientInv, ClientTypeOK

LEMMA EntryKeeps ==
  ASSUME ClientInv, StorageInv, EntryStep
  PROVE  ClientInv'
<1>1. CASE GetNewAccessToken
  <2>1. UNCHANGED memoryVars /\ UNCHANGED <<eventVars, wire>> /\ UNCHANGED userVars
    BY <1>1 DEF GetNewAccessToken
  <2>2. /\ UNCHANGED <<testing, requestForm, offerForm, requestID, offerID, testOffers, answer>>
        /\ step = "getNewAccessToken" /\ step' = "submitRequest" /\ token' \in Token
    BY <1>1 DEF GetNewAccessToken
  <2>3. EntryTypeOK'
    BY <2>2 DEF EntryTypeOK, ClientInv, ClientTypeOK, Call
  <2>4. answer = Idle
    BY <2>2 DEF ClientInv, EntryInv
  <2>5. EntryInv'
    BY <2>2, <2>4 DEF EntryInv, ClientInv, AtRequest, AtOffer
  <2> QED BY <2>1, <2>3, <2>5, MemoryUntouched, EventsUntouched, UserUntouched DEF ClientInv, ClientTypeOK
<1>2. CASE CallFails
  <2>1. UNCHANGED memoryVars /\ UNCHANGED <<eventVars, wire>> /\ UNCHANGED userVars
        /\ BackToMenu /\ answer' = Idle
    BY <1>2 DEF CallFails
  <2> QED BY <2>1, BackToMenuKeeps, MemoryUntouched, EventsUntouched, UserUntouched
          DEF ClientInv, ClientTypeOK
<1> QED BY <1>1, <1>2, SendKeeps, ReceiptKeeps DEF EntryStep

\* What others and the listener do.
LEMMA OtherCallKeeps ==
  ASSUME ClientInv, StorageInv', NEW caller \in OtherAccounts, OtherCall(caller)
  PROVE  ClientInv'
<1>1. /\ UNCHANGED entryVars /\ UNCHANGED memoryVars /\ UNCHANGED userVars /\ UNCHANGED eventVars
      /\ wire' = wire \/ wire' = Append(wire, Verdicts)
  BY DEF OtherCall
<1>2. fulfilled' \subseteq OfferID /\ claimable' \subseteq OfferID
  BY DEF StorageInv, TypeOK, EscrowTypeOK
<1>3. Verdicts \in SUBSET Event
  <2>1. \A o \in OfferID : \A b \in BOOLEAN : [offerID |-> o, fulfilled |-> b] \in Event
    BY DEF Event
  <2> QED BY <1>2, <2>1, Zenon DEF Verdicts
<1>4. wire' \in Seq(SUBSET Event)
  BY <1>1, <1>3 DEF ClientInv, ClientTypeOK, EventsTypeOK
<1>5. EventsTypeOK'
  BY <1>1, <1>4 DEF ClientInv, ClientTypeOK, EventsTypeOK, eventVars
<1> QED BY <1>1, <1>5, EntryUntouched, MemoryUntouched, UserUntouched DEF ClientInv, ClientTypeOK

LEMMA HearEventKeeps ==
  ASSUME ClientInv, NEW event \in Event, HearEvent(event)
  PROVE  ClientInv'
<1>1. UNCHANGED entryVars /\ UNCHANGED memoryVars /\ UNCHANGED userVars
  BY DEF HearEvent
<1>2. wire \in Seq(SUBSET Event) /\ wire # << >>
  BY DEF HearEvent, ClientInv, ClientTypeOK, EventsTypeOK
<1>3. Tail(wire) \in Seq(SUBSET Event)
  BY <1>2
<1>4. wire[1] \in SUBSET Event
  BY <1>2
<1>5. [wire EXCEPT ![1] = @ \ {event}] \in Seq(SUBSET Event)
  BY <1>2, <1>4
<1>6. wire' \in Seq(SUBSET Event)
  BY <1>3, <1>5 DEF HearEvent
<1>7. event.offerID \in OfferID
  BY DEF Event
<1>8. /\ unseenOfferFulfilledEvents' \in Seq(OfferID)
      /\ unseenOfferUnFulfilledEvents' \in Seq(OfferID)
      /\ heard' \subseteq OfferID
  <2>1. \A list \in Seq(OfferID) : Append(list, event.offerID) \in Seq(OfferID)
    BY <1>7
  <2> QED BY <1>7, <2>1, Zenon DEF HearEvent, ClientInv, ClientTypeOK, EventsTypeOK
<1>9. EventsTypeOK'
  BY <1>6, <1>8 DEF EventsTypeOK
<1> QED BY <1>1, <1>9, EntryUntouched, MemoryUntouched, UserUntouched DEF ClientInv, ClientTypeOK

LEMMA ExitKeeps ==
  ASSUME ClientInv, Exit
  PROVE  ClientInv'
<1>1. BackToMenu /\ answer' = Idle
  BY DEF Exit
<1>2. MemoryTypeOK' /\ EventsTypeOK'
  BY DEF Exit, MemoryTypeOK, EventsTypeOK
<1>3. NodeAccounts[1] \in OwnAccounts
  <2>1. 1 \in DOMAIN NodeAccounts
    BY ClientAssumption
  <2> QED BY <2>1 DEF OwnAccounts
<1>4. (currentAccount \in OwnAccounts /\ sessions \in Nat)'
  BY <1>3 DEF Exit, ClientInv, ClientTypeOK
<1> QED BY <1>1, <1>2, <1>4, BackToMenuKeeps DEF ClientInv, ClientTypeOK

LEMMA NextClientInv ==
  ClientInv /\ StorageInv /\ [ClientNext]_<<vars, clientVars>> => ClientInv' /\ StorageInv'
<1> SUFFICES ASSUME ClientInv, StorageInv, [ClientNext]_<<vars, clientVars>>
             PROVE  ClientInv' /\ StorageInv'
  OBVIOUS
<1>1. StorageInv'
  <2>1. [Next]_vars
    BY ClientUsesContract
  <2> QED BY <2>1, NextStorageInv
<1>2. CASE UNCHANGED clientVars
  BY <1>1, <1>2, EntryUntouched, MemoryUntouched, EventsUntouched, UserUntouched
  DEF ClientInv, ClientTypeOK, clientVars
<1>3. CASE TimePasses
  BY <1>1, <1>2, <1>3 DEF TimePasses
<1> QED
  BY <1>1, <1>2, <1>3, MenuKeeps, EntryKeeps, OtherCallKeeps, HearEventKeeps, ExitKeeps
  DEF ClientNext

-----------------------------------------------------------------------------
(***************************************************************************)
(* Whatever the user types and whenever a call fails or a receipt is lost, *)
(* the variables of the demo have their types (main.ts:39).                *)
(***************************************************************************)
THEOREM ClientTypeCorrectness == ClientSpec => []ClientTypeOK
<1>1. ClientInit => ClientInv /\ StorageInv
  BY InitClientInv, InitStorageInv DEF ClientInit
<1>2. ClientInv /\ StorageInv /\ [ClientNext]_<<vars, clientVars>> => (ClientInv /\ StorageInv)'
  BY NextClientInv
<1>3. ClientInv => ClientTypeOK
  BY DEF ClientInv
<1> QED BY <1>1, <1>2, <1>3, PTL DEF ClientSpec

(***************************************************************************)
(* The demo and the other clients together use the contract as its own     *)
(* specification lets any account use it: every entry of the menu, receipt *)
(* and event is a call of the contract or leaves it alone.                 *)
(***************************************************************************)
THEOREM ClientUsesMarketplace == ClientSpec => Spec
<1>1. ClientInit => ClientInv /\ StorageInv /\ Init
  BY InitClientInv, InitStorageInv DEF ClientInit
<1>2. ClientInv /\ StorageInv /\ [ClientNext]_<<vars, clientVars>> => (ClientInv /\ StorageInv)'
  BY NextClientInv
<1>3. ClientInv /\ [ClientNext]_<<vars, clientVars>> => [Next]_vars
  BY ClientUsesContract
<1> QED BY <1>1, <1>2, <1>3, PTL DEF ClientSpec, Spec

(***************************************************************************)
(* So the money of the demo's offers goes where the reports say, whatever  *)
(* the demo, its user and the other clients do.                            *)
(***************************************************************************)
THEOREM ClientMoneyIsSafe == ClientSpec => [](Solvent /\ RightPartyPaid) /\ VerdictIsFinal
BY ClientUsesMarketplace, Solvency, RightParty, Finality, PTL

-----------------------------------------------------------------------------
(***************************************************************************)
(* What the demo remembers.                                                *)
(***************************************************************************)
LEMMA ElementsAppended ==
  ASSUME NEW S, NEW list \in Seq(S), NEW e \in S
  PROVE  Elements(Append(list, e)) = Elements(list) \cup {e}
<1>1. /\ DOMAIN Append(list, e) = 1 .. Len(list) + 1
      /\ DOMAIN list = 1 .. Len(list) /\ Len(list) \in Nat
      /\ \A i \in 1 .. Len(list) : Append(list, e)[i] = list[i]
      /\ Append(list, e)[Len(list) + 1] = e
  OBVIOUS
<1>2. 1 .. Len(list) + 1 = 1 .. Len(list) \cup {Len(list) + 1}
  BY <1>1, SMT
<1> QED BY <1>1, <1>2, Zenon DEF Elements

\* A list that can be read to its end is opened as a whole.
LEMMA ReadableIsOpened ==
  ASSUME NEW list \in Seq(OfferID), Readable(list, Len(list))
  PROVE  \A i \in DOMAIN list : Readable(list, i)
<1>1. Len(list) \in Nat /\ DOMAIN list = 1 .. Len(list)
  OBVIOUS
<1>2. \A n \in Nat : \A i \in 1 .. n : 1 .. i \subseteq 1 .. n
  BY SMT
<1> QED BY <1>1, <1>2, Zenon DEF Readable

LEMMA NextTokensStay ==
  ClientInv /\ TokensStayUntilOpened /\ [ClientNext]_<<vars, clientVars>> => TokensStayUntilOpened'
<1> SUFFICES ASSUME ClientInv, TokensStayUntilOpened, [ClientNext]_<<vars, clientVars>>
             PROVE  TokensStayUntilOpened'
  OBVIOUS
<1>1. unseenOfferFulfilledEvents \in Seq(OfferID)
  BY DEF ClientInv, ClientTypeOK, EventsTypeOK
<1>2. CASE CheckForOffersEvents
  <2>1. CASE Readable(unseenOfferFulfilledEvents, Len(unseenOfferFulfilledEvents))
    <3>1. \A i \in DOMAIN unseenOfferFulfilledEvents : Readable(unseenOfferFulfilledEvents, i)
      BY <1>1, <2>1, ReadableIsOpened
    <3>2. opened' = opened \cup Elements(unseenOfferFulfilledEvents)
      BY <1>2, <3>1, Zenon DEF CheckForOffersEvents, Elements
    <3>3. heard' = heard
      BY <1>2 DEF CheckForOffersEvents
    <3> QED BY <3>2, <3>3 DEF TokensStayUntilOpened
  <2>2. CASE ~Readable(unseenOfferFulfilledEvents, Len(unseenOfferFulfilledEvents))
    <3>1. UNCHANGED <<unseenOfferFulfilledEvents, heard>> /\ opened \subseteq opened'
      BY <1>2, <2>2 DEF CheckForOffersEvents
    <3> QED BY <3>1 DEF TokensStayUntilOpened
  <2> QED BY <2>1, <2>2
<1>3. ASSUME NEW event \in Event, HearEvent(event) PROVE TokensStayUntilOpened'
  <2>1. event.offerID \in OfferID /\ opened' = opened
    BY <1>3 DEF HearEvent, Event, memoryVars
  <2>2. CASE event.fulfilled
    <3>1. /\ unseenOfferFulfilledEvents' = Append(unseenOfferFulfilledEvents, event.offerID)
          /\ heard' = heard \cup {event.offerID}
      BY <1>3, <2>2 DEF HearEvent
    <3>2. Elements(unseenOfferFulfilledEvents')
            = Elements(unseenOfferFulfilledEvents) \cup {event.offerID}
      BY <1>1, <2>1, <3>1, ElementsAppended
    <3> QED BY <2>1, <3>1, <3>2 DEF TokensStayUntilOpened
  <2>3. CASE ~event.fulfilled
    BY <1>3, <2>1, <2>3 DEF HearEvent, TokensStayUntilOpened
  <2> QED BY <2>2, <2>3
<1>4. CASE Exit
  BY <1>4 DEF Exit, TokensStayUntilOpened
<1>5. ASSUME UNCHANGED <<heard, opened, unseenOfferFulfilledEvents>> PROVE TokensStayUntilOpened'
  BY <1>5 DEF TokensStayUntilOpened
<1>6. CASE UNCHANGED clientVars
  BY <1>5, <1>6 DEF clientVars, eventVars, memoryVars
<1>7. CASE TimePasses
  BY <1>5, <1>7 DEF TimePasses, clientVars, eventVars, memoryVars
<1>8. ASSUME NEW caller, OtherCall(caller) PROVE TokensStayUntilOpened'
  BY <1>5, <1>8 DEF OtherCall, eventVars, memoryVars
<1>9. CASE EntryStep
  BY <1>5, <1>9 DEF EntryStep, GetNewAccessToken, SendRequest, SendRequestExtra, SendOffer,
     SendOfferExtra, SendTestDecision, Sent, ReceiptArrives, ReceiptLost, CallFails, eventVars,
     memoryVars
<1>10. CASE Menu /\ ~CheckForOffersEvents
  BY <1>5, <1>10 DEF Menu, ChangeAccount, TriggerInterledger, HandleAuctionRequestCreation,
     HandleOfferCreation, Enter, HandleRequestClosing, HandleRequestDecision, HandleOfferSettlment,
     HandleCreatorClaim, clientVars, eventVars, memoryVars
<1> QED BY <1>2, <1>3, <1>4, <1>6, <1>7, <1>8, <1>9, <1>10 DEF ClientNext

(***************************************************************************)
(* A token that was heard of stays in the list until it was opened: only a *)
(* check that opened every token empties the list (main.ts:807), whatever  *)
(* arrives in the meantime.                                                *)
(***************************************************************************)
THEOREM TokensAreNotLost == ClientSpec => []TokensStayUntilOpened
<1>1. ClientInit => ClientInv /\ StorageInv /\ TokensStayUntilOpened
  BY InitClientInv, InitStorageInv DEF ClientInit, TokensStayUntilOpened
<1>2. /\ ClientInv /\ StorageInv /\ [ClientNext]_<<vars, clientVars>>
         => (ClientInv /\ StorageInv)'
      /\ ClientInv /\ TokensStayUntilOpened /\ [ClientNext]_<<vars, clientVars>>
         => TokensStayUntilOpened'
  BY NextClientInv, NextTokensStay
<1> QED BY <1>1, <1>2, PTL DEF ClientSpec

-----------------------------------------------------------------------------
(***************************************************************************)
(* The key pairs.  An offer is in memory as completed once its call was    *)
(* mined; its deal with the contract is then fixed.                        *)
(***************************************************************************)
AwaitsPaidOffer == answer # Idle /\ step = "submitOfferExtra"

KeysInv ==
  /\ keys \subseteq Bought
  /\ Bought \subseteq keys \cup unanswered \cup (IF AwaitsPaidOffer THEN {offerID} ELSE {})
  /\ AwaitsPaidOffer => offerID \in Bought

PayersInv ==
  \A o \in Bought : EscrowState[o] # "none" /\ escrowed[o].payer \in OwnAccounts

\* A deal is made once.
LEMMA DealsAreKept ==
  ASSUME IInv, [Next]_vars, NEW o \in OfferID, EscrowState[o] # "none"
  PROVE  EscrowState'[o] # "none" /\ escrowed'[o] = escrowed[o]
<1>1. [E!Next]_(E!vars) /\ E!Offer = OfferID
  BY NextIInv DEF EscrowStep, E!Offer, OfferID
<1>2. escrowed \in [OfferID -> E!Deal \cup {NoDeal}] /\ DOMAIN EscrowState = OfferID
  BY DEF IInv, StorageInv, TypeOK, EscrowTypeOK, EscrowState
<1> HIDE DEF EscrowState
<1>3. ASSUME NEW p \in OfferID, NEW d \in E!Deal, E!Deposit(p, d)
      PROVE  EscrowState'[o] # "none" /\ escrowed'[o] = escrowed[o]
  <2>1. p # o
    BY <1>3 DEF E!Deposit
  <2>2. escrowed' = [escrowed EXCEPT ![p] = d] /\ EscrowState' = [EscrowState EXCEPT ![p] = "held"]
    BY <1>3 DEF E!Deposit
  <2> QED BY <1>2, <2>1, <2>2
<1>4. ASSUME NEW p \in OfferID, E!PayOut(p)
      PROVE  EscrowState'[o] # "none" /\ escrowed'[o] = escrowed[o]
  <2>1. escrowed' = escrowed /\ EscrowState' = [EscrowState EXCEPT ![p] = "paid"]
    BY <1>4 DEF E!PayOut
  <2>2. EscrowState'[o] = IF o = p THEN "paid" ELSE EscrowState[o]
    BY <1>2, <2>1
  <2> QED BY <2>1, <2>2
<1>5. ASSUME NEW won, NEW lost, E!Resolve(won, lost)
      PROVE  EscrowState'[o] # "none" /\ escrowed'[o] = escrowed[o]
  <2>1. /\ escrowed' = escrowed
        /\ EscrowState' = [q \in OfferID |-> IF q \in won THEN "payable"
                              ELSE IF q \in lost THEN "refundable" ELSE EscrowState[q]]
    BY <1>1, <1>5 DEF E!Resolve
  <2>2. EscrowState'[o] \in {"payable", "refundable", EscrowState[o]}
    BY <2>1
  <2> QED BY <2>1, <2>2
<1>6. CASE UNCHANGED E!vars
  BY <1>6 DEF E!vars
<1> QED BY <1>1, <1>3, <1>4, <1>5, <1>6 DEF E!Next

\* Completing an offer fixes its deal with the account the demo acts for.
LEMMA OfferIsPaidByOwnAccount ==
  ASSUME ClientInv, IInv, SendOfferExtra
  PROVE  EscrowState'[offerID] # "none" /\ escrowed'[offerID].payer \in OwnAccounts
<1>1. Bidder \in OwnAccounts /\ offerID \in OfferID
  BY Accounts DEF SendOfferExtra, Sent, AtOffer, ClientInv, ClientTypeOK, EntryTypeOK
<1>2. PICK paid, extra : SubmitOfferArrayExtra(Bidder, offerID, extra, paid)
  BY DEF SendOfferExtra
<1>3. /\ escrowed' = [escrowed EXCEPT ![offerID] =
            [payer |-> Bidder, payee |-> requests[offers[offerID].requestID].requestMaker,
             amount |-> paid]]
      /\ pendingPayments' = [pendingPayments EXCEPT ![offerID] =
            [created |-> TRUE, resolved |-> FALSE, toReturn |-> TRUE, amount |-> paid]]
  BY <1>2 DEF SubmitOfferArrayExtra, RegisterPendingPayment
<1>4. /\ escrowed \in [OfferID -> E!Deal \cup {NoDeal}]
      /\ pendingPayments \in [OfferID -> Payment]
  BY DEF IInv, StorageInv, TypeOK, EscrowTypeOK
<1>5. escrowed'[offerID].payer = Bidder
  BY <1>1, <1>3, <1>4
<1>6. pendingPayments'[offerID].created /\ ~pendingPayments'[offerID].resolved
  BY <1>1, <1>3, <1>4
<1>7. EscrowState'[offerID] \in {"paid", "held"}
  BY <1>1, <1>6, Zenon DEF EscrowState, EscrowStateOf
<1> QED BY <1>1, <1>5, <1>7

\* Sending the last call of an offer puts it among the bought ones.
LEMMA SendOfferExtraKeys ==
  ASSUME ClientInv, KeysInv, SendOfferExtra
  PROVE  KeysInv' /\ Bought' = Bought \cup {offerID}
<1>1. Dates # NoDates /\ offerID \in OfferID
  BY DatesAreTyped DEF SendOfferExtra, Sent, AtOffer, ClientInv, ClientTypeOK, EntryTypeOK
<1>2. bought' = [bought EXCEPT ![offerID] = Dates] /\ DOMAIN bought = OfferID
  BY DEF SendOfferExtra, ClientInv, ClientTypeOK, MemoryTypeOK
<1>3. Bought' = Bought \cup {offerID}
  BY <1>1, <1>2 DEF Bought
<1>4. /\ answer = Idle /\ step = "submitOfferExtra" /\ answer' = offerID
      /\ UNCHANGED <<step, offerID, keys, unanswered>>
  BY DEF SendOfferExtra, Sent
<1>5. offerID # Idle
  <2>1. offerID \in Nat
    BY <1>1, MarketplaceAssumption DEF OfferID
  <2> QED BY <2>1, SMT DEF Idle
<1>6. ~AwaitsPaidOffer /\ AwaitsPaidOffer'
  BY <1>4, <1>5 DEF AwaitsPaidOffer
<1> QED BY <1>3, <1>4, <1>6 DEF KeysInv

\* The receipt brings the keys of the offer it is for; a lost one does not.
LEMMA ReceiptKeys ==
  ASSUME ClientInv, KeysInv, ReceiptArrives \/ ReceiptLost
  PROVE  KeysInv' /\ bought' = bought
<1>1. bought' = bought /\ Bought' = Bought /\ answer # Idle /\ answer' = Idle
  BY DEF ReceiptArrives, ReceiptLost, Bought
<1>2. CASE step = "submitOfferExtra"
  <2>1. AwaitsPaidOffer /\ ~AwaitsPaidOffer'
    BY <1>1, <1>2 DEF AwaitsPaidOffer
  <2>2. \/ keys' = keys \cup {offerID} /\ unanswered' = unanswered
        \/ keys' = keys /\ unanswered' = unanswered \cup {offerID}
    BY <1>2 DEF ReceiptArrives, ReceiptLost, KeepKeys
  <2> QED BY <1>1, <2>1, <2>2 DEF KeysInv
<1>3. CASE step # "submitOfferExtra"
  <2>1. ~AwaitsPaidOffer /\ ~AwaitsPaidOffer'
    BY <1>1, <1>3 DEF AwaitsPaidOffer
  <2>2. keys' = keys /\ unanswered' = unanswered
    BY <1>3 DEF ReceiptArrives, ReceiptLost, KeepKeys
  <2> QED BY <1>1, <2>1, <2>2 DEF KeysInv
<1> QED BY <1>1, <1>2, <1>3

LEMMA NextKeys ==
  ClientInv /\ KeysInv /\ [ClientNext]_<<vars, clientVars>> =>
    /\ KeysInv'
    /\ Bought' \subseteq Bought \/ (SendOfferExtra /\ Bought' = Bought \cup {offerID})
<1> SUFFICES ASSUME ClientInv, KeysInv, [ClientNext]_<<vars, clientVars>>
             PROVE  /\ KeysInv'
                    /\ Bought' \subseteq Bought
                       \/ (SendOfferExtra /\ Bought' = Bought \cup {offerID})
  OBVIOUS
<1> DEFINE Goal == /\ KeysInv'
                   /\ Bought' \subseteq Bought
                      \/ (SendOfferExtra /\ Bought' = Bought \cup {offerID})
<1>1. CASE SendOfferExtra
  BY <1>1, SendOfferExtraKeys
<1>2. CASE ReceiptArrives \/ ReceiptLost
  BY <1>2, ReceiptKeys DEF Bought
<1>3. ASSUME UNCHANGED <<keys, bought, unanswered>>, AwaitsPaidOffer' = AwaitsPaidOffer,
             AwaitsPaidOffer => offerID' = offerID
      PROVE  Goal
  <2>1. Bought' = Bought
    BY <1>3 DEF Bought
  <2> QED BY <1>3, <2>1 DEF KeysInv
<1>4. CASE Exit
  <2>1. bought' = [o \in OfferID |-> NoDates] /\ keys' = {} /\ answer' = Idle
    BY <1>4 DEF Exit
  <2>2. Bought' = {}
    BY <2>1 DEF Bought
  <2>3. ~AwaitsPaidOffer'
    BY <2>1 DEF AwaitsPaidOffer
  <2> QED BY <2>1, <2>2, <2>3 DEF KeysInv
<1>5. ASSUME UNCHANGED <<keys, bought, unanswered>>, UNCHANGED <<step, answer, offerID>>
      PROVE  Goal
  BY <1>3, <1>5 DEF AwaitsPaidOffer
<1>6. ASSUME UNCHANGED <<keys, bought, unanswered>>, answer = Idle, answer' = Idle
      PROVE  Goal
  BY <1>3, <1>6 DEF AwaitsPaidOffer
<1>7. CASE UNCHANGED clientVars
  BY <1>5, <1>7 DEF clientVars, entryVars, memoryVars
<1>8. CASE TimePasses
  BY <1>7, <1>8 DEF TimePasses
<1>9. ASSUME NEW caller, OtherCall(caller) PROVE Goal
  BY <1>5, <1>9 DEF OtherCall, entryVars, memoryVars
<1>10. ASSUME NEW event, HearEvent(event) PROVE Goal
  BY <1>5, <1>10 DEF HearEvent, entryVars, memoryVars
<1>11. CASE GetNewAccessToken
  <2>1. answer = Idle
    BY <1>11 DEF GetNewAccessToken, ClientInv, EntryInv
  <2> QED BY <1>6, <1>11, <2>1 DEF GetNewAccessToken, memoryVars
<1>12. CASE CallFails
  BY <1>6, <1>12 DEF CallFails, BackToMenu, memoryVars
<1>13. CASE SendRequest \/ SendRequestExtra \/ SendOffer \/ SendTestDecision
  <2>1. UNCHANGED <<keys, bought, unanswered, step, offerID>> /\ step # "submitOfferExtra"
    BY <1>13 DEF SendRequest, SendRequestExtra, SendOffer, SendTestDecision, Sent
  <2> QED BY <1>3, <2>1 DEF AwaitsPaidOffer
<1>14. CASE Menu
  <2>1. answer = Idle
    BY <1>14 DEF Menu, ChangeAccount, TriggerInterledger, HandleAuctionRequestCreation,
       HandleOfferCreation, Enter, HandleRequestClosing, HandleRequestDecision,
       HandleOfferSettlment, HandleCreatorClaim, CheckForOffersEvents, ClientInv, EntryInv
  <2>2. UNCHANGED <<keys, bought, unanswered, answer>>
    BY <1>14 DEF Menu, ChangeAccount, TriggerInterledger, HandleAuctionRequestCreation,
       HandleOfferCreation, Enter, HandleRequestClosing, HandleRequestDecision,
       HandleOfferSettlment, HandleCreatorClaim, CheckForOffersEvents, clientVars, entryVars,
       memoryVars
  <2> QED BY <1>6, <2>1, <2>2
<1> QED
  BY <1>1, <1>2, <1>4, <1>7, <1>8, <1>9, <1>10, <1>11, <1>12, <1>13, <1>14
  DEF ClientNext, EntryStep

LEMMA NextPayers ==
  ASSUME ClientInv, IInv, KeysInv, PayersInv, [ClientNext]_<<vars, clientVars>>
  PROVE  PayersInv'
<1>1. [Next]_vars
  BY ClientUsesContract
<1>2. \A o \in OfferID : EscrowState[o] # "none" =>
        EscrowState'[o] # "none" /\ escrowed'[o] = escrowed[o]
  BY <1>1, DealsAreKept
<1>3. ASSUME NEW o \in Bought PROVE EscrowState'[o] # "none" /\ escrowed'[o].payer \in OwnAccounts
  <2>1. o \in OfferID
    BY DEF Bought
  <2> QED BY <1>2, <2>1 DEF PayersInv
<1>4. Bought' \subseteq Bought \/ (SendOfferExtra /\ Bought' = Bought \cup {offerID})
  BY NextKeys
<1>5. CASE Bought' \subseteq Bought
  BY <1>3, <1>5 DEF PayersInv
<1>6. CASE SendOfferExtra /\ Bought' = Bought \cup {offerID}
  BY <1>3, <1>6, OfferIsPaidByOwnAccount DEF PayersInv
<1> QED BY <1>4, <1>5, <1>6

(***************************************************************************)
(* Every offer completed in a session was paid by an account of the user,  *)
(* and its keys are in memory unless the receipt of its last call is       *)
(* awaited or was lost (main.ts:519): whatever fails, keys are never kept  *)
(* for anything else.                                                      *)
(***************************************************************************)
THEOREM OffersCanBeRead == ClientSpec => []PaidOffersCanBeRead
<1>1. ClientInit => ClientInv /\ IInv /\ KeysInv /\ PayersInv
  <2> SUFFICES ASSUME ClientInit PROVE ClientInv /\ IInv /\ KeysInv /\ PayersInv
    OBVIOUS
  <2>1. ClientInv /\ IInv
    BY InitClientInv, InitIInv DEF ClientInit
  <2>2. Bought = {} /\ keys = {} /\ ~AwaitsPaidOffer
    BY DEF ClientInit, Bought, AwaitsPaidOffer
  <2> QED BY <2>1, <2>2 DEF KeysInv, PayersInv
<1>2. ClientInv /\ IInv /\ KeysInv /\ PayersInv /\ [ClientNext]_<<vars, clientVars>>
        => (ClientInv /\ IInv /\ KeysInv /\ PayersInv)'
  <2> SUFFICES ASSUME ClientInv, IInv, KeysInv, PayersInv, [ClientNext]_<<vars, clientVars>>
               PROVE  (ClientInv /\ IInv /\ KeysInv /\ PayersInv)'
    OBVIOUS
  <2>1. ClientInv'
    BY NextClientInv DEF IInv
  <2>2. IInv'
    BY ClientUsesContract, NextIInv
  <2>3. KeysInv' /\ PayersInv'
    BY NextKeys, NextPayers
  <2> QED BY <2>1, <2>2, <2>3
<1>3. KeysInv /\ PayersInv => PaidOffersCanBeRead
  BY DEF KeysInv, PayersInv, PaidOffersCanBeRead, AwaitsPaidOffer
<1> QED BY <1>1, <1>2, <1>3, PTL DEF ClientSpec

-----------------------------------------------------------------------------
(***************************************************************************)
(* The rents.  What an offer was completed for stays, and is what its      *)
(* dates come to in whole minutes.                                         *)
(***************************************************************************)
DatesInv ==
  \A o \in Bought :
    /\ offersExtra[o].startOfRentTime = bought[o].start
    /\ offersExtra[o].duration = AsWord(DistanceInMinutes(bought[o].start, bought[o].end))
    /\ offers[o].isDefined => offers[o].offStage = "Open"

LEMMA Ceiling ==
  ASSUME NEW d \in Int, NEW s \in Nat \ {0}
  PROVE  LET m == (d + s - 1) \div s
         IN  m \in Int /\ d <= m * s /\ m * s <= d + s - 1 /\ (d \in Nat => m \in Nat)
OBVIOUS

\* Arithmetic in words: what wraps around may be taken at any step.
LEMMA RemainderIsUnique ==
  ASSUME NEW w \in Nat \ {0}, NEW q \in Int, NEW r \in Int, 0 <= r, r < w
  PROVE  (w * q + r) % w = r
<1> DEFINE n == w * q + r
           p == n \div w
           t == n % w
<1>1. n \in Int
  OBVIOUS
<1>2. p \in Int /\ t \in Int /\ n = w * p + t /\ 0 <= t /\ t < w
  <2> HIDE DEF n
  <2> QED BY <1>1
<1>3. w * p + t = w * q + r
  BY <1>2
<1> HIDE DEF n, p, t
<1>4. ~(p < q)
  <2> SUFFICES ASSUME p < q PROVE FALSE
    OBVIOUS
  <2>1. p + 1 <= q
    BY <1>2
  <2>2. w * (p + 1) <= w * q
    BY <1>2, <2>1
  <2>3. w * (p + 1) = w * p + w
    BY <1>2
  <2> QED BY <1>2, <1>3, <2>2, <2>3
<1>5. ~(q < p)
  <2> SUFFICES ASSUME q < p PROVE FALSE
    OBVIOUS
  <2>1. q + 1 <= p
    BY <1>2
  <2>2. w * (q + 1) <= w * p
    BY <1>2, <2>1
  <2>3. w * (q + 1) = w * q + w
    BY <1>2
  <2> QED BY <1>2, <1>3, <2>2, <2>3
<1>6. p = q
  BY <1>2, <1>4, <1>5
<1> QED BY <1>2, <1>3, <1>6 DEF n, t

LEMMA WholeWords ==
  ASSUME NEW w \in Nat \ {0}, NEW x \in Int, NEW k \in Int
  PROVE  (x + w * k) % w = x % w
<1> DEFINE q == x \div w
           r == x % w
<1>1. q \in Int /\ r \in Int /\ x = w * q + r /\ 0 <= r /\ r < w
  OBVIOUS
<1> HIDE DEF q, r
<1>2. x + w * k = w * (q + k) + r /\ q + k \in Int
  BY <1>1
<1>3. (w * (q + k) + r) % w = r
  BY <1>1, <1>2, RemainderIsUnique
<1> QED BY <1>2, <1>3 DEF r

LEMMA WrappedSum ==
  ASSUME NEW w \in Nat \ {0}, NEW a \in Int, NEW x \in Int
  PROVE  (a + (x % w)) % w = (a + x) % w
<1> DEFINE q == x \div w
           r == x % w
<1>1. q \in Int /\ r \in Int /\ x = w * q + r
  OBVIOUS
<1> HIDE DEF q, r
<1>2. a + x = (a + r) + w * q /\ a + r \in Int
  BY <1>1
<1>3. ((a + r) + w * q) % w = (a + r) % w
  BY <1>1, <1>2, WholeWords
<1> QED BY <1>2, <1>3 DEF r

LEMMA WrappedProduct ==
  ASSUME NEW w \in Nat \ {0}, NEW m \in Int, NEW s \in Int
  PROVE  ((m % w) * s) % w = (m * s) % w
<1> DEFINE q == m \div w
           r == m % w
<1>1. q \in Int /\ r \in Int /\ m = w * q + r
  OBVIOUS
<1> HIDE DEF q, r
<1>2. m * s = r * s + w * (q * s) /\ r * s \in Int /\ q * s \in Int
  BY <1>1
<1>3. (r * s + w * (q * s)) % w = (r * s) % w
  BY <1>1, <1>2, WholeWords
<1> QED BY <1>2, <1>3 DEF r
LEMMA SmallWords ==
  ASSUME NEW n \in Nat
  PROVE  /\ n < WordSize => n % WordSize = n
         /\ n % WordSize <= n
BY PricingAssumption

\* A paid offer is not completed again, and keeps its extra when it is deleted.
LEMMA PaidOffersStay ==
  ASSUME LedgerInv, [Next]_vars, NEW o \in OfferID, EscrowState[o] # "none",
         offers[o].isDefined => offers[o].offStage = "Open"
  PROVE  /\ offersExtra'[o] = offersExtra[o]
         /\ offers'[o].isDefined => offers'[o].offStage = "Open"
<1>1. StorageInv /\ LifeInv /\ PaymentsInv
  BY DEF LedgerInv, IInv, MoneyInv, ResolvedInv
<1>2. pendingPayments[o].created \/ cashedOut[o] # NoAccount
  BY DEF EscrowState, EscrowStateOf
<1>3. /\ ~(o >= offNum)
      /\ ~(offers[o].isDefined /\ offers[o].offStage = "Pending")
  BY <1>1, <1>2 DEF PaymentsInv
<1>4. CASE OffersKept
  BY <1>3, <1>4, ZeroesType DEF OffersKept
<1>5. ASSUME NEW p \in OfferID, CompletesOffer(p)
      PROVE  offersExtra'[o] = offersExtra[o] /\ offers'[o] = offers[o]
  BY <1>1, <1>3, <1>5, CompletedOffer
<1> QED BY <1>1, <1>4, <1>5, StepGoesOn

LEMMA BoughtGoesOn ==
  ASSUME ClientInv, [ClientNext]_<<vars, clientVars>>, ~SendOfferExtra
  PROVE  bought' = bought \/ Bought' = {}
<1>1. CASE Exit
  <2>1. bought' = [o \in OfferID |-> NoDates]
    BY <1>1 DEF Exit
  <2> QED BY <2>1 DEF Bought
<1>2. CASE UNCHANGED clientVars \/ TimePasses
  BY <1>2 DEF TimePasses, clientVars, memoryVars
<1>3. ASSUME NEW caller, OtherCall(caller) PROVE bought' = bought
  BY <1>3 DEF OtherCall, memoryVars
<1>4. ASSUME NEW event, HearEvent(event) PROVE bought' = bought
  BY <1>4 DEF HearEvent, memoryVars
<1>5. CASE EntryStep
  BY <1>5 DEF EntryStep, GetNewAccessToken, SendRequest, SendRequestExtra, SendOffer,
     SendTestDecision, ReceiptArrives, ReceiptLost, CallFails, memoryVars
<1>6. CASE Menu
  BY <1>6 DEF Menu, ChangeAccount, TriggerInterledger, HandleAuctionRequestCreation,
     HandleOfferCreation, Enter, HandleRequestClosing, HandleRequestDecision,
     HandleOfferSettlment, HandleCreatorClaim, CheckForOffersEvents, clientVars, memoryVars
<1> QED BY <1>1, <1>2, <1>3, <1>4, <1>5, <1>6 DEF ClientNext

\* The contract stores what the demo made of the dates.
LEMMA SentDates ==
  ASSUME ClientInv, LedgerInv, SendOfferExtra
  PROVE  /\ bought' = [bought EXCEPT ![offerID] = Dates]
         /\ offersExtra'[offerID].startOfRentTime = Dates.start
         /\ offersExtra'[offerID].duration = AsWord(DistanceInMinutes(Dates.start, Dates.end))
         /\ offers'[offerID].offStage = "Open"
<1>1. offerID \in OfferID
  BY DEF ClientInv, ClientTypeOK, EntryTypeOK
<1> DEFINE extra == OfferExtraOf(Dates, EncryptionKey)
           offerExtra == OfferExtraFromRawArray(extra, Dates.price)
<1>2. SubmitOfferArrayExtra(Bidder, offerID, extra, Dates.price)
      /\ bought' = [bought EXCEPT ![offerID] = Dates]
  BY DEF SendOfferExtra
<1>3. /\ offersExtra' = [offersExtra EXCEPT ![offerID] = offerExtra]
      /\ offers' = [offers EXCEPT ![offerID] = [offers[offerID] EXCEPT !.offStage = "Open"]]
  BY <1>2 DEF SubmitOfferArrayExtra
<1>4. extra[1] = Dates.start /\ extra[2] = AsWord(DistanceInMinutes(Dates.start, Dates.end))
  BY DEF OfferExtraOf
<1>5. offerExtra.startOfRentTime = extra[1] /\ offerExtra.duration = extra[2]
  BY DEF OfferExtraFromRawArray
<1> HIDE DEF extra, offerExtra
<1>6. offers \in [OfferID -> Offer] /\ DOMAIN offersExtra = OfferID
  BY DEF LedgerInv, IInv, StorageInv, TypeOK, OffersTypeOK
<1>7. offersExtra'[offerID] = offerExtra /\ offers'[offerID].offStage = "Open"
  BY <1>1, <1>3, <1>6 DEF Offer
<1> QED BY <1>2, <1>4, <1>5, <1>7

LEMMA NextDates ==
  ASSUME ClientInv, LedgerInv, PayersInv, DatesInv, [ClientNext]_<<vars, clientVars>>
  PROVE  DatesInv'
<1>1. [Next]_vars
  BY ClientUsesContract
<1>2. ASSUME NEW o \in Bought
      PROVE  /\ offersExtra'[o] = offersExtra[o]
             /\ offers'[o].isDefined => offers'[o].offStage = "Open"
  <2>1. o \in OfferID
    BY DEF Bought
  <2> QED BY <1>1, <2>1, PaidOffersStay DEF PayersInv, DatesInv
<1>3. CASE bought' = bought
  <2>1. Bought' = Bought
    BY <1>3 DEF Bought
  <2> QED BY <1>2, <1>3, <2>1 DEF DatesInv
<1>4. CASE Bought' = {}
  BY <1>4 DEF DatesInv
<1>5. CASE SendOfferExtra
  <2>1. bought' = [bought EXCEPT ![offerID] = Dates] /\ DOMAIN bought = OfferID
        /\ offerID \in OfferID
    BY <1>5, SentDates DEF ClientInv, ClientTypeOK, MemoryTypeOK, EntryTypeOK
  <2>2. bought'[offerID] = Dates /\ \A o \in OfferID \ {offerID} : bought'[o] = bought[o]
    BY <2>1
  <2>3. \A o \in Bought' : o = offerID \/ (o \in Bought /\ bought'[o] = bought[o])
    BY <2>2 DEF Bought
  <2> QED BY <1>2, <1>5, <2>2, <2>3, SentDates DEF DatesInv
<1> QED BY <1>3, <1>4, <1>5, BoughtGoesOn

\* The end of a rent the contract reckons is the end typed, rounded up.
LEMMA TypedEnd ==
  ASSUME NEW start \in Nat, NEW end \in Nat, end + SecondsPerMinute <= WordSize, NEW extra,
         extra.startOfRentTime = start, extra.duration = AsWord(DistanceInMinutes(start, end))
  PROVE  /\ EndOfRent(extra) \in end .. end + SecondsPerMinute - 1
         /\ start <= end => EndOfRent(extra) = start + extra.duration * SecondsPerMinute
<1> DEFINE W == WordSize
           S == SecondsPerMinute
           m == DistanceInMinutes(start, end)
           e == start + m * S
<1>1. W \in Nat \ {0} /\ S \in Nat \ {0}
  BY PricingAssumption
<1>2. /\ m \in Int /\ end - start <= m * S /\ m * S <= end - start + S - 1
      /\ start <= end => m \in Nat
  <2>1. end - start \in Int /\ (start <= end => end - start \in Nat)
    OBVIOUS
  <2> QED BY <1>1, <2>1, Ceiling, Zenon DEF DistanceInMinutes
<1> HIDE DEF m
<1>3. m * S \in Int
  BY <1>1, <1>2
<1>4. e \in end .. end + S - 1 /\ e \in Nat /\ e < W
  BY <1>1, <1>2, <1>3
<1>5. EndOfRent(extra) = e
  <2>1. extra.duration = m % W
    BY DEF AsWord, m
  <2>2. Times(m % W, S) = ((m % W) * S) % W
    BY DEF Times
  <2>3. EndOfRent(extra) = Plus(start, Times(m % W, S))
    BY <2>1 DEF EndOfRent
  <2>4. \A n : Plus(start, n) = (start + n) % W
    BY DEF Plus
  <2>5. ((m % W) * S) % W = (m * S) % W
    <3>1. W \in Nat \ {0} /\ m \in Int /\ S \in Int
      BY <1>1, <1>2
    <3> QED BY <3>1, WrappedProduct, Zenon
  <2>6. (start + ((m * S) % W)) % W = e % W
    <3>1. W \in Nat \ {0} /\ start \in Int /\ m * S \in Int
      BY <1>1, <1>3
    <3> QED BY <3>1, WrappedSum, Zenon
  <2>7. e % W = e
    BY <1>4, SmallWords
  <2> HIDE DEF e
  <2> QED BY <2>2, <2>3, <2>4, <2>5, <2>6, <2>7
<1>6. ASSUME start <= end PROVE start + extra.duration * S = e
  <2>1. m \in Nat /\ m <= m * S /\ m * S <= e
    BY <1>1, <1>2, <1>3, <1>6
  <2>2. m < W
    BY <1>1, <1>3, <1>4, <2>1
  <2>3. extra.duration = m
    BY <2>1, <2>2, SmallWords DEF AsWord, m
  <2> QED BY <2>3
<1> QED BY <1>4, <1>5, <1>6

LEMMA DatesAreKept ==
  ASSUME ClientInv, LedgerInv, DatesInv
  PROVE  RentKeepsTypedDates
<1> SUFFICES ASSUME NEW o \in Bought
             PROVE  LET extra   == offersExtra[o]
                        request == requestsExtra[offers[o].requestID]
                    IN  /\ extra.startOfRentTime = bought[o].start
                        /\ EndOfRent(extra) \in bought[o].end .. bought[o].end + SecondsPerMinute - 1
                        /\ bought[o].start <= bought[o].end =>
                             EndOfRent(extra)
                               = extra.startOfRentTime + extra.duration * SecondsPerMinute
                        /\ offers[o].isDefined =>
                             /\ request.startOfRentTime <= bought[o].start
                             /\ bought[o].end <= EndOfRent(request)
  BY DEF RentKeepsTypedDates
<1> DEFINE extra   == offersExtra[o]
           request == requestsExtra[offers[o].requestID]
           start   == bought[o].start
           end     == bought[o].end
<1>1. o \in OfferID /\ bought[o] \in TypedDates
  BY DEF Bought, ClientInv, ClientTypeOK, MemoryTypeOK, TypedDates
<1>2. start \in Nat /\ end \in Nat /\ end + SecondsPerMinute <= WordSize
  <2>1. bought[o] \in OfferForm /\ end + SecondsPerMinute <= WordSize
    BY <1>1, ClientAssumption DEF TypedDates
  <2> QED BY <2>1 DEF OfferForm
<1>3. extra.startOfRentTime = start /\ extra.duration = AsWord(DistanceInMinutes(start, end))
  BY DEF DatesInv
<1>4. /\ EndOfRent(extra) \in end .. end + SecondsPerMinute - 1
      /\ start <= end => EndOfRent(extra) = start + extra.duration * SecondsPerMinute
  <2> HIDE DEF extra, start, end
  <2> QED BY <1>2, <1>3, TypedEnd
<1>5. ASSUME offers[o].isDefined
      PROVE  request.startOfRentTime <= start /\ end <= EndOfRent(request)
  <2>1. request \in RequestExtra /\ OfferFitsRequest(request, extra)
    BY <1>1, <1>5 DEF DatesInv, LedgerInv, BookingInv, OffersAreAcceptable, OfferIsAcceptable
  <2>2. request.startOfRentTime \in Nat /\ request.duration \in Nat
    BY <2>1, PricingAssumption DEF RequestExtra, Word
  <2>3. request.startOfRentTime <= start /\ EndOfRent(extra) <= EndOfRent(request)
    BY <1>2, <1>3, <2>1, <2>2 DEF OfferFitsRequest
  <2>4. EndOfRent(request) \in Nat
    <3> DEFINE n == request.startOfRentTime + ((request.duration * SecondsPerMinute) % WordSize)
    <3>1. SecondsPerMinute \in Nat \ {0} /\ WordSize \in Nat \ {0}
      BY PricingAssumption
    <3>2. n \in Nat
      BY <2>2, <3>1
    <3>3. EndOfRent(request) = n % WordSize
      BY DEF EndOfRent, Plus, Times
    <3> HIDE DEF n
    <3> QED BY <3>1, <3>2, <3>3
  <2>5. EndOfRent(extra) \in Nat /\ end <= EndOfRent(extra)
    <3> HIDE DEF extra, start, end
    <3> QED BY <1>2, <1>4, PricingAssumption
  <2> HIDE DEF extra, request, start, end
  <2> QED BY <1>2, <2>3, <2>4, <2>5
<1> QED BY <1>3, <1>4, <1>5, Zenon

(***************************************************************************)
(* The rent of a completed offer starts and ends, as the contract reckons  *)
(* in words, when the user typed, by less than a minute too late           *)
(* (utils.ts:147), in whatever order the dates were typed; in the right    *)
(* order nothing wraps around.  And its dates lie between the ends of its  *)
(* request.                                                                *)
(***************************************************************************)
THEOREM RentsKeepTypedDates == ClientSpec => []RentKeepsTypedDates
<1> DEFINE Inv == ClientInv /\ LedgerInv /\ KeysInv /\ PayersInv /\ DatesInv
<1>1. ClientInit => Inv
  <2> SUFFICES ASSUME ClientInit PROVE Inv
    OBVIOUS
  <2>1. ClientInv /\ LedgerInv
    BY InitClientInv, LedgerInvariance DEF ClientInit
  <2>2. Bought = {} /\ keys = {} /\ ~AwaitsPaidOffer
    BY DEF ClientInit, Bought, AwaitsPaidOffer
  <2> QED BY <2>1, <2>2 DEF KeysInv, PayersInv, DatesInv
<1>2. Inv /\ [ClientNext]_<<vars, clientVars>> => Inv'
  <2> SUFFICES ASSUME Inv, [ClientNext]_<<vars, clientVars>> PROVE Inv'
    OBVIOUS
  <2>1. IInv /\ StorageInv
    BY DEF LedgerInv, IInv
  <2>2. ClientInv'
    BY <2>1, NextClientInv
  <2>3. LedgerInv'
    BY ClientUsesContract, LedgerInvariance
  <2>4. KeysInv' /\ PayersInv' /\ DatesInv'
    BY <2>1, NextKeys, NextPayers, NextDates
  <2> QED BY <2>2, <2>3, <2>4
<1>3. Inv => RentKeepsTypedDates
  BY DatesAreKept
<1> QED BY <1>1, <1>2, <1>3, PTL DEF ClientSpec

-----------------------------------------------------------------------------
(***************************************************************************)
(* The test entry.  Only who made a request deletes it, and the demo never *)
(* does, so what the entry has got so far stays until its decision.        *)
(***************************************************************************)
Protected(r) == requests[r].isDefined /\ requests[r].requestMaker \in OwnAccounts
OfTest(o)    == offers[o].isDefined /\ offers[o].requestID = requestID

AfterRequest == step \in {"submitRequestExtra", "submitOffer", "submitOfferExtra", "decideRequest"}

\* What a receipt on its way will name.
AnswerInv ==
  answer # Idle =>
    /\ step = "submitRequest" => Protected(answer)
    /\ step = "submitOffer" => OfTest(answer) /\ answer \notin Elements(testOffers)
    /\ step = "submitOfferExtra" => offers[offerID].offStage = "Open"

ProgressInv ==
  /\ AfterRequest => Protected(requestID)
  /\ step = "submitOfferExtra" => OfTest(offerID) /\ offerID \notin Elements(testOffers)

TestOffersInv ==
  /\ \A o \in Elements(testOffers) : OfTest(o) /\ offers[o].offStage = "Open" /\ o \in keys
  /\ \A i, j \in DOMAIN testOffers : testOffers[i] = testOffers[j] => i = j

TestInv ==
  /\ step = "decideRequest" => testing
  /\ testing => AnswerInv /\ ProgressInv /\ TestOffersInv

\* What a call that deletes nothing leaves of requests and offers.
NothingDeleted ==
  /\ \A r \in RequestID : requests[r].isDefined =>
       requests'[r].isDefined /\ requests'[r].requestMaker = requests[r].requestMaker
  /\ \A o \in OfferID : offers[o].isDefined =>
       /\ offers'[o].isDefined /\ offers'[o].requestID = offers[o].requestID
       /\ offers[o].offStage = "Open" => offers'[o].offStage = "Open"

LEMMA KeepingCallKeeps ==
  ASSUME StorageInv, LifeInv, NEW caller \in Account, KeepingCall(caller) \/ RoleCall(caller)
  PROVE  NothingDeleted
<1>1. /\ requests \in [RequestID -> Request] /\ offers \in [OfferID -> Offer]
      /\ reqNum \in Nat /\ offNum \in Nat /\ block \in Nat
  BY DEF StorageInv, TypeOK, RequestsTypeOK, OffersTypeOK
<1>2. ASSUME UNCHANGED <<requests, offers>> PROVE NothingDeleted
  BY <1>2 DEF NothingDeleted
<1>3. ASSUME UNCHANGED offers, NEW r \in RequestID,
             \/ ~requests[r].isDefined
             \/ requests'[r].isDefined /\ requests'[r].requestMaker = requests[r].requestMaker,
             \A q \in RequestID \ {r} : requests'[q] = requests[q]
      PROVE  NothingDeleted
  BY <1>3 DEF NothingDeleted
<1>4. ASSUME NEW t \in Token, NEW signer \in Account, NEW deadline \in Deadlines,
             SubmitAuthorisedRequest(caller, t, signer, deadline)
      PROVE  NothingDeleted
  <2>1. reqNum \in RequestID /\ requests[reqNum] = NoRequest
    BY <1>1, <1>4 DEF SubmitAuthorisedRequest, StorageInv, RequestsInv
  <2>2. ~requests[reqNum].isDefined /\ UNCHANGED offers
        /\ \A q \in RequestID \ {reqNum} : requests'[q] = requests[q]
    BY <1>1, <1>4, <2>1 DEF SubmitAuthorisedRequest, NoRequest, offerVars
  <2> QED BY <1>3, <2>1, <2>2
<1>5. ASSUME NEW r \in RequestID, NEW extra \in RequestExtraInputs,
             SubmitRequestArrayExtra(caller, r, extra)
      PROVE  NothingDeleted
  <2>1. /\ requests'[r].isDefined = requests[r].isDefined
        /\ requests'[r].requestMaker = requests[r].requestMaker
        /\ \A q \in RequestID \ {r} : requests'[q] = requests[q]
        /\ UNCHANGED offers
    BY <1>1, <1>5 DEF SubmitRequestArrayExtra, Request, offerVars
  <2> QED BY <1>3, <2>1
<1>6. ASSUME NEW r \in RequestID, CloseRequest(caller, r) PROVE NothingDeleted
  <2>1. requests' = [requests EXCEPT ![r] =
                       [requests[r] EXCEPT !.reqStage = "Closed", !.closingBlock = block]]
        /\ UNCHANGED offers
    BY <1>6 DEF CloseRequest, offerVars
  <2>2. /\ requests'[r].isDefined = requests[r].isDefined
        /\ requests'[r].requestMaker = requests[r].requestMaker
        /\ \A q \in RequestID \ {r} : requests'[q] = requests[q]
    BY <1>1, <2>1 DEF Request
  <2> QED BY <1>3, <2>1, <2>2
<1>7. ASSUME NEW r \in RequestID, NEW list, NEW extras, DecideRequestInsecure(r, list, extras)
      PROVE  /\ requests'[r].isDefined = requests[r].isDefined
             /\ requests'[r].requestMaker = requests[r].requestMaker
             /\ \A q \in RequestID \ {r} : requests'[q] = requests[q]
  <2>1. requests' = [requests EXCEPT ![r] =
                       [requests[r] EXCEPT !.reqStage = "Closed", !.closingBlock = block,
                                           !.isDecided = TRUE, !.acceptedOfferIDs = list]]
    BY <1>7 DEF DecideRequestInsecure
  <2> QED BY <1>1, <2>1 DEF Request
<1>8. ASSUME NEW r \in RequestID, NEW list \in OfferLists, DecideRequest(caller, r, list)
      PROVE  NothingDeleted
  BY <1>3, <1>7, <1>8 DEF DecideRequest, offerVars
<1>9. ASSUME NEW r \in RequestID, SubmitOffer(caller, r) PROVE NothingDeleted
  <2>1. offNum \in OfferID /\ offers[offNum] = NoOffer /\ UNCHANGED requests
    BY <1>1, <1>9 DEF SubmitOffer, StorageInv, OffersInv, requestVars
  <2>2. ~offers[offNum].isDefined /\ \A o \in OfferID \ {offNum} : offers'[o] = offers[o]
    BY <1>1, <1>9, <2>1 DEF SubmitOffer, NoOffer
  <2> QED BY <2>1, <2>2 DEF NothingDeleted
<1>10. ASSUME NEW o \in OfferID, NEW extra \in OfferExtraInputs, NEW paid \in Payments,
              SubmitOfferArrayExtra(caller, o, extra, paid)
       PROVE  NothingDeleted
  <2>1. offers[o].requestID \in RequestID
    BY <1>1 DEF Offer
  <2>2. CompletesOffer(o)
    BY <1>10 DEF CompletesOffer
  <2>3. \A p \in OfferID : /\ offers'[p].isDefined = offers[p].isDefined
                           /\ offers'[p].requestID = offers[p].requestID
                           /\ offers[p].offStage = "Open" => offers'[p].offStage = "Open"
    BY <2>2, CompletedOffer
  <2>4. requests' = requests
        \/ \E extras : DecideRequestInsecure(offers[o].requestID, <<o>>, extras)
    BY <1>10 DEF SubmitOfferArrayExtra
  <2>5. \A r \in RequestID : /\ requests'[r].isDefined = requests[r].isDefined
                             /\ requests'[r].requestMaker = requests[r].requestMaker
    BY <1>7, <2>1, <2>4
  <2> QED BY <2>3, <2>5 DEF NothingDeleted
<1>11. CASE OfferCall(caller)
  BY <1>2, <1>9, <1>10, <1>11 DEF OfferCall, SettleTrade, Withdraw, requestVars, offerVars
<1>12. CASE RoleCall(caller)
  BY <1>2, <1>12 DEF RoleCall, InterledgerReceive, ResetAccessTokens, AddManager, RevokeManagerCert,
     ChangeOwner, TransferOwnership, RenounceOwnership, ChangeRoles, requestVars, offerVars
<1> QED BY <1>4, <1>5, <1>6, <1>8, <1>11, <1>12 DEF KeepingCall

\* What belongs to the user's requests stays, whoever does the step.
LEMMA ProtectedStay ==
  ASSUME ClientInv, StorageInv, LifeInv, [ClientNext]_<<vars, clientVars>>
  PROVE  /\ \A r \in RequestID : Protected(r) =>
              requests'[r].isDefined /\ requests'[r].requestMaker \in OwnAccounts
         /\ \A o \in OfferID : (offers[o].isDefined /\ Protected(offers[o].requestID)) =>
              /\ offers'[o].isDefined /\ offers'[o].requestID = offers[o].requestID
              /\ offers[o].offStage = "Open" => offers'[o].offStage = "Open"
<1> DEFINE Goal ==
      /\ \A r \in RequestID : Protected(r) =>
           requests'[r].isDefined /\ requests'[r].requestMaker \in OwnAccounts
      /\ \A o \in OfferID : (offers[o].isDefined /\ Protected(offers[o].requestID)) =>
           /\ offers'[o].isDefined /\ offers'[o].requestID = offers[o].requestID
           /\ offers[o].offStage = "Open" => offers'[o].offStage = "Open"
<1>1. requests \in [RequestID -> Request] /\ offers \in [OfferID -> Offer]
  BY DEF StorageInv, TypeOK, RequestsTypeOK, OffersTypeOK
<1>2. ASSUME NothingDeleted PROVE Goal
  BY <1>2 DEF NothingDeleted, Protected
<1>3. ASSUME UNCHANGED <<requests, offers>> PROVE Goal
  BY <1>2, <1>3 DEF NothingDeleted
<1>4. ASSUME KeepingStep PROVE Goal
  BY <1>2, <1>3, <1>4, KeepingCallKeeps DEF KeepingStep, vars, requestVars, offerVars
<1>5. ASSUME NEW caller \in OtherAccounts, OtherCall(caller) PROVE Goal
  <2>1. caller \in Account /\ caller \notin OwnAccounts /\ ListForms \subseteq OfferLists
    BY ClientAssumption
  <2>2. CASE \E r \in RequestID : DeleteRequest(caller, r)
    <3>1. PICK r \in RequestID : DeleteRequest(caller, r)
      BY <2>2
    <3>2. ~Protected(r) /\ \A q \in RequestID \ {r} : requests'[q] = requests[q]
      BY <1>1, <2>1, <3>1 DEF DeleteRequest, IsRequestCreator, Protected
    <3>3. \A o \in OfferID : offers[o].requestID # r => offers'[o] = offers[o]
      BY <1>1, <3>1 DEF DeleteRequest
    <3>4. \A q \in RequestID : Protected(q) => q # r
      BY <3>2
    <3>5. \A o \in OfferID : Protected(offers[o].requestID) => offers[o].requestID # r
      BY <3>2
    <3> QED BY <3>2, <3>3, <3>4, <3>5 DEF Protected
  <2>3. CASE KeepingCall(caller) \/ RoleCall(caller)
    BY <1>2, <2>1, <2>3, KeepingCallKeeps
  <2>4. \/ \E r \in RequestID : DeleteRequest(caller, r)
        \/ KeepingCall(caller) \/ RoleCall(caller)
    BY <1>5, <2>1 DEF OtherCall, RequestCall, OfferCall, RoleCall, KeepingCall
  <2> QED BY <2>2, <2>3, <2>4
<1>6. ASSUME TimePasses PROVE Goal
  BY <1>3, <1>6 DEF TimePasses, Tick, requestVars, offerVars
<1>7. ASSUME NEW event \in Event, HearEvent(event) PROVE Goal
  BY <1>3, <1>7 DEF HearEvent, vars, requestVars, offerVars
<1>8. ASSUME Exit PROVE Goal
  BY <1>3, <1>8 DEF Exit, vars, requestVars, offerVars
<1>9. ASSUME UNCHANGED <<vars, clientVars>> PROVE Goal
  BY <1>3, <1>9 DEF vars, requestVars, offerVars
<1> HIDE DEF Goal
<1>10. Goal
  BY <1>4, <1>5, <1>6, <1>7, <1>8, <1>9, MenuUsesContract, EntryUsesContract DEF ClientNext
<1> QED BY <1>10 DEF Goal

\* The entry stays where it is while others, or nobody, do a call.
LEMMA TestStays ==
  ASSUME ClientInv, StorageInv, LifeInv, TestInv, [ClientNext]_<<vars, clientVars>>,
         UNCHANGED <<step, testing, requestID, offerID, testOffers>>, keys \subseteq keys',
         testing => (answer' = answer \/ AnswerInv')
  PROVE  TestInv'
<1> SUFFICES ASSUME testing PROVE (AnswerInv /\ ProgressInv /\ TestOffersInv)'
  BY DEF TestInv
<1>1. AnswerInv /\ ProgressInv /\ TestOffersInv
  BY DEF TestInv
<1>2. /\ requestID \in RequestID /\ offerID \in OfferID
      /\ step = "submitRequest" => answer \in {Idle} \cup RequestID
      /\ step = "submitOffer" => answer \in {Idle} \cup OfferID
  BY DEF ClientInv, ClientTypeOK, EntryTypeOK, EntryInv
<1>3. Elements(testOffers) \subseteq OfferID
  BY DEF Elements, ClientInv, ClientTypeOK, EntryTypeOK
<1>4. AfterRequest => Protected(requestID)
  BY <1>1 DEF ProgressInv
<1>5. ASSUME NEW o \in OfferID, OfTest(o), AfterRequest
      PROVE  /\ offers'[o].isDefined /\ offers'[o].requestID = requestID
             /\ offers[o].offStage = "Open" => offers'[o].offStage = "Open"
  BY <1>4, <1>5, ProtectedStay DEF OfTest
<1>6. ProgressInv'
  <2>1. AfterRequest => requests'[requestID].isDefined /\ requests'[requestID].requestMaker \in OwnAccounts
    BY <1>2, <1>4, ProtectedStay
  <2>2. step = "submitOfferExtra" => AfterRequest
    BY DEF AfterRequest
  <2> QED BY <1>1, <1>2, <1>5, <2>1, <2>2
          DEF ProgressInv, AfterRequest, Protected, OfTest, OwnAccounts
<1>7. TestOffersInv'
  <2>1. testOffers # << >> => AfterRequest
    BY DEF ClientInv, EntryInv, ClientTypeOK, EntryTypeOK, AtRequest, AfterRequest, Call
  <2>2. ASSUME NEW o \in Elements(testOffers)
        PROVE  o \in OfferID /\ OfTest(o) /\ offers[o].offStage = "Open" /\ o \in keys /\ AfterRequest
    <3>1. testOffers # << >>
      BY <2>2 DEF Elements
    <3> QED BY <1>1, <1>3, <2>1, <2>2, <3>1 DEF TestOffersInv
  <2>3. Elements(testOffers') = Elements(testOffers)
    BY DEF Elements
  <2>4. \A o \in Elements(testOffers') :
          (OfTest(o))' /\ offers'[o].offStage = "Open" /\ o \in keys'
    BY <1>5, <2>2, <2>3 DEF OfTest
  <2> QED BY <1>1, <2>4 DEF TestOffersInv
<1>8. AnswerInv'
  <2>1. CASE answer' = answer
    <3>1. CASE answer = Idle
      BY <2>1, <3>1 DEF AnswerInv
    <3>2. CASE answer # Idle
      <4>1. step = "submitRequest" =>
              requests'[answer].isDefined /\ requests'[answer].requestMaker \in OwnAccounts
        BY <1>1, <1>2, <3>2, ProtectedStay DEF AnswerInv
      <4>2. step = "submitOffer" => OfTest(answer) /\ answer \in OfferID /\ AfterRequest
        BY <1>1, <1>2, <3>2 DEF AnswerInv, AfterRequest
      <4>3. step = "submitOffer" => offers'[answer].isDefined /\ offers'[answer].requestID = requestID
        BY <1>5, <4>2
      <4>4. step = "submitOfferExtra" => OfTest(offerID) /\ AfterRequest
        BY <1>1 DEF ProgressInv, AfterRequest
      <4>5. step = "submitOfferExtra" => offers'[offerID].offStage = "Open"
        BY <1>1, <1>2, <1>5, <3>2, <4>4 DEF AnswerInv
      <4>6. step = "submitOffer" => answer \notin Elements(testOffers')
        BY <1>1, <3>2 DEF AnswerInv, Elements
      <4> QED BY <2>1, <4>1, <4>3, <4>5, <4>6 DEF AnswerInv, Protected, OfTest, OwnAccounts
    <3> QED BY <3>1, <3>2
  <2> QED BY <2>1
<1> QED BY <1>6, <1>7, <1>8

LEMMA SendTest ==
  ASSUME ClientInv, StorageInv, LifeInv, TestInv,
         SendRequest \/ SendRequestExtra \/ SendOffer \/ SendOfferExtra \/ SendTestDecision
  PROVE  TestInv'
<1>1. [ClientNext]_<<vars, clientVars>>
  BY DEF ClientNext, EntryStep
<1>2. UNCHANGED <<step, testing, requestID, offerID, testOffers, keys>>
  BY DEF SendRequest, SendRequestExtra, SendOffer, SendOfferExtra, SendTestDecision, Sent
<1>3. ASSUME AnswerInv' PROVE TestInv'
  BY <1>1, <1>2, <1>3, TestStays
<1>4. requests \in [RequestID -> Request] /\ offers \in [OfferID -> Offer] /\ offNum \in Nat
  BY DEF StorageInv, TypeOK, RequestsTypeOK, OffersTypeOK
<1>5. CASE SendRequest
  <2>1. PICK signer : SubmitAuthorisedRequest(Requester, token, signer, requestForm.deadline)
    BY <1>5 DEF SendRequest
  <2>2. answer' = reqNum /\ step = "submitRequest"
    BY <1>5 DEF SendRequest, Sent
  <2>3. requests'[reqNum].isDefined /\ requests'[reqNum].requestMaker = Requester
    BY <1>4, <2>1 DEF SubmitAuthorisedRequest, NoRequest
  <2>4. Requester \in OwnAccounts
    BY Accounts DEF ClientInv
  <2> QED BY <1>2, <1>3, <2>2, <2>3, <2>4 DEF AnswerInv, Protected, OwnAccounts
<1>6. CASE SendRequestExtra \/ SendTestDecision
  <2>1. step \in {"submitRequestExtra", "decideRequest"}
    BY <1>6 DEF SendRequestExtra, SendTestDecision, Sent
  <2> QED BY <1>2, <1>3, <2>1 DEF AnswerInv
<1>7. CASE SendOffer
  <2>1. answer' = offNum /\ step = "submitOffer" /\ SubmitOffer(Bidder, requestID)
    BY <1>7 DEF SendOffer, Sent
  <2>2. offers'[offNum].isDefined /\ offers'[offNum].requestID = requestID
    BY <1>4, <2>1 DEF SubmitOffer, NoOffer
  <2>3. CASE testing
    <3>1. \A o \in Elements(testOffers) : o \in OfferID /\ offers[o].isDefined
      BY <2>3 DEF TestInv, TestOffersInv, OfTest, Elements, ClientInv, ClientTypeOK, EntryTypeOK
    <3>2. offNum \notin Elements(testOffers)
      <4>1. offNum >= offNum
        BY <1>4
      <4> QED BY <3>1, <4>1, ZeroesType DEF StorageInv, OffersInv
    <3>3. offNum \notin Elements(testOffers')
      BY <1>2, <3>2 DEF Elements
    <3> QED BY <1>2, <1>3, <2>1, <2>2, <3>3 DEF AnswerInv, OfTest
  <2>4. CASE ~testing
    BY <1>2, <2>1, <2>4 DEF TestInv
  <2> QED BY <2>3, <2>4
<1>8. CASE SendOfferExtra
  <2>1. step = "submitOfferExtra" /\ offerID \in OfferID
    BY <1>8 DEF SendOfferExtra, Sent, ClientInv, ClientTypeOK, EntryTypeOK
  <2>2. offers' = [offers EXCEPT ![offerID] = [offers[offerID] EXCEPT !.offStage = "Open"]]
    BY <1>8 DEF SendOfferExtra, SubmitOfferArrayExtra
  <2>3. offers'[offerID].offStage = "Open"
    BY <1>4, <2>1, <2>2 DEF Offer
  <2> QED BY <1>2, <1>3, <2>1, <2>3 DEF AnswerInv
<1> QED BY <1>5, <1>6, <1>7, <1>8

LEMMA LongerElements ==
  ASSUME NEW S, NEW list \in Seq(S), NEW e \in S \ Elements(list),
         \A i, j \in DOMAIN list : list[i] = list[j] => i = j
  PROVE  \A i, j \in DOMAIN Append(list, e) : Append(list, e)[i] = Append(list, e)[j] => i = j
<1>1. \A i \in DOMAIN list : list[i] # e
  BY DEF Elements
<1>2. /\ DOMAIN Append(list, e) = 1 .. Len(list) + 1
      /\ DOMAIN list = 1 .. Len(list) /\ Len(list) \in Nat
      /\ \A i \in 1 .. Len(list) : Append(list, e)[i] = list[i]
      /\ Append(list, e)[Len(list) + 1] = e
  OBVIOUS
<1> SUFFICES ASSUME NEW i \in DOMAIN Append(list, e), NEW j \in DOMAIN Append(list, e),
                    Append(list, e)[i] = Append(list, e)[j]
             PROVE  i = j
  OBVIOUS
<1>3. /\ i \in 1 .. Len(list) \/ i = Len(list) + 1
      /\ j \in 1 .. Len(list) \/ j = Len(list) + 1
  BY <1>2
<1> QED BY <1>1, <1>2, <1>3, Zenon

LEMMA ReceiptTest ==
  ASSUME ClientInv, StorageInv, TestInv, ReceiptArrives
  PROVE  TestInv'
<1>1. UNCHANGED vars /\ answer # Idle /\ answer' = Idle /\ KeepKeys
  BY DEF ReceiptArrives
<1>2. UNCHANGED <<requests, offers>> /\ keys \subseteq keys' /\ AnswerInv'
  BY <1>1 DEF vars, requestVars, offerVars, KeepKeys, AnswerInv
<1>3. CASE Finished
  BY <1>3 DEF Finished, BackToMenu, TestInv
<1>4. CASE RequestSubmitted
  <2>1. /\ step = "submitRequest" /\ step' = "submitRequestExtra" /\ requestID' = answer
        /\ UNCHANGED <<testing, testOffers>>
    BY <1>4 DEF RequestSubmitted
  <2>2. CASE testing
    <3>1. testOffers = << >> /\ Protected(answer)
      BY <1>1, <2>1, <2>2 DEF ClientInv, EntryInv, AtRequest, TestInv, AnswerInv
    <3>2. ProgressInv'
      BY <1>2, <2>1, <3>1 DEF ProgressInv, Protected, OwnAccounts
    <3>3. Elements(testOffers') = {} /\ DOMAIN testOffers' = {}
      BY <2>1, <3>1 DEF Elements
    <3> QED BY <1>2, <2>1, <2>2, <3>2, <3>3 DEF TestInv, TestOffersInv
  <2>3. CASE ~testing
    BY <2>1, <2>3 DEF TestInv
  <2> QED BY <2>2, <2>3
<1>5. CASE OfferSubmitted
  <2>1. /\ step = "submitOffer" /\ step' = "submitOfferExtra" /\ offerID' = answer
        /\ UNCHANGED <<testing, testOffers, requestID>>
    BY <1>5 DEF OfferSubmitted
  <2>2. CASE testing
    <3>1. OfTest(answer) /\ answer \notin Elements(testOffers) /\ Protected(requestID) /\ TestOffersInv
      BY <1>1, <2>1, <2>2 DEF TestInv, AnswerInv, ProgressInv, AfterRequest
    <3>2. ProgressInv'
      BY <1>2, <2>1, <3>1 DEF ProgressInv, Protected, OfTest, OwnAccounts, Elements
    <3>3. TestOffersInv'
      BY <1>2, <2>1, <3>1 DEF TestOffersInv, OfTest, Elements
    <3> QED BY <1>2, <2>1, <2>2, <3>2, <3>3 DEF TestInv
  <2>3. CASE ~testing
    BY <2>1, <2>3 DEF TestInv
  <2> QED BY <2>2, <2>3
<1>6. CASE TestRequestCompleted
  <2>1. /\ step = "submitRequestExtra" /\ step' = "submitOffer" /\ testing
        /\ UNCHANGED <<testing, requestID, offerID, testOffers>>
    BY <1>6 DEF TestRequestCompleted
  <2>2. Protected(requestID) /\ TestOffersInv
    BY <2>1 DEF TestInv, ProgressInv, AfterRequest
  <2>3. ProgressInv'
    BY <1>2, <2>1, <2>2 DEF ProgressInv, Protected, OwnAccounts
  <2>4. TestOffersInv'
    BY <1>2, <2>1, <2>2 DEF TestOffersInv, OfTest, Elements
  <2> QED BY <1>2, <2>1, <2>3, <2>4 DEF TestInv
<1>7. CASE TestOfferCompleted
  <2>1. /\ step = "submitOfferExtra" /\ step' \in {"submitOffer", "decideRequest"} /\ testing
        /\ testOffers' = Append(testOffers, offerID)
        /\ UNCHANGED <<testing, requestID, offerID>>
    BY <1>7 DEF TestOfferCompleted
  <2>2. /\ Protected(requestID) /\ TestOffersInv
        /\ OfTest(offerID) /\ offerID \notin Elements(testOffers) /\ offers[offerID].offStage = "Open"
    BY <1>1, <2>1 DEF TestInv, AnswerInv, ProgressInv, AfterRequest
  <2>3. offerID \in keys' /\ testOffers \in Seq(OfferID) /\ offerID \in OfferID
    BY <1>1, <2>1 DEF KeepKeys, ClientInv, ClientTypeOK, EntryTypeOK
  <2>4. ProgressInv'
    BY <1>2, <2>1, <2>2 DEF ProgressInv, Protected, OwnAccounts
  <2>5. Elements(testOffers') = Elements(testOffers) \cup {offerID}
    BY <2>1, <2>3, ElementsAppended DEF Elements
  <2>6. \A i, j \in DOMAIN testOffers' : testOffers'[i] = testOffers'[j] => i = j
    BY <2>1, <2>2, <2>3, LongerElements DEF TestOffersInv
  <2>7. TestOffersInv'
    BY <1>2, <2>1, <2>2, <2>3, <2>5, <2>6 DEF TestOffersInv, OfTest
  <2> QED BY <1>2, <2>1, <2>4, <2>7 DEF TestInv
<1> QED BY <1>3, <1>4, <1>5, <1>6, <1>7 DEF ReceiptArrives

LEMMA NextTest ==
  ASSUME ClientInv, StorageInv, LifeInv, TestInv, [ClientNext]_<<vars, clientVars>>
  PROVE  TestInv'
<1>1. ASSUME UNCHANGED entryVars, keys' = keys PROVE TestInv'
  BY <1>1, TestStays DEF entryVars
<1>2. ASSUME BackToMenu PROVE TestInv'
  BY <1>2 DEF BackToMenu, TestInv
<1>3. ASSUME NEW call \in Call \ {"decideRequest"}, NEW r, Enter(call, r),
             testing' = testing \/ (testing' /\ call = "getNewAccessToken")
      PROVE  TestInv'
  <2>1. ~testing /\ testOffers = << >> /\ answer = Idle
    BY <1>3 DEF Enter, ClientInv, EntryInv
  <2>2. step' = call /\ testOffers' = << >> /\ answer' = Idle
    BY <1>3, <2>1 DEF Enter
  <2>3. CASE testing' = testing
    BY <2>1, <2>2, <2>3 DEF TestInv
  <2>4. CASE testing' /\ call = "getNewAccessToken"
    <3>1. Elements(testOffers') = {} /\ DOMAIN testOffers' = {}
      BY <2>2 DEF Elements
    <3> QED BY <2>2, <2>4, <3>1 DEF TestInv, AnswerInv, ProgressInv, TestOffersInv, AfterRequest
  <2> QED BY <1>3, <2>3, <2>4
<1>4. ASSUME \/ TriggerInterledger
             \/ \E form \in RequestForms : HandleAuctionRequestCreation(form)
             \/ \E r \in TypedID(RequestID) : \E form \in OfferForms : HandleOfferCreation(r, form)
      PROVE  TestInv'
  <2>1. CASE TriggerInterledger
    BY <1>3, <2>1 DEF TriggerInterledger, Call
  <2>2. ASSUME NEW form \in RequestForms, HandleAuctionRequestCreation(form) PROVE TestInv'
    BY <1>3, <2>2 DEF HandleAuctionRequestCreation, Call
  <2>3. ASSUME NEW r \in TypedID(RequestID), NEW form \in OfferForms, HandleOfferCreation(r, form)
        PROVE  TestInv'
    BY <1>3, <2>3 DEF HandleOfferCreation, Call
  <2> QED BY <1>4, <2>1, <2>2, <2>3
<1>5. CASE CheckForOffersEvents \/ \E i \in DOMAIN NodeAccounts : ChangeAccount(NodeAccounts[i])
  BY <1>1, <1>5 DEF CheckForOffersEvents, ChangeAccount, memoryVars
<1>6. CASE UNCHANGED clientVars
  BY <1>1, <1>6 DEF clientVars, memoryVars
<1>7. ASSUME NEW r \in TypedID(RequestID),
             \/ HandleRequestClosing(r)
             \/ \E list \in ListForms : HandleRequestDecision(r, list)
             \/ \E o \in TypedID(OfferID) : HandleOfferSettlment(r, o)
      PROVE  TestInv'
  BY <1>6, <1>7 DEF HandleRequestClosing, HandleRequestDecision, HandleOfferSettlment
<1>8. ASSUME NEW o \in TypedID(OfferID), HandleCreatorClaim(o) PROVE TestInv'
  BY <1>6, <1>8 DEF HandleCreatorClaim
<1>9. CASE Menu
  BY <1>4, <1>5, <1>7, <1>8, <1>9 DEF Menu
<1>10. CASE GetNewAccessToken
  <2>1. /\ step = "getNewAccessToken" /\ step' = "submitRequest" /\ answer = Idle
        /\ UNCHANGED <<testing, testOffers, answer>>
    BY <1>10 DEF GetNewAccessToken, ClientInv, EntryInv
  <2>2. CASE testing
    <3>1. testOffers = << >>
      BY <2>1, <2>2 DEF ClientInv, EntryInv, AtRequest
    <3>2. Elements(testOffers') = {} /\ DOMAIN testOffers' = {}
      BY <2>1, <3>1 DEF Elements
    <3> QED BY <2>1, <3>2 DEF TestInv, AnswerInv, ProgressInv, TestOffersInv, AfterRequest
  <2>3. CASE ~testing
    BY <2>1, <2>3 DEF TestInv
  <2> QED BY <2>2, <2>3
<1>11. CASE ReceiptLost \/ CallFails \/ Exit
  BY <1>2, <1>11 DEF ReceiptLost, CallFails, Exit
<1>12. CASE EntryStep
  BY <1>10, <1>11, <1>12, SendTest, ReceiptTest DEF EntryStep
<1>13. ASSUME NEW caller \in OtherAccounts, OtherCall(caller) PROVE TestInv'
  BY <1>1, <1>13 DEF OtherCall, memoryVars
<1>14. CASE TimePasses
  BY <1>6, <1>14 DEF TimePasses
<1>15. ASSUME NEW event \in Event, HearEvent(event) PROVE TestInv'
  BY <1>1, <1>15 DEF HearEvent, memoryVars
<1> QED BY <1>6, <1>9, <1>11, <1>12, <1>13, <1>14, <1>15 DEF ClientNext

(***************************************************************************)
(* The contract cannot refuse the decision of triggerInterledger           *)
(* (main.ts:271): the offers it selects are still open offers of its       *)
(* request, whatever other users and Interledger did in the meantime, and  *)
(* the demo has the keys of both.                                          *)
(***************************************************************************)
THEOREM TestDecisionsAreProper == ClientSpec => []TestDecisionIsProper
<1> DEFINE Inv == ClientInv /\ LedgerInv /\ TestInv
<1>1. ClientInit => Inv
  <2> SUFFICES ASSUME ClientInit PROVE Inv
    OBVIOUS
  <2>1. ClientInv /\ LedgerInv
    BY InitClientInv, LedgerInvariance DEF ClientInit
  <2>2. step = "menu" /\ ~testing
    BY DEF ClientInit
  <2> QED BY <2>1, <2>2 DEF TestInv
<1>2. Inv /\ [ClientNext]_<<vars, clientVars>> => Inv'
  <2> SUFFICES ASSUME Inv, [ClientNext]_<<vars, clientVars>> PROVE Inv'
    OBVIOUS
  <2>1. StorageInv /\ LifeInv
    BY DEF LedgerInv, IInv, ResolvedInv
  <2>2. ClientInv' /\ TestInv'
    BY <2>1, NextClientInv, NextTest
  <2>3. LedgerInv'
    BY ClientUsesContract, LedgerInvariance
  <2> QED BY <2>2, <2>3
<1>3. Inv => TestDecisionIsProper
  <2> SUFFICES ASSUME Inv, step = "decideRequest"
               PROVE  /\ Len(testOffers) = 3
                      /\ AcceptedOffersListIsProper(requestID, TestSelection)
                      /\ Elements(TestSelection) \subseteq keys
    BY DEF TestDecisionIsProper
  <2>1. Len(testOffers) = 3 /\ testOffers \in Seq(OfferID)
    BY DEF ClientInv, ClientTypeOK, EntryTypeOK, EntryInv
  <2>2. TestOffersInv
    BY DEF TestInv
  <2>3. 1 \in DOMAIN testOffers /\ 3 \in DOMAIN testOffers
    BY <2>1
  <2>4. \A i \in {1, 3} : LET o == testOffers[i] IN
          offers[o].requestID = requestID /\ offers[o].offStage = "Open" /\ o \in keys
    BY <2>2, <2>3 DEF TestOffersInv, Elements, OfTest
  <2>5. testOffers[1] # testOffers[3]
    BY <2>2, <2>3 DEF TestOffersInv
  <2>6. DOMAIN TestSelection = 1 .. 2 /\ TestSelection[1] = testOffers[1]
        /\ TestSelection[2] = testOffers[3]
    BY DEF TestSelection
  <2>7. \A i \in 1 .. 2 : i = 1 \/ i = 2
    OBVIOUS
  <2> HIDE DEF TestSelection
  <2>8. AcceptedOffersListIsProper(requestID, TestSelection)
    BY <2>4, <2>5, <2>6, <2>7, Zenon DEF AcceptedOffersListIsProper
  <2>9. Elements(TestSelection) \subseteq keys
    BY <2>4, <2>6, <2>7, Zenon DEF Elements
  <2> QED BY <2>1, <2>8, <2>9
<1> QED BY <1>1, <1>2, <1>3, PTL DEF ClientSpec

-----------------------------------------------------------------------------
(***************************************************************************)
(* The settlement: where the lists that travel come from.                  *)
(***************************************************************************)
ListOf(n)        == OffersOf(interledgerEvents[n])
Decisions        == DOMAIN interledgerEvents
IsDecision(list) == \E n \in Decisions : list = ListOf(n)

TravelInv ==
  /\ decisionOf \in Seq(RequestID) /\ Len(decisionOf) = Len(interledgerEvents)
  /\ forwarded \in Seq(Nat) /\ Len(forwarded) = Len(interledgerEvents)
  /\ delivered \in Seq(Nat) /\ Len(delivered) = Len(reports)
  /\ announced \in Seq(OfferLists) /\ reports \in Seq(OfferLists)
  /\ \A n \in Decisions : ListOf(n) \in OfferLists
  /\ \A i \in DOMAIN announced : IsDecision(announced[i])
  /\ \A k \in DOMAIN reports : IsDecision(reports[k]) /\ Elements(reports[k]) \subseteq tokens
  /\ \A o \in tokens : \E n \in Decisions : o \in Elements(ListOf(n))

\* What the calls of users do to decisions, offers and the lists of open ones.
OfOneRequest(list, r) ==
  \A i \in DOMAIN list : /\ list[i] \in OfferID
                         /\ offers[list[i]].isDefined
                         /\ offers[list[i]].requestID = r

Decides(list, r) ==
  /\ OfOneRequest(list, r)
  /\ \E extras : interledgerEvents' = Append(interledgerEvents, RequestDecisionPayload(list, extras))

OffersGoOn ==
  /\ offNum' >= offNum
  /\ \A o \in OfferID : offers'[o].isDefined =>
       \/ offers[o].isDefined /\ offers'[o].requestID = offers[o].requestID
       \/ o = offNum /\ offNum' > offNum
  /\ \A q \in RequestID : \A o \in openOffersPerRequest'[q] :
       \/ o \in openOffersPerRequest[q]
       \/ o \in OfferID /\ offers[o].isDefined /\ offers[o].requestID = q

LEMMA ListOfPayload ==
  ASSUME NEW S, NEW list \in Seq(S), NEW extras
  PROVE  OffersOf(RequestDecisionPayload(list, extras)) = list
<1>1. DOMAIN RequestDecisionPayload(list, extras) = DOMAIN list
  BY DEF RequestDecisionPayload
<1>2. \A i \in DOMAIN list : RequestDecisionPayload(list, extras)[i].offerID = list[i]
  BY DEF RequestDecisionPayload
<1>3. OffersOf(RequestDecisionPayload(list, extras)) = [i \in DOMAIN list |-> list[i]]
  BY <1>1, <1>2 DEF OffersOf
<1> QED BY <1>3

LEMMA DecideRequestFacts ==
  ASSUME StorageInv, NEW caller \in Account, NEW r \in RequestID, NEW list \in OfferLists,
         DecideRequest(caller, r, list)
  PROVE  Decides(list, r)
<1>1. list \in Seq(OfferID)
  BY MarketplaceAssumption
<1>2. \A i \in DOMAIN list : list[i] \in OfferID
  BY <1>1
<1>3. \A i \in DOMAIN list : /\ offers[list[i]].requestID = r
                             /\ offers[list[i]].offStage = "Open"
  BY DEF DecideRequest, AcceptedOffersListIsProper
<1>4. OfOneRequest(list, r)
  BY <1>2, <1>3, ZeroesType DEF OfOneRequest, StorageInv, OffersInv
<1>5. interledgerEvents' = Append(interledgerEvents, RequestDecisionPayload(list, offersExtra))
  BY DEF DecideRequest, DecideRequestInsecure
<1> QED BY <1>4, <1>5 DEF Decides

LEMMA DefinedOffers ==
  ASSUME StorageInv, NEW o \in OfferID, offers[o].isDefined
  PROVE  /\ o # 0 /\ o < offNum
         /\ offers[o].requestID \in RequestID /\ offers[o].requestID # 0
<1>1. o \in Int /\ offNum \in Int /\ offers[o] \in Offer
  BY MarketplaceAssumption DEF StorageInv, TypeOK, OffersTypeOK, OfferID
<1>2. o # 0 /\ ~(o >= offNum) /\ requests[offers[o].requestID].isDefined
  BY ZeroesType DEF StorageInv, OffersInv
<1>3. offers[o].requestID # 0
  BY <1>2, ZeroesType DEF StorageInv, RequestsInv
<1> QED BY <1>1, <1>2, <1>3 DEF Offer

LEMMA SubmitOfferArrayExtraFacts ==
  ASSUME StorageInv, NEW caller \in Account, NEW o \in OfferID,
         NEW extra \in OfferExtraInputs, NEW paid \in Payments,
         SubmitOfferArrayExtra(caller, o, extra, paid)
  PROVE  /\ \/ interledgerEvents' = interledgerEvents
            \/ \E list \in OfferLists, r \in RequestID : Decides(list, r)
         /\ OffersGoOn /\ UNCHANGED <<fulfilled, claimable>>
<1> DEFINE r == offers[o].requestID
<1>1. offers[o].isDefined /\ offers \in [OfferID -> Offer] /\ offNum \in Int
      /\ openOffersPerRequest \in [RequestID -> SUBSET OfferID]
  BY DEF SubmitOfferArrayExtra, StorageInv, TypeOK, OffersTypeOK, EscrowTypeOK
<1>2. o # 0 /\ r \in RequestID
  BY <1>1, DefinedOffers
<1>3. /\ offers' = [offers EXCEPT ![o] = [offers[o] EXCEPT !.offStage = "Open"]]
      /\ openOffersPerRequest' = [openOffersPerRequest EXCEPT ![r] = openOffersPerRequest[r] \cup {o}]
      /\ offNum' = offNum
      /\ UNCHANGED <<fulfilled, claimable>>
  BY DEF SubmitOfferArrayExtra
<1>4. \/ interledgerEvents' = interledgerEvents
      \/ \E extras : interledgerEvents' = Append(interledgerEvents, RequestDecisionPayload(<<o>>, extras))
  BY DEF SubmitOfferArrayExtra, DecideRequestInsecure
<1>5. <<o>> \in OfferLists
  BY <1>2, SettlementAssumption
<1>6. OfOneRequest(<<o>>, r)
  BY <1>1 DEF OfOneRequest
<1>7. OffersGoOn
  <2>1. offNum' >= offNum
    BY <1>1, <1>3
  <2>2. \A p \in OfferID : offers'[p].isDefined = offers[p].isDefined
                           /\ offers'[p].requestID = offers[p].requestID
    BY <1>1, <1>3 DEF Offer
  <2>3. \A q \in RequestID : openOffersPerRequest'[q] \subseteq
          openOffersPerRequest[q] \cup (IF q = r THEN {o} ELSE {})
    BY <1>1, <1>3
  <2> QED BY <1>1, <2>1, <2>2, <2>3 DEF OffersGoOn
<1> HIDE DEF r
<1> QED BY <1>2, <1>3, <1>4, <1>5, <1>6, <1>7 DEF Decides

LEMMA OffersUntouched ==
  ASSUME StorageInv, UNCHANGED openOffersPerRequest, offNum' = offNum,
         \A o \in OfferID : offers'[o] = offers[o] \/ offers'[o] = NoOffer
  PROVE  OffersGoOn
<1>1. offNum' >= offNum
  BY DEF StorageInv, TypeOK, OffersTypeOK
<1> QED BY <1>1, ZeroesType DEF OffersGoOn

LEMMA UserCallFacts ==
  ASSUME StorageInv, NEW caller \in Account, RequestCall(caller) \/ OfferCall(caller)
  PROVE  /\ \/ interledgerEvents' = interledgerEvents
            \/ \E list \in OfferLists, r \in RequestID : Decides(list, r)
         /\ OffersGoOn /\ UNCHANGED <<fulfilled, claimable>>
<1> DEFINE Goal == /\ \/ interledgerEvents' = interledgerEvents
                      \/ \E list \in OfferLists, r \in RequestID : Decides(list, r)
                   /\ OffersGoOn /\ UNCHANGED <<fulfilled, claimable>>
<1>1. offers \in [OfferID -> Offer] /\ offNum \in Int
  BY DEF StorageInv, TypeOK, OffersTypeOK
<1>2. ASSUME UNCHANGED <<offerVars, escrowVars, interledgerEvents>> PROVE Goal
  BY <1>2, OffersUntouched DEF offerVars, escrowVars
<1>3. ASSUME NEW r \in RequestID, NEW list \in OfferLists, DecideRequest(caller, r, list)
      PROVE  Goal
  <2>1. UNCHANGED <<offerVars, escrowVars>>
    BY <1>3 DEF DecideRequest
  <2>2. OffersGoOn
    BY <2>1, OffersUntouched DEF offerVars, escrowVars
  <2> QED BY <1>3, <2>1, <2>2, DecideRequestFacts DEF escrowVars
<1>4. ASSUME NEW r \in RequestID, DeleteRequest(caller, r) PROVE Goal
  <2>1. UNCHANGED <<escrowVars, interledgerEvents, offNum>>
    BY <1>4 DEF DeleteRequest
  <2>2. \A o \in OfferID : offers'[o] = offers[o] \/ offers'[o] = NoOffer
    BY <1>4 DEF DeleteRequest
  <2> QED BY <2>1, <2>2, OffersUntouched DEF escrowVars
<1>5. ASSUME NEW r \in RequestID, SubmitOffer(caller, r) PROVE Goal
  <2>1. UNCHANGED <<escrowVars, interledgerEvents>> /\ offNum' = offNum + 1
        /\ \A o \in OfferID \ {offNum} : offers'[o] = offers[o]
    BY <1>1, <1>5 DEF SubmitOffer
  <2>2. offNum' >= offNum /\ offNum' > offNum
    BY <1>1, <2>1
  <2> QED BY <2>1, <2>2 DEF OffersGoOn, escrowVars
<1>6. ASSUME NEW o \in OfferID, NEW extra \in OfferExtraInputs, NEW paid \in Payments,
             SubmitOfferArrayExtra(caller, o, extra, paid)
      PROVE  Goal
  BY <1>6, SubmitOfferArrayExtraFacts
<1>7. ASSUME NEW o \in OfferID, Withdraw(caller, o) PROVE Goal
  <2>1. UNCHANGED <<offerVars, openOffersPerRequest, fulfilled, claimable, interledgerEvents>>
    BY <1>7 DEF Withdraw
  <2> QED BY <2>1, OffersUntouched DEF offerVars
<1>8. ASSUME RequestCall(caller) PROVE Goal
  BY <1>2, <1>3, <1>4, <1>8
  DEF RequestCall, SubmitAuthorisedRequest, SubmitRequestArrayExtra, CloseRequest
<1>9. ASSUME OfferCall(caller) PROVE Goal
  BY <1>2, <1>5, <1>6, <1>7, <1>9 DEF OfferCall, SettleTrade
<1> HIDE DEF Goal
<1>10. Goal
  BY <1>8, <1>9
<1> QED BY <1>10 DEF Goal

-----------------------------------------------------------------------------
(***************************************************************************)
(* The lists that travel are those of decisions.                           *)
(***************************************************************************)
DecisionsGoOn ==
  /\ Decisions \subseteq Decisions'
  /\ \A n \in Decisions : (ListOf(n))' = ListOf(n) /\ decisionOf'[n] = decisionOf[n]
  /\ \A n \in Decisions' \ Decisions :
       (ListOf(n))' \in OfferLists /\ OfOneRequest((ListOf(n))', decisionOf'[n])

LEMMA Appended ==
  ASSUME NEW S, NEW s \in Seq(S), NEW e
  PROVE  /\ DOMAIN Append(s, e) = DOMAIN s \cup {Len(s) + 1}
         /\ Len(s) + 1 \notin DOMAIN s
         /\ Len(Append(s, e)) = Len(s) + 1
         /\ \A n \in DOMAIN s : Append(s, e)[n] = s[n]
         /\ Append(s, e)[Len(s) + 1] = e
OBVIOUS

LEMMA EmittedGoesOn ==
  ASSUME StorageInv, StorageInv', TravelInv, NEW list \in OfferLists, NEW r \in RequestID,
         Decides(list, r), DecisionEmitted
  PROVE  DecisionsGoOn /\ decisionOf' \in Seq(RequestID) /\ Len(decisionOf') = Len(interledgerEvents')
<1> DEFINE n == Len(interledgerEvents) + 1
<1>1. interledgerEvents \in Seq(Seq(PayloadElement)) /\ interledgerEvents' \in Seq(Seq(PayloadElement))
      /\ decisionOf \in Seq(RequestID) /\ Len(decisionOf) = Len(interledgerEvents)
  BY DEF StorageInv, TypeOK, TravelInv
<1>2. PICK extras :
        interledgerEvents' = Append(interledgerEvents, RequestDecisionPayload(list, extras))
  BY DEF Decides
<1> DEFINE payload == RequestDecisionPayload(list, extras)
<1>3. list \in Seq(OfferID)
  BY MarketplaceAssumption
<1>4. OffersOf(payload) = list /\ DOMAIN payload = DOMAIN list
      /\ \A i \in DOMAIN list : payload[i].offerID = list[i]
  BY <1>3, ListOfPayload DEF RequestDecisionPayload
<1> HIDE DEF payload
<1>5. /\ Decisions' = Decisions \cup {n} /\ n \notin Decisions
      /\ \A m \in Decisions : interledgerEvents'[m] = interledgerEvents[m]
      /\ interledgerEvents'[n] = payload /\ Len(interledgerEvents') = n
  BY <1>1, <1>2, Appended DEF Decisions, payload
<1>6. PICK d : decisionOf' = Append(decisionOf, d)
               /\ d = IF payload = << >> THEN 0 ELSE offers[payload[1].offerID].requestID
  BY <1>5 DEF DecisionEmitted
<1>7. /\ \A m \in Decisions : decisionOf'[m] = decisionOf[m]
      /\ decisionOf'[n] = d /\ Len(decisionOf') = n
  <2>1. DOMAIN decisionOf = Decisions
    BY <1>1 DEF Decisions
  <2> QED BY <1>1, <1>6, <2>1, Appended
<1>8. payload \in Seq(PayloadElement)
  <2>1. n \in 1 .. Len(interledgerEvents')
    BY <1>1, <1>5
  <2> QED BY <1>1, <1>5, <2>1
<1>9. d \in RequestID /\ OfOneRequest(list, d)
  <2>1. CASE payload = << >>
    <3>1. DOMAIN list = {}
      BY <1>4, <2>1
    <3> QED BY <1>6, <2>1, <3>1, ZeroesType DEF OfOneRequest
  <2>2. CASE payload # << >>
    <3>1. 1 \in DOMAIN payload
      BY <1>8, <2>2
    <3>2. d = r
      BY <1>4, <1>6, <2>2, <3>1 DEF Decides, OfOneRequest
    <3> QED BY <3>2 DEF Decides
  <2> QED BY <2>1, <2>2
<1> HIDE DEF n
<1>10. DecisionsGoOn
  BY <1>4, <1>5, <1>7, <1>9 DEF DecisionsGoOn, ListOf
<1>11. decisionOf' \in Seq(RequestID)
  BY <1>1, <1>6, <1>9
<1> QED BY <1>5, <1>7, <1>10, <1>11

LEMMA SameDecisions ==
  ASSUME UNCHANGED <<interledgerEvents, decisionOf>>
  PROVE  DecisionsGoOn
BY DEF DecisionsGoOn, Decisions, ListOf

\* Decisions stay, so what came from one still does.
LEMMA StillDecisions ==
  ASSUME TravelInv, DecisionsGoOn
  PROVE  /\ \A n \in Decisions' : (ListOf(n))' \in OfferLists
         /\ \A list : IsDecision(list) => (IsDecision(list))'
         /\ \A o : (\E n \in Decisions : o \in Elements(ListOf(n)))
                     => \E n \in Decisions' : o \in Elements((ListOf(n))')
<1>1. \A n \in Decisions : n \in Decisions' /\ (ListOf(n))' = ListOf(n)
  BY DEF DecisionsGoOn
<1>2. \A n \in Decisions' : (ListOf(n))' \in OfferLists
  BY <1>1 DEF DecisionsGoOn, TravelInv
<1>3. ASSUME NEW list, IsDecision(list) PROVE (IsDecision(list))'
  <2>1. PICK n \in Decisions : list = ListOf(n)
    BY <1>3 DEF IsDecision
  <2>2. n \in Decisions' /\ list = (ListOf(n))'
    BY <1>1, <2>1
  <2> QED BY <2>2 DEF IsDecision
<1> QED BY <1>1, <1>2, <1>3

LEMMA UserCallTravel ==
  ASSUME StorageInv, StorageInv', TravelInv, NEW caller \in Account, UserCall(caller)
  PROVE  TravelInv' /\ DecisionsGoOn
<1>1. DecisionsGoOn /\ decisionOf' \in Seq(RequestID)
      /\ Len(decisionOf') = Len(interledgerEvents')
  <2>1. CASE NoDecision
    BY <2>1, SameDecisions DEF NoDecision, TravelInv
  <2>2. CASE DecisionEmitted
    <3>1. \E list \in OfferLists, r \in RequestID : Decides(list, r)
      BY <2>2, UserCallFacts DEF UserCall, DecisionEmitted
    <3> QED BY <2>2, <3>1, EmittedGoesOn
  <2> QED BY <2>1, <2>2 DEF UserCall
<1>2. forwarded' \in Seq(Nat) /\ Len(forwarded') = Len(interledgerEvents')
  <2>1. CASE NoDecision
    BY <2>1 DEF NoDecision, TravelInv
  <2>2. CASE DecisionEmitted
    <3>1. forwarded' = Append(forwarded, 0) /\ decisionOf \in Seq(RequestID)
          /\ forwarded \in Seq(Nat) /\ Len(forwarded) = Len(decisionOf)
      BY <2>2 DEF DecisionEmitted, TravelInv
    <3>2. PICK d : decisionOf' = Append(decisionOf, d)
      BY <2>2 DEF DecisionEmitted
    <3> QED BY <1>1, <3>1, <3>2
  <2> QED BY <2>1, <2>2 DEF UserCall
<1>3. UNCHANGED <<announced, reports, delivered, tokens>>
  BY DEF UserCall
<1> QED BY <1>1, <1>2, <1>3, StillDecisions DEF TravelInv

LEMMA UpdatedCount ==
  ASSUME NEW s \in Seq(Nat), NEW n \in DOMAIN s, NEW t, t = [s EXCEPT ![n] = s[n] + 1]
  PROVE  t \in Seq(Nat) /\ Len(t) = Len(s)
<1>1. s[n] + 1 \in Nat
  OBVIOUS
<1> QED BY <1>1

LEMMA ForwardTravel ==
  ASSUME StorageInv, TravelInv, NEW n \in DOMAIN forwarded, ForwardDecision(n)
  PROVE  TravelInv' /\ UNCHANGED <<vars, decisionOf>>
<1> DEFINE list == ListOf(n)
<1>1. UNCHANGED <<vars, interledgerEvents, decisionOf, reports, delivered, tokens>>
      /\ announced' = Append(announced, list)
      /\ forwarded' = [forwarded EXCEPT ![n] = forwarded[n] + 1]
  BY DEF ForwardDecision, vars, ListOf
<1>2. n \in Decisions /\ list \in OfferLists /\ IsDecision(list)
  <2>1. DOMAIN forwarded = DOMAIN interledgerEvents
    BY DEF StorageInv, TypeOK, TravelInv
  <2> QED BY <2>1 DEF Decisions, TravelInv, IsDecision
<1> HIDE DEF list
<1>3. forwarded' \in Seq(Nat) /\ Len(forwarded') = Len(forwarded)
  BY <1>1, UpdatedCount DEF TravelInv
<1>4. announced' \in Seq(OfferLists) /\ \A i \in DOMAIN announced' : IsDecision(announced'[i])
  <2>1. announced \in Seq(OfferLists) /\ \A i \in DOMAIN announced : IsDecision(announced[i])
    BY DEF TravelInv
  <2>2. /\ DOMAIN announced' = DOMAIN announced \cup {Len(announced) + 1}
        /\ \A i \in DOMAIN announced : announced'[i] = announced[i]
        /\ announced'[Len(announced) + 1] = list
    BY <1>1, <2>1, Appended
  <2>3. announced' \in Seq(OfferLists)
    BY <1>1, <1>2, <2>1
  <2>4. ASSUME NEW i \in DOMAIN announced' PROVE IsDecision(announced'[i])
    <3>1. CASE i \in DOMAIN announced
      BY <2>1, <2>2, <3>1
    <3>2. CASE i = Len(announced) + 1
      <4>1. announced'[i] = list
        BY <2>2, <3>2
      <4> QED BY <1>2, <4>1 DEF IsDecision
    <3> QED BY <2>2, <3>1, <3>2
  <2> QED BY <2>3, <2>4
<1>5. DecisionsGoOn
  BY <1>1, SameDecisions
<1>6. \A list0 : IsDecision(list0) => (IsDecision(list0))'
  BY <1>5, StillDecisions
<1>7. \A i \in DOMAIN announced' : (IsDecision(announced[i]))'
  BY <1>4, <1>6
<1>8. /\ decisionOf' \in Seq(RequestID) /\ Len(decisionOf') = Len(interledgerEvents')
      /\ delivered' \in Seq(Nat) /\ Len(delivered') = Len(reports')
      /\ reports' \in Seq(OfferLists) /\ Len(forwarded') = Len(interledgerEvents')
  BY <1>1, <1>3 DEF TravelInv
<1>9. \A k \in DOMAIN reports' : (IsDecision(reports[k]))' /\ Elements(reports'[k]) \subseteq tokens'
  BY <1>1, <1>6 DEF TravelInv
<1> QED BY <1>1, <1>3, <1>4, <1>5, <1>7, <1>8, <1>9, StillDecisions DEF TravelInv

LEMMA IssueTravel ==
  ASSUME StorageInv, TravelInv, IssueTokens
  PROVE  TravelInv' /\ UNCHANGED <<vars, decisionOf>> /\ tokens \subseteq tokens'
<1> DEFINE list == Head(announced)
<1>1. UNCHANGED <<vars, interledgerEvents, decisionOf, forwarded>> /\ announced # << >>
      /\ announced' = Tail(announced)
      /\ tokens' = tokens \cup Elements(list)
      /\ reports' = Append(reports, list) /\ delivered' = Append(delivered, 0)
  BY DEF IssueTokens, vars
<1>2. announced \in Seq(OfferLists) /\ \A i \in DOMAIN announced : IsDecision(announced[i])
  BY DEF TravelInv
<1>3. 1 \in DOMAIN announced /\ list = announced[1] /\ list \in OfferLists
      /\ announced' \in Seq(OfferLists)
      /\ \A i \in DOMAIN announced' : i + 1 \in DOMAIN announced /\ announced'[i] = announced[i + 1]
  BY <1>1, <1>2
<1>4. IsDecision(list)
  BY <1>2, <1>3
<1> HIDE DEF list
<1>5. reports \in Seq(OfferLists) /\ delivered \in Seq(Nat) /\ Len(delivered) = Len(reports)
  BY DEF TravelInv
<1>6. /\ DOMAIN reports' = DOMAIN reports \cup {Len(reports) + 1}
      /\ \A k \in DOMAIN reports : reports'[k] = reports[k]
      /\ reports'[Len(reports) + 1] = list /\ Len(reports') = Len(reports) + 1
  BY <1>1, <1>5, Appended
<1>7. reports' \in Seq(OfferLists) /\ delivered' \in Seq(Nat) /\ Len(delivered') = Len(reports')
  BY <1>1, <1>3, <1>5, <1>6
<1>8. DecisionsGoOn
  BY <1>1, SameDecisions
<1>9. \A list0 : IsDecision(list0) => (IsDecision(list0))'
  BY <1>8, StillDecisions
<1>10. \A k \in DOMAIN reports' : IsDecision(reports'[k]) /\ Elements(reports'[k]) \subseteq tokens'
  BY <1>1, <1>4, <1>6 DEF TravelInv
<1>11. \A o \in tokens' : \E n \in Decisions : o \in Elements(ListOf(n))
  BY <1>1, <1>4 DEF TravelInv, IsDecision
<1>12. \A o \in tokens' : \E n \in Decisions' : o \in Elements((ListOf(n))')
  BY <1>8, <1>11, StillDecisions
<1>13. /\ \A i \in DOMAIN announced' : (IsDecision(announced[i]))'
       /\ \A k \in DOMAIN reports' : (IsDecision(reports[k]))'
  BY <1>2, <1>3, <1>9, <1>10
<1>14. /\ decisionOf' \in Seq(RequestID) /\ Len(decisionOf') = Len(interledgerEvents')
       /\ forwarded' \in Seq(Nat) /\ Len(forwarded') = Len(interledgerEvents')
  BY <1>1 DEF TravelInv
<1> QED
  BY <1>1, <1>3, <1>7, <1>8, <1>10, <1>12, <1>13, <1>14, StillDecisions DEF TravelInv

LEMMA TravelUntouched ==
  ASSUME TravelInv,
         UNCHANGED <<interledgerEvents, decisionOf, forwarded, announced, reports, tokens>>,
         delivered' \in Seq(Nat), Len(delivered') = Len(delivered)
  PROVE  TravelInv' /\ DecisionsGoOn
BY SameDecisions, StillDecisions DEF TravelInv

LEMMA DeliverTravel ==
  ASSUME StorageInv, TravelInv, NEW k \in DOMAIN delivered, DeliverReport(k)
  PROVE  /\ TravelInv' /\ DecisionsGoOn
         /\ reports[k] \in OfferLists /\ IsDecision(reports[k]) /\ Elements(reports[k]) \subseteq tokens
         /\ InterledgerReceive(Operator, reports[k]) \/ UNCHANGED vars
         /\ UNCHANGED <<interledgerEvents, decisionOf, tokens>>
<1>1. /\ UNCHANGED <<decisionOf, forwarded, announced, reports, tokens>>
      /\ InterledgerReceive(Operator, reports[k]) \/ UNCHANGED vars
      /\ delivered' = [delivered EXCEPT ![k] = delivered[k] + 1]
  BY DEF DeliverReport
<1>2. interledgerEvents' = interledgerEvents
  BY <1>1 DEF InterledgerReceive, vars
<1>3. delivered' \in Seq(Nat) /\ Len(delivered') = Len(delivered)
  BY <1>1, UpdatedCount DEF TravelInv
<1>4. k \in DOMAIN reports /\ reports[k] \in OfferLists
  BY DEF TravelInv
<1>5. IsDecision(reports[k]) /\ Elements(reports[k]) \subseteq tokens
  BY <1>4 DEF TravelInv
<1> QED BY <1>1, <1>2, <1>3, <1>4, <1>5, TravelUntouched

-----------------------------------------------------------------------------
(***************************************************************************)
(* The request an offer was made for is forgotten when it is deleted.      *)
(* Some function still gives it for every offer, and in it decisions,      *)
(* lists of open offers and refunds agree.                                 *)
(***************************************************************************)
PassedOver(o, r) == \E m \in Decisions : decisionOf[m] = r /\ o \notin Elements(ListOf(m))

HomeInv(home) ==
  /\ \A o \in OfferID : offers[o].isDefined => home[o] = offers[o].requestID
  /\ \A n \in Decisions : \A o \in Elements(ListOf(n)) :
       o \in OfferID /\ o < offNum /\ decisionOf[n] = home[o] /\ home[o] # 0
  /\ \A r \in RequestID : \A o \in openOffersPerRequest[r] : home[o] = r
  /\ \A o \in claimable : PassedOver(o, home[o])

\* Offers that wait or are claimable were made.
LEMMA GivenOffers ==
  ASSUME IInv, VerdictsInv, NEW o \in OfferID,
         (\E r \in RequestID : o \in openOffersPerRequest[r]) \/ o \in claimable
  PROVE  o < offNum
<1>1. o \in Int /\ offNum \in Int
  BY MarketplaceAssumption DEF IInv, StorageInv, TypeOK, OffersTypeOK, OfferID
<1>2. CASE \E r \in RequestID : o \in openOffersPerRequest[r]
  <2>1. pendingPayments[o].created
    BY <1>2 DEF IInv, MoneyInv, UnresolvedOffersWait, WaitsIn, Unresolved
  <2> QED BY <1>1, <2>1 DEF IInv, MoneyInv, PaymentsInv
<1>3. CASE o \in claimable
  <2>1. pendingPayments[o].created \/ cashedOut[o] # NoAccount
    BY <1>3 DEF VerdictsInv
  <2> QED BY <1>1, <2>1 DEF IInv, MoneyInv, PaymentsInv
<1> QED BY <1>2, <1>3

LEMMA StillPassedOver ==
  ASSUME DecisionsGoOn, NEW o, NEW r, PassedOver(o, r)
  PROVE  \E m \in Decisions' : decisionOf'[m] = r /\ o \notin Elements((ListOf(m))')
BY DEF DecisionsGoOn, PassedOver

LEMMA HomesGoOn ==
  ASSUME IInv, IInv', VerdictsInv, NEW home \in [OfferID -> RequestID], HomeInv(home),
         OffersGoOn, DecisionsGoOn,
         \A o \in claimable' :
           o \in claimable \/ \E r \in RequestID : o \in openOffersPerRequest[r]
                                                   /\ PassedOver(o, r)
  PROVE  \E h \in [OfferID -> RequestID] : (HomeInv(h))'
<1>1. /\ offers' \in [OfferID -> Offer] /\ offNum \in Int /\ offNum' \in Int
      /\ openOffersPerRequest \in [RequestID -> SUBSET OfferID]
      /\ openOffersPerRequest' \in [RequestID -> SUBSET OfferID]
      /\ claimable \subseteq OfferID /\ claimable' \subseteq OfferID
      /\ OfferID \subseteq Int
  BY MarketplaceAssumption DEF IInv, StorageInv, TypeOK, OffersTypeOK, EscrowTypeOK, OfferID
<1>2. offNum' >= offNum
  BY DEF OffersGoOn
<1>3. PICK h \in [OfferID -> RequestID] :
        \A o \in OfferID : h[o] = IF o = offNum /\ offers'[o].isDefined
                                  THEN offers'[o].requestID ELSE home[o]
  <2> DEFINE f == [o \in OfferID |-> IF o = offNum /\ offers'[o].isDefined
                                     THEN offers'[o].requestID ELSE home[o]]
  <2>1. f \in [OfferID -> RequestID]
    BY <1>1 DEF Offer
  <2> QED BY <2>1
<1>4. \A o \in OfferID : o < offNum => h[o] = home[o]
  BY <1>1, <1>3
<1>5. \A o \in OfferID : offers[o].isDefined =>
        o < offNum /\ home[o] = offers[o].requestID /\ home[o] # 0
  BY DefinedOffers DEF HomeInv, IInv
<1>6. \A o \in OfferID : offers'[o].isDefined => h[o] = offers'[o].requestID
  <2> SUFFICES ASSUME NEW o \in OfferID, offers'[o].isDefined
               PROVE  h[o] = offers'[o].requestID
    OBVIOUS
  <2>1. CASE offers[o].isDefined /\ offers'[o].requestID = offers[o].requestID
    BY <1>4, <1>5, <2>1
  <2>2. CASE o = offNum
    BY <1>3, <2>2
  <2> QED BY <2>1, <2>2 DEF OffersGoOn
<1>7. \A n \in Decisions' : \A o \in Elements((ListOf(n))') :
        o \in OfferID /\ o < offNum' /\ decisionOf'[n] = h[o] /\ h[o] # 0
  <2> SUFFICES ASSUME NEW n \in Decisions', NEW o \in Elements((ListOf(n))')
               PROVE  o \in OfferID /\ o < offNum' /\ decisionOf'[n] = h[o] /\ h[o] # 0
    OBVIOUS
  <2>1. o \in OfferID /\ o < offNum /\ decisionOf'[n] = home[o] /\ home[o] # 0
    <3>1. CASE n \in Decisions
      BY <3>1 DEF DecisionsGoOn, HomeInv
    <3>2. CASE n \notin Decisions
      <4>1. OfOneRequest((ListOf(n))', decisionOf'[n])
        BY <3>2 DEF DecisionsGoOn
      <4>2. o \in OfferID /\ offers[o].isDefined /\ offers[o].requestID = decisionOf'[n]
        BY <4>1 DEF OfOneRequest, Elements
      <4> QED BY <1>5, <4>2
    <3> QED BY <3>1, <3>2
  <2> QED BY <1>1, <1>2, <1>4, <2>1
<1>8. \A r \in RequestID : \A o \in openOffersPerRequest'[r] : h[o] = r
  <2> SUFFICES ASSUME NEW r \in RequestID, NEW o \in openOffersPerRequest'[r]
               PROVE  h[o] = r
    OBVIOUS
  <2>1. o \in OfferID
    BY <1>1
  <2>2. o < offNum /\ home[o] = r
    <3>1. CASE o \in openOffersPerRequest[r]
      BY <2>1, <3>1, GivenOffers DEF HomeInv
    <3>2. CASE offers[o].isDefined /\ offers[o].requestID = r
      BY <1>5, <2>1, <3>2
    <3> QED BY <3>1, <3>2 DEF OffersGoOn
  <2> QED BY <1>4, <2>1, <2>2
<1>9. \A o \in claimable' :
        \E m \in Decisions' : decisionOf'[m] = h[o] /\ o \notin Elements((ListOf(m))')
  <2> SUFFICES ASSUME NEW o \in claimable'
               PROVE  \E m \in Decisions' :
                        decisionOf'[m] = h[o] /\ o \notin Elements((ListOf(m))')
    OBVIOUS
  <2>1. o \in OfferID
    BY <1>1
  <2>2. o < offNum
    BY <2>1, GivenOffers
  <2>3. PassedOver(o, home[o])
    BY DEF HomeInv
  <2> QED BY <1>4, <2>1, <2>2, <2>3, StillPassedOver
<1>10. (HomeInv(h))'
  BY <1>6, <1>7, <1>8, <1>9 DEF HomeInv, PassedOver
<1> QED BY <1>3, <1>10

LEMMA ReportsPassOver ==
  ASSUME IInv, VerdictsInv, NEW home \in [OfferID -> RequestID], HomeInv(home),
         NEW caller \in Account, NEW list \in OfferLists, IsDecision(list),
         InterledgerReceive(caller, list)
  PROVE  /\ OffersGoOn
         /\ \A o \in claimable' :
              o \in claimable \/ \E r \in RequestID : o \in openOffersPerRequest[r]
                                                      /\ PassedOver(o, r)
         /\ fulfilled' \subseteq fulfilled \cup Elements(list)
<1> DEFINE r == offers[list[1]].requestID
           reported == Elements(list)
           open == openOffersPerRequest[r]
<1>1. /\ ResolveRequest(r, reported) /\ UNCHANGED <<offers, offNum>>
      /\ list # << >> /\ \A i \in DOMAIN list : offers[list[i]].isDefined
  BY DEF InterledgerReceive, OffersInPayloadAreValid, offerVars
<1>2. /\ pendingPayments \in [OfferID -> Payment] /\ offNum \in Int
      /\ openOffersPerRequest \in [RequestID -> SUBSET OfferID]
  BY DEF IInv, StorageInv, TypeOK, OffersTypeOK, EscrowTypeOK
<1>3. 1 \in DOMAIN list /\ list[1] \in OfferID
  <2>1. list \in Seq(OfferID)
    BY MarketplaceAssumption
  <2> QED BY <1>1, <2>1
<1>4. r \in RequestID /\ home[list[1]] = r
  BY <1>1, <1>3, DefinedOffers DEF IInv, HomeInv
<1>5. PICK m \in Decisions : list = ListOf(m)
  BY DEF IsDecision
<1>6. decisionOf[m] = r
  <2>1. list[1] \in Elements(ListOf(m))
    BY <1>3, <1>5 DEF Elements
  <2> QED BY <1>4, <2>1 DEF HomeInv
<1> HIDE DEF r, reported
<1>7. /\ openOffersPerRequest' = [openOffersPerRequest EXCEPT ![r] = {}]
      /\ fulfilled' = fulfilled \cup (open \cap reported)
      /\ claimable' = claimable \cup {o \in open : pendingPayments'[o].toReturn}
      /\ \A o \in OfferID \cap open :
           pendingPayments'[o].toReturn = (pendingPayments[o].toReturn /\ o \notin reported)
  BY <1>1, <1>2 DEF ResolveRequest, Payment
<1>8. \A o \in claimable' \ claimable : o \in open /\ o \notin reported
  BY <1>2, <1>4, <1>7
<1>9. \A o \in claimable' \ claimable : PassedOver(o, r)
  BY <1>5, <1>6, <1>8 DEF PassedOver, reported
<1>10. OffersGoOn
  BY <1>1, <1>2, <1>4, <1>7 DEF OffersGoOn
<1>11. fulfilled' \subseteq fulfilled \cup Elements(list)
  BY <1>7 DEF reported
<1> QED BY <1>4, <1>8, <1>9, <1>10, <1>11

-----------------------------------------------------------------------------
(***************************************************************************)
(* The invariant of the settlement.                                        *)
(***************************************************************************)
SettlementInv ==
  /\ TravelInv
  /\ \E home \in [OfferID -> RequestID] : HomeInv(home)
  /\ fulfilled \subseteq tokens

LEMMA SettlementUsesContract ==
  ASSUME TravelInv, StorageInv, [SettlementNext]_settlementVars
  PROVE  [Next]_vars
<1>1. ASSUME NEW caller \in Account \ {Operator}, UserCall(caller) PROVE Next
  BY <1>1 DEF UserCall, Next
<1>2. ASSUME NEW k \in DOMAIN delivered, DeliverReport(k) PROVE [Next]_vars
  <2>1. Operator \in Account
    BY SettlementAssumption
  <2> QED BY <1>2, <2>1, DeliverTravel DEF Next, RoleCall
<1>3. ASSUME NEW n \in DOMAIN forwarded, ForwardDecision(n) PROVE UNCHANGED vars
  BY <1>3 DEF ForwardDecision
<1>4. IssueTokens => UNCHANGED vars
  BY DEF IssueTokens
<1>5. BlockIsMined => Next
  BY DEF BlockIsMined, Next
<1>6. UNCHANGED settlementVars => UNCHANGED vars
  BY DEF settlementVars
<1>7. /\ \A n \in DOMAIN forwarded : LoseDecision(n) => UNCHANGED vars
      /\ \A k \in DOMAIN delivered : LoseReport(k) => UNCHANGED vars
  BY DEF LoseDecision, LoseReport
<1> QED BY <1>1, <1>2, <1>3, <1>4, <1>5, <1>6, <1>7 DEF SettlementNext

LEMMA InitSettlementInv == SettlementInit => IInv /\ VerdictsInv /\ SettlementInv
<1> SUFFICES ASSUME SettlementInit PROVE IInv /\ VerdictsInv /\ SettlementInv
  OBVIOUS
<1>1. Init /\ IInv /\ VerdictsInv
  BY InitIInv, InitVerdictsInv DEF SettlementInit
<1>2. /\ interledgerEvents = << >> /\ claimable = {} /\ fulfilled = {}
      /\ offers = [o \in OfferID |-> NoOffer]
      /\ openOffersPerRequest = [r \in RequestID |-> {}]
  BY <1>1 DEF Init
<1>3. /\ decisionOf = << >> /\ forwarded = << >> /\ announced = << >>
      /\ reports = << >> /\ delivered = << >> /\ tokens = {}
  BY DEF SettlementInit
<1>4. TravelInv
  <2>1. Decisions = {} /\ DOMAIN announced = {} /\ DOMAIN reports = {}
    BY <1>2, <1>3 DEF Decisions
  <2>2. /\ decisionOf \in Seq(RequestID) /\ forwarded \in Seq(Nat) /\ delivered \in Seq(Nat)
        /\ announced \in Seq(OfferLists) /\ reports \in Seq(OfferLists)
        /\ Len(decisionOf) = Len(interledgerEvents) /\ Len(forwarded) = Len(interledgerEvents)
        /\ Len(delivered) = Len(reports)
    BY <1>2, <1>3
  <2> QED BY <1>3, <2>1, <2>2 DEF TravelInv
<1>5. \E home \in [OfferID -> RequestID] : HomeInv(home)
  <2>1. Decisions = {}
    BY <1>2 DEF Decisions
  <2>2. PICK home \in [OfferID -> RequestID] : home = [o \in OfferID |-> 0]
    BY ZeroesType
  <2>3. HomeInv(home)
    BY <1>2, <2>1, ZeroesType DEF HomeInv
  <2> QED BY <2>3
<1> QED BY <1>1, <1>2, <1>3, <1>4, <1>5 DEF SettlementInv

LEMMA NextSettlementInv ==
  ASSUME IInv, VerdictsInv, SettlementInv, [SettlementNext]_settlementVars
  PROVE  (IInv /\ VerdictsInv /\ SettlementInv)'
<1>1. StorageInv /\ TravelInv /\ fulfilled \subseteq tokens
  BY DEF IInv, SettlementInv
<1>2. IInv' /\ VerdictsInv' /\ StorageInv'
  BY <1>1, SettlementUsesContract, NextIInv, NextVerdicts DEF IInv
<1>3. PICK home \in [OfferID -> RequestID] : HomeInv(home)
  BY DEF SettlementInv
<1>4. ASSUME TravelInv', OffersGoOn, DecisionsGoOn, claimable' = claimable,
             fulfilled' = fulfilled, tokens \subseteq tokens'
      PROVE  SettlementInv'
  <2>1. \E h \in [OfferID -> RequestID] : (HomeInv(h))'
    BY <1>2, <1>3, <1>4, HomesGoOn
  <2> QED BY <1>1, <1>4, <2>1 DEF SettlementInv
<1>5. ASSUME TravelInv', tokens \subseteq tokens', UNCHANGED <<decisionOf, interledgerEvents>>,
             UNCHANGED <<offerVars, escrowVars>>
      PROVE  SettlementInv'
  <2>1. OffersGoOn
    BY <1>1, <1>5, OffersUntouched DEF offerVars, escrowVars
  <2> QED BY <1>4, <1>5, <2>1, SameDecisions DEF escrowVars
<1>6. ASSUME NEW caller \in Account \ {Operator}, UserCall(caller) PROVE SettlementInv'
  <2>1. OffersGoOn /\ UNCHANGED <<fulfilled, claimable>>
    BY <1>1, <1>6, UserCallFacts DEF UserCall
  <2>2. TravelInv' /\ DecisionsGoOn
    BY <1>1, <1>2, <1>6, UserCallTravel
  <2> QED BY <1>4, <1>6, <2>1, <2>2 DEF UserCall
<1>7. ASSUME NEW k \in DOMAIN delivered, DeliverReport(k) PROVE SettlementInv'
  <2>1. /\ TravelInv' /\ DecisionsGoOn /\ tokens' = tokens
        /\ reports[k] \in OfferLists /\ IsDecision(reports[k])
        /\ Elements(reports[k]) \subseteq tokens
        /\ UNCHANGED <<interledgerEvents, decisionOf>>
        /\ InterledgerReceive(Operator, reports[k]) \/ UNCHANGED vars
    BY <1>1, <1>7, DeliverTravel
  <2>2. CASE UNCHANGED vars
    BY <1>5, <2>1, <2>2 DEF vars
  <2>3. CASE InterledgerReceive(Operator, reports[k])
    <3>1. /\ OffersGoOn
          /\ \A o \in claimable' :
               o \in claimable \/ \E r \in RequestID : o \in openOffersPerRequest[r]
                                                       /\ PassedOver(o, r)
          /\ fulfilled' \subseteq fulfilled \cup Elements(reports[k])
      BY <1>3, <2>1, <2>3, ReportsPassOver, SettlementAssumption
    <3>2. \E h \in [OfferID -> RequestID] : (HomeInv(h))'
      BY <1>2, <1>3, <2>1, <3>1, HomesGoOn
    <3> QED BY <1>1, <2>1, <3>1, <3>2 DEF SettlementInv
  <2> QED BY <2>1, <2>2, <2>3
<1>8. ASSUME NEW n \in DOMAIN forwarded, ForwardDecision(n) PROVE SettlementInv'
  <2>1. TravelInv' /\ UNCHANGED <<vars, decisionOf, tokens>>
    BY <1>1, <1>8, ForwardTravel DEF ForwardDecision
  <2> QED BY <1>5, <2>1 DEF vars
<1>9. ASSUME IssueTokens PROVE SettlementInv'
  <2>1. TravelInv' /\ UNCHANGED <<vars, decisionOf>> /\ tokens \subseteq tokens'
    BY <1>1, <1>9, IssueTravel
  <2> QED BY <1>5, <2>1 DEF vars
<1>10. ASSUME UNCHANGED travelVars, UNCHANGED <<offerVars, escrowVars, interledgerEvents>>
       PROVE  SettlementInv'
  <2>1. TravelInv'
    BY <1>1, <1>10, TravelUntouched DEF travelVars, TravelInv
  <2> QED BY <1>5, <1>10, <2>1 DEF travelVars
<1>11. BlockIsMined \/ UNCHANGED settlementVars => SettlementInv'
  BY <1>10 DEF BlockIsMined, Tick, settlementVars, vars
<1>12. ASSUME \/ \E n \in DOMAIN forwarded : LoseDecision(n)
             \/ \E k \in DOMAIN delivered : LoseReport(k)
       PROVE  SettlementInv'
  <2>1. UNCHANGED <<vars, decisionOf, forwarded, announced, reports, delivered, tokens>>
    BY <1>12 DEF LoseDecision, LoseReport
  <2>2. TravelInv'
    BY <1>1, <2>1, TravelUntouched DEF vars, TravelInv
  <2> QED BY <1>5, <2>1, <2>2 DEF vars
<1> QED BY <1>2, <1>6, <1>7, <1>8, <1>9, <1>11, <1>12 DEF SettlementNext

(***************************************************************************)
(* The settlement uses the contract as its own specification lets any      *)
(* account use it: what travels back is a list the contract may be given.  *)
(***************************************************************************)
THEOREM SettlementUsesMarketplace == SettlementSpec => Spec
<1>1. SettlementInit => Init /\ IInv /\ VerdictsInv /\ SettlementInv
  BY InitSettlementInv DEF SettlementInit
<1>2. IInv /\ VerdictsInv /\ SettlementInv /\ [SettlementNext]_settlementVars
        => (IInv /\ VerdictsInv /\ SettlementInv)'
  BY NextSettlementInv
<1>3. IInv /\ SettlementInv /\ [SettlementNext]_settlementVars => [Next]_vars
  BY SettlementUsesContract DEF IInv, SettlementInv
<1> QED BY <1>1, <1>2, <1>3, PTL DEF SettlementSpec, Spec

(***************************************************************************)
(* Whatever travels late, in another order or again: no money goes to a    *)
(* locker owner for an offer without an access token, and an offer with a  *)
(* token is refunded only if its request was decided again without it      *)
(* (SMAUGMarketplace.sol:258 lets it).                                     *)
(***************************************************************************)
THEOREM TokensAndMoney == SettlementSpec => []TokensAreWorthTheirMoney
<1>1. SettlementInit => IInv /\ VerdictsInv /\ SettlementInv
  BY InitSettlementInv
<1>2. IInv /\ VerdictsInv /\ SettlementInv /\ [SettlementNext]_settlementVars
        => (IInv /\ VerdictsInv /\ SettlementInv)'
  BY NextSettlementInv
<1>3. IInv /\ SettlementInv => TokensAreWorthTheirMoney
  <2> SUFFICES ASSUME IInv, SettlementInv, NEW o \in tokens \cap claimable PROVE DecidedOtherwise(o)
    BY DEF SettlementInv, TokensAreWorthTheirMoney
  <2>1. PICK home \in [OfferID -> RequestID] : HomeInv(home)
    BY DEF SettlementInv
  <2>2. PICK n \in Decisions : o \in Elements(ListOf(n))
    BY DEF SettlementInv, TravelInv
  <2>3. PICK m \in Decisions : decisionOf[m] = home[o] /\ o \notin Elements(ListOf(m))
    BY <2>1 DEF HomeInv, PassedOver
  <2>4. decisionOf[n] = home[o] /\ home[o] # 0
    BY <2>1, <2>2 DEF HomeInv
  <2>5. DOMAIN decisionOf = Decisions
    BY DEF IInv, StorageInv, TypeOK, SettlementInv, TravelInv, Decisions
  <2> QED BY <2>2, <2>3, <2>4, <2>5 DEF DecidedOtherwise, ListOf
<1> QED BY <1>1, <1>2, <1>3, PTL DEF SettlementSpec

(***************************************************************************)
(* So the money follows the reports while decisions travel, too.           *)
(***************************************************************************)
THEOREM SettlementMoneyIsSafe == SettlementSpec => [](Solvent /\ RightPartyPaid) /\ VerdictIsFinal
BY SettlementUsesMarketplace, Solvency, RightParty, Finality, PTL
=============================================================================
