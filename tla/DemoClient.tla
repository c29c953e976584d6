----------------------------- MODULE DemoClient -----------------------------
(***************************************************************************)
(* The command line demo, main.ts: one user at a menu, who publishes       *)
(* requests, makes offers, decides, settles and claims money on the        *)
(* marketplace contract, while other clients and Interledger use it too.   *)
(*                                                                         *)
(* A menu entry is a chain of awaited calls.  A call is mined in one step, *)
(* a step of Marketplace, and its receipt is handled in another; anything  *)
(* may happen on the chain in between.  A call that is refused, that       *)
(* cannot be sent or whose receipt never comes throws, which ends the      *)
(* entry and leads back to the menu: nothing is undone or resumed.  The    *)
(* entries of a single call only print its receipt, so they are one step.  *)
(* The list unseenEvents and the debug flag only feed the screen and are   *)
(* left out.                                                               *)
(***************************************************************************)
EXTENDS Marketplace

CONSTANTS
  NodeAccounts,   \* the accounts of the user's node, in the node's order
  TestRenter,     \* who makes the first, second and third test offer
  OtherAccounts,  \* the accounts of other clients and of Interledger
  RequestForms,   \* what a user may type for a request
  OfferForms,     \* what a user may type for an offer
  ListForms,      \* the lists of offers a user may type and Interledger reports
  TestRequest,    \* the dates and prices of createTestRequest
  TestOffer,      \* the dates and prices of createTestOffer1 to 3
  MaxSessions     \* bound: runs of the demo

OwnAccounts == {NodeAccounts[i] : i \in DOMAIN NodeAccounts}

\* Dates are seconds, of the Date objects the demo makes of the user's text.
RequestForm == [deadline : Nat, start : Nat, end : Nat, price : Nat, locker : Word]
OfferForm   == [start : Nat, end : Nat, price : Nat]

ASSUME ClientAssumption ==
  /\ NodeAccounts \in Seq(Account) /\ NodeAccounts # << >>
  /\ TestRenter \in [1 .. 3 -> OwnAccounts]
  /\ OtherAccounts \subseteq Account \ OwnAccounts
  /\ RequestForms \subseteq RequestForm /\ TestRequest \in RequestForm
  /\ OfferForms \subseteq OfferForm     /\ TestOffer \in [1 .. 3 -> OfferForm]
  /\ ListForms \subseteq OfferLists \ {<< >>}
  /\ \A i \in 1 .. 3 : TestOffer[i].price > 0
  \* The last Date there is lies far below the last word, in seconds.
  /\ \A form \in OfferForms \cup {TestOffer[i] : i \in 1 .. 3} :
       form.end + SecondsPerMinute <= WordSize
  /\ MaxSessions \in Nat

VARIABLES
  currentAccount,
  step,                          \* the call the menu entry is at, or "menu"
  testing,                       \* the entry is triggerInterledger
  requestForm, offerForm,        \* what the user typed
  token,                         \* the access token got from the backend
  requestID, offerID,            \* identifiers typed or returned
  testOffers,                    \* the test offers completed so far
  answer,                        \* the identifier in the receipt on its way
  keys,                          \* offers whose key pair is in memory
  wire,                          \* events on their way to the listener, by report
  unseenOfferFulfilledEvents, unseenOfferUnFulfilledEvents,
  sessions                       \* runs of the demo so far

\* What the demo does not keep, to state the properties.
VARIABLES
  bought,       \* offers completed in this session, as their dates were typed
  unanswered,   \* of these, the ones whose receipt was lost
  heard,        \* offers whose OfferFulfilled event came in this session
  opened        \* offers whose access token was decrypted and printed

entryVars  == <<step, testing, requestForm, offerForm, token, requestID, offerID,
                testOffers, answer>>
memoryVars == <<keys, bought, unanswered, opened>>
eventVars  == <<unseenOfferFulfilledEvents, unseenOfferUnFulfilledEvents, heard>>
userVars   == <<currentAccount, sessions>>
clientVars == <<entryVars, memoryVars, eventVars, userVars, wire>>

Idle     == -1   \* no receipt is awaited
Event    == [offerID : OfferID, fulfilled : BOOLEAN]
NoForm   == [deadline |-> 0, start |-> 0, end |-> 0, price |-> 0, locker |-> 0]
NoDates  == [start |-> 0, end |-> 0, price |-> 0]
Call     == {"getNewAccessToken", "submitRequest", "submitRequestExtra", "submitOffer",
             "submitOfferExtra", "decideRequest"}

ClientInit ==
  /\ Init
  /\ currentAccount = NodeAccounts[1]
  /\ step = "menu" /\ testing = FALSE
  /\ requestForm = NoForm /\ offerForm = NoDates
  /\ token = NoToken
  /\ requestID = 0 /\ offerID = 0
  /\ testOffers = << >>
  /\ answer = Idle
  /\ keys = {}
  /\ wire = << >>
  /\ unseenOfferFulfilledEvents = << >>
  /\ unseenOfferUnFulfilledEvents = << >>
  /\ sessions = 1
  /\ bought = [o \in OfferID |-> NoDates]
  /\ unanswered = {} /\ heard = {} /\ opened = {}

-----------------------------------------------------------------------------
(***************************************************************************)
(* What the user types, and what the demo makes of it.                     *)
(***************************************************************************)
\* The dates must not be past when they are typed.
RequestFormIsValid(form) ==
  /\ form.deadline >= block /\ form.start >= block /\ form.end >= block
  /\ form.price > 0 /\ form.locker > 0

OfferFormIsValid(form) ==
  form.start >= block /\ form.end >= block /\ form.price > 0

TypedID(ids) == ids \ {0}

\* Mutant: minutes are rounded down.
WholeMinutes(start, end) == (end - start) \div SecondsPerMinute

\* Math.ceil.  Nobody checks that the start comes before the end: the distance
\* can be negative.
DistanceInMinutes(start, end) == (end - start + SecondsPerMinute - 1) \div SecondsPerMinute

\* A negative number becomes its two's complement in the word it is sent in,
\* or the call is refused (CallFails): that is up to the encoder of web3.
AsWord(n) == n % WordSize

\* No rules: what encodeRulesToSolidityArray returns is not kept.
RequestExtraOf(form) ==
  <<form.start, AsWord(DistanceInMinutes(form.start, form.end)), form.price, form.locker>>

OfferExtraOf(form, key) ==
  <<form.start, AsWord(DistanceInMinutes(form.start, form.end)), Auction, key>>

\* The key pair of a seed, which is 1, or 2 for the second and third test offer.
EncryptionKey == IF testing /\ testOffers # << >> THEN 2 ELSE 1

ASSUME ClientInputsAssumption ==
  /\ \A form \in RequestForms \cup {TestRequest} :
       form.deadline \in Deadlines /\ RequestExtraOf(form) \in RequestExtraInputs
  /\ \A form \in OfferForms \cup {TestOffer[i] : i \in 1 .. 3} :
       form.price \in Payments /\ \A key \in {1, 2} : OfferExtraOf(form, key) \in OfferExtraInputs
  /\ \A o, p \in TypedID(OfferID) : <<o, p>> \in OfferLists

\* On whose behalf, and for which dates, the entry is at work.
Requester == IF testing THEN NodeAccounts[1] ELSE currentAccount
Bidder    == IF testing THEN TestRenter[Len(testOffers) + 1] ELSE currentAccount
Dates     == IF testing THEN TestOffer[Len(testOffers) + 1] ELSE offerForm
TestSelection == <<testOffers[1], testOffers[3]>>

-----------------------------------------------------------------------------
(***************************************************************************)
(* The menu.                                                               *)
(***************************************************************************)
ChangeAccount(account) ==
  /\ step = "menu"
  /\ currentAccount' = account
  /\ UNCHANGED <<vars, entryVars, memoryVars, eventVars, sessions, wire>>

\* An entry of several calls starts with what the user typed.
Enter(call, r) ==
  /\ step = "menu"
  /\ step' = call
  /\ requestID' = r
  /\ UNCHANGED <<vars, token, offerID, testOffers, answer, memoryVars, eventVars, userVars, wire>>

TriggerInterledger ==
  /\ Enter("getNewAccessToken", 0)
  /\ testing' = TRUE
  /\ requestForm' = TestRequest
  /\ UNCHANGED offerForm

HandleAuctionRequestCreation(form) ==
  /\ RequestFormIsValid(form)
  /\ Enter("getNewAccessToken", 0)
  /\ requestForm' = form
  /\ UNCHANGED <<testing, offerForm>>

HandleOfferCreation(r, form) ==
  /\ OfferFormIsValid(form)
  /\ Enter("submitOffer", r)
  /\ offerForm' = form
  /\ UNCHANGED <<testing, requestForm>>

\* The entries of a single call.  The two that claim money are the same.
HandleRequestClosing(r) ==
  /\ step = "menu" /\ CloseRequest(currentAccount, r) /\ UNCHANGED clientVars
HandleRequestDecision(r, list) ==
  /\ step = "menu" /\ DecideRequest(currentAccount, r, list) /\ UNCHANGED clientVars
HandleOfferSettlment(r, o) ==
  /\ step = "menu" /\ SettleTrade(currentAccount, r, o) /\ UNCHANGED clientVars
HandleCreatorClaim(o) ==
  /\ step = "menu" /\ Withdraw(currentAccount, o) /\ UNCHANGED clientVars

\* A token is decrypted with the keys of its offer; the first one without
\* keys throws, so the tokens behind it are not looked at and nothing is removed.
Readable(list, i) == \A j \in 1 .. i : list[j] \in keys

\* Mutant: the list is emptied although a token could not be opened.
CheckAndCleanAnyway ==
  /\ step = "menu"
  /\ opened' = opened \cup {unseenOfferFulfilledEvents[i] :
                              i \in {j \in DOMAIN unseenOfferFulfilledEvents :
                                       Readable(unseenOfferFulfilledEvents, j)}}
  /\ unseenOfferFulfilledEvents' = << >>
  /\ unseenOfferUnFulfilledEvents' = << >>
  /\ UNCHANGED <<vars, entryVars, keys, bought, unanswered, heard, userVars, wire>>

CheckForOffersEvents ==
  /\ step = "menu"
  /\ opened' = opened \cup {unseenOfferFulfilledEvents[i] :
                              i \in {j \in DOMAIN unseenOfferFulfilledEvents :
                                       Readable(unseenOfferFulfilledEvents, j)}}
  /\ \/ /\ Readable(unseenOfferFulfilledEvents, Len(unseenOfferFulfilledEvents))
        /\ unseenOfferFulfilledEvents' = << >>
        /\ unseenOfferUnFulfilledEvents' = << >>
     \/ /\ ~Readable(unseenOfferFulfilledEvents, Len(unseenOfferFulfilledEvents))
        /\ UNCHANGED <<unseenOfferFulfilledEvents, unseenOfferUnFulfilledEvents>>
  /\ UNCHANGED <<vars, entryVars, keys, bought, unanswered, heard, userVars, wire>>

Menu ==
  \/ \E i \in DOMAIN NodeAccounts : ChangeAccount(NodeAccounts[i])
  \/ TriggerInterledger
  \/ \E form \in RequestForms : HandleAuctionRequestCreation(form)
  \/ \E r \in TypedID(RequestID) :
       \/ \E form \in OfferForms : HandleOfferCreation(r, form)
       \/ HandleRequestClosing(r)
       \/ \E list \in ListForms : HandleRequestDecision(r, list)
       \/ \E o \in TypedID(OfferID) : HandleOfferSettlment(r, o)
  \/ \E o \in TypedID(OfferID) : HandleCreatorClaim(o)
  \/ CheckForOffersEvents

-----------------------------------------------------------------------------
(***************************************************************************)
(* The calls of an entry.                                                  *)
(***************************************************************************)
GetNewAccessToken ==
  /\ step = "getNewAccessToken"
  /\ \E t \in Token : t.subject = Requester /\ token' = t
  /\ step' = "submitRequest"
  /\ UNCHANGED <<vars, testing, requestForm, offerForm, requestID, offerID, testOffers,
                 answer, memoryVars, eventVars, userVars, wire>>

\* A call is mined; the receipt will name the identifier.
Sent(call, id) ==
  /\ step = call
  /\ answer = Idle
  /\ answer' = id
  /\ UNCHANGED <<step, testing, requestForm, offerForm, token, requestID, offerID,
                 testOffers, keys, unanswered, opened, eventVars, userVars, wire>>

SendRequest ==
  /\ Sent("submitRequest", reqNum)
  /\ \E signer \in Account :
       SubmitAuthorisedRequest(Requester, token, signer, requestForm.deadline)
  /\ UNCHANGED bought

SendRequestExtra ==
  /\ Sent("submitRequestExtra", requestID)
  /\ SubmitRequestArrayExtra(Requester, requestID, RequestExtraOf(requestForm))
  /\ UNCHANGED bought

SendOffer ==
  /\ Sent("submitOffer", offNum)
  /\ SubmitOffer(Bidder, requestID)
  /\ UNCHANGED bought

SendOfferExtra ==
  /\ Sent("submitOfferExtra", offerID)
  /\ SubmitOfferArrayExtra(Bidder, offerID, OfferExtraOf(Dates, EncryptionKey), Dates.price)
  /\ bought' = [bought EXCEPT ![offerID] = Dates]

SendTestDecision ==
  /\ Sent("decideRequest", requestID)
  /\ DecideRequest(Requester, requestID, TestSelection)
  /\ UNCHANGED bought

BackToMenu ==
  /\ step' = "menu" /\ testing' = FALSE
  /\ requestForm' = NoForm /\ offerForm' = NoDates
  /\ token' = NoToken
  /\ requestID' = 0 /\ offerID' = 0
  /\ testOffers' = << >>

\* The receipt of the last call of the entry.
Finished ==
  /\ \/ step = "decideRequest"
     \/ step \in {"submitRequestExtra", "submitOfferExtra"} /\ ~testing
  /\ BackToMenu

\* Mutant: the identifier is read after the receipt was dropped.
RequestSubmittedLate ==
  /\ step = "submitRequest"
  /\ step' = "submitRequestExtra"
  /\ requestID' = answer'
  /\ UNCHANGED <<testing, requestForm, offerForm, token, offerID, testOffers>>

\* An identifier is kept for the next call of the entry.
RequestSubmitted ==
  /\ step = "submitRequest"
  /\ step' = "submitRequestExtra"
  /\ requestID' = answer
  /\ UNCHANGED <<testing, requestForm, offerForm, token, offerID, testOffers>>

OfferSubmitted ==
  /\ step = "submitOffer"
  /\ step' = "submitOfferExtra"
  /\ offerID' = answer
  /\ UNCHANGED <<testing, requestForm, offerForm, token, requestID, testOffers>>

\* triggerInterledger: after the request three offers, then the decision.
TestRequestCompleted ==
  /\ step = "submitRequestExtra" /\ testing
  /\ step' = "submitOffer"
  /\ UNCHANGED <<testing, requestForm, offerForm, token, requestID, offerID, testOffers>>

\* Mutant: the last offer there is is taken for the one just completed.
LastOfferCompleted ==
  /\ step = "submitOfferExtra" /\ testing
  /\ testOffers' = Append(testOffers, offNum - 1)
  /\ step' = IF Len(testOffers) < 2 THEN "submitOffer" ELSE "decideRequest"
  /\ UNCHANGED <<testing, requestForm, offerForm, token, requestID, offerID>>

TestOfferCompleted ==
  /\ step = "submitOfferExtra" /\ testing
  /\ testOffers' = Append(testOffers, offerID)
  /\ step' = IF Len(testOffers) < 2 THEN "submitOffer" ELSE "decideRequest"
  /\ UNCHANGED <<testing, requestForm, offerForm, token, requestID, offerID>>

\* Mutant: the keys are kept once the offer is submitted.
KeepKeysBeforeExtra ==
  keys' = IF step = "submitOffer" THEN keys \cup {answer} ELSE keys

KeepKeys ==
  keys' = IF step = "submitOfferExtra" THEN keys \cup {offerID} ELSE keys

ReceiptArrives ==
  /\ answer # Idle
  /\ answer' = Idle
  /\ \/ Finished
     \/ RequestSubmitted
     \/ OfferSubmitted
     \/ TestRequestCompleted
     \/ TestOfferCompleted
  /\ KeepKeys
  /\ UNCHANGED <<vars, bought, unanswered, opened, eventVars, userVars, wire>>

\* The call was mined, but the demo gives up waiting for its receipt.
ReceiptLost ==
  /\ answer # Idle
  /\ answer' = Idle
  /\ BackToMenu
  /\ unanswered' = IF step = "submitOfferExtra" THEN unanswered \cup {offerID} ELSE unanswered
  /\ UNCHANGED <<vars, keys, bought, opened, eventVars, userVars, wire>>

\* The call is refused, reverted or cannot be sent.
CallFails ==
  /\ step # "menu"
  /\ answer = Idle
  /\ BackToMenu
  /\ UNCHANGED <<vars, answer, memoryVars, eventVars, userVars, wire>>

EntryStep ==
  \/ GetNewAccessToken
  \/ SendRequest \/ SendRequestExtra \/ SendOffer \/ SendOfferExtra
  \/ SendTestDecision
  \/ ReceiptArrives \/ ReceiptLost
  \/ CallFails

-----------------------------------------------------------------------------
(***************************************************************************)
(* Events, other users, and the end of a session.                          *)
(***************************************************************************)
\* Other users publish, decide and offer, and Interledger reports; what they
\* settle and withdraw does not touch the demo.
\* The verdicts a report emits go to every listener, in the order the offers
\* were completed in, which can be any.
Verdicts ==
  {[offerID |-> o, fulfilled |-> TRUE] : o \in fulfilled' \ fulfilled} \cup
  {[offerID |-> o, fulfilled |-> FALSE] : o \in claimable' \ claimable}

OtherCall(caller) ==
  /\ \/ RequestCall(caller)
     \/ \E r \in RequestID : SubmitOffer(caller, r)
     \/ \E o \in OfferID, extra \in OfferExtraInputs, paid \in Payments :
          SubmitOfferArrayExtra(caller, o, extra, paid)
     \/ \E list \in ListForms : InterledgerReceive(caller, list)
  /\ wire' = IF Verdicts = {} THEN wire ELSE Append(wire, Verdicts)
  /\ UNCHANGED <<entryVars, memoryVars, eventVars, userVars>>

TimePasses == Tick /\ UNCHANGED clientVars

\* The callback of the listener; it hears the verdicts of all offers.
HearEvent(event) ==
  /\ wire # << >>
  /\ event \in wire[1]
  /\ wire' = IF wire[1] = {event} THEN Tail(wire) ELSE [wire EXCEPT ![1] = @ \ {event}]
  /\ \/ /\ event.fulfilled
        /\ unseenOfferFulfilledEvents' = Append(unseenOfferFulfilledEvents, event.offerID)
        /\ heard' = heard \cup {event.offerID}
        /\ UNCHANGED unseenOfferUnFulfilledEvents
     \/ /\ ~event.fulfilled
        /\ unseenOfferUnFulfilledEvents' = Append(unseenOfferUnFulfilledEvents, event.offerID)
        /\ UNCHANGED <<unseenOfferFulfilledEvents, heard>>
  /\ UNCHANGED <<vars, entryVars, memoryVars, userVars>>

\* The user leaves, by the menu or by an interrupt, and starts the demo again:
\* its memory is lost and events on their way are not heard.
Exit ==
  /\ sessions < MaxSessions
  /\ sessions' = sessions + 1
  /\ currentAccount' = NodeAccounts[1]
  /\ BackToMenu
  /\ answer' = Idle
  /\ keys' = {}
  /\ wire' = << >>
  /\ unseenOfferFulfilledEvents' = << >>
  /\ unseenOfferUnFulfilledEvents' = << >>
  /\ bought' = [o \in OfferID |-> NoDates]
  /\ unanswered' = {} /\ heard' = {} /\ opened' = {}
  /\ UNCHANGED vars

ClientNext ==
  \/ Menu
  \/ EntryStep
  \/ \E caller \in OtherAccounts : OtherCall(caller)
  \/ TimePasses
  \/ \E event \in Event : HearEvent(event)
  \/ Exit

ClientSpec == ClientInit /\ [][ClientNext]_<<vars, clientVars>>

-----------------------------------------------------------------------------
EntryTypeOK ==
  /\ step \in Call \cup {"menu"} /\ testing \in BOOLEAN
  /\ requestForm \in RequestForms \cup {TestRequest, NoForm}
  /\ offerForm \in OfferForms \cup {NoDates}
  /\ token \in Token \cup {NoToken}
  /\ requestID \in RequestID /\ offerID \in OfferID
  /\ testOffers \in Seq(OfferID)
  /\ answer \in {Idle} \cup RequestID \cup OfferID

MemoryTypeOK ==
  /\ keys \subseteq OfferID
  /\ bought \in [OfferID -> OfferForms \cup {NoDates} \cup {TestOffer[i] : i \in 1 .. 3}]
  /\ unanswered \subseteq OfferID
  /\ opened \subseteq OfferID

EventsTypeOK ==
  /\ wire \in Seq(SUBSET Event)
  /\ unseenOfferFulfilledEvents \in Seq(OfferID)
  /\ unseenOfferUnFulfilledEvents \in Seq(OfferID)
  /\ heard \subseteq OfferID

(***************************************************************************)
(* Every variable of the demo has its type.                                *)
(***************************************************************************)
ClientTypeOK ==
  /\ EntryTypeOK
  /\ MemoryTypeOK
  /\ EventsTypeOK
  /\ currentAccount \in OwnAccounts
  /\ sessions \in Nat

Bought == {o \in OfferID : bought[o] # NoDates}

(***************************************************************************)
(* The keys of an offer are kept only when the receipt of its last call    *)
(* arrives (main.ts:519).  Every offer the user completed in this session  *)
(* has them, so that its access token can be opened, unless that receipt   *)
(* is still awaited or was lost; and keys are kept for nothing else.       *)
(***************************************************************************)
PaidOffersCanBeRead ==
  /\ keys \subseteq Bought
  /\ Bought \subseteq keys \cup unanswered \cup (IF answer = Idle THEN {} ELSE {offerID})
  /\ \A o \in Bought : escrowed[o].payer \in OwnAccounts

(***************************************************************************)
(* A token that was heard of stays in the list until it was opened, for    *)
(* whatever reason a check of the list fails (main.ts:807).                *)
(***************************************************************************)
TokensStayUntilOpened ==
  heard \subseteq opened \cup Elements(unseenOfferFulfilledEvents)

(***************************************************************************)
(* The rent an offer is completed for starts when the user typed, ends, as *)
(* the contract reckons, when the user typed or less than a minute later   *)
(* (utils.ts:147), and does so without wrapping around unless the dates    *)
(* were typed in the wrong order; and the dates typed lie between the ends *)
(* the contract reckons for the request.  Nothing refuses reversed dates   *)
(* (main.ts:557-571): their rent is of almost as many minutes as a word    *)
(* can count, and ends where the user typed only because the sum wraps.    *)
(***************************************************************************)
RentKeepsTypedDates ==
  \A o \in Bought :
    LET extra   == offersExtra[o]
        request == requestsExtra[offers[o].requestID]
    IN  /\ extra.startOfRentTime = bought[o].start
        /\ EndOfRent(extra) \in bought[o].end .. bought[o].end + SecondsPerMinute - 1
        /\ bought[o].start <= bought[o].end =>
             EndOfRent(extra) = extra.startOfRentTime + extra.duration * SecondsPerMinute
        /\ offers[o].isDefined =>
             /\ request.startOfRentTime <= bought[o].start
             /\ bought[o].end <= EndOfRent(request)

(***************************************************************************)
(* When triggerInterledger comes to its decision, the contract cannot      *)
(* refuse it: whatever other users did since the test offers were made,    *)
(* the two it selects are open offers of its request, and their tokens     *)
(* can be opened.                                                          *)
(***************************************************************************)
TestDecisionIsProper ==
  (step = "decideRequest" /\ answer = Idle) =>
    /\ Len(testOffers) = 3
    /\ AcceptedOffersListIsProper(requestID, TestSelection)
    /\ Elements(TestSelection) \subseteq keys

=============================================================================
