---------------------------- MODULE MCDemoClient ----------------------------
(***************************************************************************)
(* Instances of DemoClient.  A request lasts five seconds, which become    *)
(* three minutes of two seconds, from 1 to 7.  Offers are typed for dates  *)
(* that fit, that end after the request once rounded up (2 to 7), and that *)
(* are in the wrong order (5 to 2).                                        *)
(***************************************************************************)
EXTENDS DemoClient, TLC

CONSTANTS operator, maker, renter   \* accounts

MCNodeAccounts == <<maker, renter>>
MCTestRenter   == [i \in 1 .. 3 |-> renter]
MCTestRequest  == [deadline |-> 0, start |-> 1, end |-> 6, price |-> 1, locker |-> 7]
MCTestOffer    == [i \in 1 .. 3 |-> [start |-> 2, end |-> 5, price |-> 2]]

MCRequestForms == {MCTestRequest}
MCOfferForms   == {[start |-> dates[1], end |-> dates[2], price |-> 2] :
                     dates \in {<<2, 5>>, <<2, 7>>, <<5, 2>>}}

Extras(forms) == {OfferExtraOf(form, key) : form \in forms, key \in {1, 2}}
MCRequestExtraInputs == {RequestExtraOf(form) : form \in MCRequestForms}
MCOfferExtraInputs   == Extras(MCOfferForms \cup {MCTestOffer[i] : i \in 1 .. 3})
MCOfferLists == {<<1>>} \cup {<<o, p>> : o, p \in 1 .. MaxOffers}
MCListForms  == {<<1>>, <<1, MaxOffers>>}

(***************************************************************************)
(* The test entry beside another client, who publishes a request, bids and *)
(* decides: two requests and four offers leave room for both.  The user    *)
(* makes the test offers with the one account of the node.  What follows   *)
(* an entry that failed before its decision is left to the run of the      *)
(* whole client.                                                           *)
(***************************************************************************)
MCOneAccount      == <<maker>>
MCSameRenter      == [i \in 1 .. 3 |-> maker]
MCTestOfferExtras == Extras({MCTestOffer[i] : i \in 1 .. 3})
MCFirstOffer      == {<<1>>}

FailedEntriesEnd ==
  step = "menu" => \A r \in RequestID : requests[r].requestMaker = maker => requests[r].isDecided
=============================================================================
