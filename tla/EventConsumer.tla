---------------------------- MODULE EventConsumer ----------------------------
(***************************************************************************)
(* The database of the backend as a replica of the marketplace contract.   *)
(* The contract's events reach a Kafka topic, in order; one thread of the  *)
(* backend reads them, reads the details from the contract as it is then,  *)
(* and updates the rows of requests and offers.                            *)
(*                                                                         *)
(* The consumer has no group, so it remembers nothing: whenever the        *)
(* backend starts it listens from the end of the topic.  The only database *)
(* the code configures is an SQLite in memory: it enforces no foreign key  *)
(* and is empty after a start.                                             *)
(***************************************************************************)
EXTENDS Integers, Sequences

CONSTANTS
  MaxRequests,   \* bound: requests ever made
  MaxOffers,     \* bound: offers ever made
  MaxEvents,     \* bound: messages of the topic
  MaxRestarts,   \* bound: starts after the first
  Faults         \* what may go wrong: "repeat", "raise", "restart"

RequestID == 1 .. MaxRequests
OfferID   == 1 .. MaxOffers

ASSUME ConsumerAssumption ==
  /\ MaxRequests \in Nat /\ MaxOffers \in Nat
  /\ MaxEvents \in Nat /\ MaxRestarts \in Nat

VARIABLES
  stage,        \* contract: per request; a closed one may be decided too
  deleted,      \* contract: the requests deleted, their offers with them
  offers,       \* contract: per offer, its request and whether it is complete
  topic,        \* the messages of the broker
  consumer,     \* the thread: "starting", "running", or "dead"
  position,     \* the messages it has read
  heardFrom,    \* the messages it never got, as it listened later
  requestRows,  \* table marketplace_request
  offerRows,    \* table marketplace_offer
  restarts

contractVars == <<stage, deleted, offers>>
rowVars      == <<requestRows, offerRows>>
consumerVars == <<consumer, position, heardFrom>>
vars == <<contractVars, topic, consumerVars, rowVars, restarts>>

NoOffer      == [request |-> 0, complete |-> FALSE]
NoRequestRow == [status |-> "none", extra |-> "none"]
NoOfferRow   == [request |-> 0, extra |-> "none"]

RequestEvent(name, r)  == [name |-> name, request |-> r, offer |-> 0]
OfferAdded(o, r)       == [name |-> "OfferAdded", request |-> r, offer |-> o]
OfferExtraAdded(o)     == [name |-> "OfferExtraAdded", request |-> 0, offer |-> o]

Init ==
  /\ stage = [r \in RequestID |-> "none"] /\ deleted = {}
  /\ offers = [o \in OfferID |-> NoOffer]
  /\ topic = << >>
  /\ consumer = "starting" /\ position = 0 /\ heardFrom = 0
  /\ requestRows = [r \in RequestID |-> NoRequestRow]
  /\ offerRows = [o \in OfferID |-> NoOfferRow]
  /\ restarts = 0

-----------------------------------------------------------------------------
(***************************************************************************)
(* The contract and its events.                                            *)
(***************************************************************************)
Emit(events) ==
  /\ Len(topic) + Len(events) <= MaxEvents
  /\ topic' = topic \o events

\* The event of a new request is none of those the consumer looks at.
SubmitRequest(r) ==
  /\ stage[r] = "none"
  /\ stage' = [stage EXCEPT ![r] = "pending"]
  /\ UNCHANGED <<deleted, offers, topic, consumerVars, rowVars, restarts>>

SubmitRequestExtra(r) ==
  /\ stage[r] = "pending"
  /\ stage' = [stage EXCEPT ![r] = "open"]
  /\ Emit(<<RequestEvent("RequestExtraAdded", r)>>)
  /\ UNCHANGED <<deleted, offers, consumerVars, rowVars, restarts>>

CloseRequest(r) ==
  /\ stage[r] = "open"
  /\ stage' = [stage EXCEPT ![r] = "closed"]
  /\ Emit(<<RequestEvent("RequestClosed", r)>>)
  /\ UNCHANGED <<deleted, offers, consumerVars, rowVars, restarts>>

\* In whatever stage the request is, and again.
DecideRequest(r) ==
  /\ stage[r] # "none" /\ r \notin deleted
  /\ stage' = [stage EXCEPT ![r] = "decided"]
  /\ Emit(<<RequestEvent("RequestDecided", r)>>)
  /\ UNCHANGED <<deleted, offers, consumerVars, rowVars, restarts>>

DeleteRequest(r) ==
  /\ stage[r] \in {"closed", "decided"} /\ r \notin deleted
  /\ deleted' = deleted \cup {r}
  /\ UNCHANGED <<stage, offers, topic, consumerVars, rowVars, restarts>>

SubmitOffer(o, r) ==
  /\ offers[o] = NoOffer
  /\ stage[r] = "open"
  /\ offers' = [offers EXCEPT ![o] = [request |-> r, complete |-> FALSE]]
  /\ Emit(<<OfferAdded(o, r)>>)
  /\ UNCHANGED <<stage, deleted, consumerVars, rowVars, restarts>>

\* An instant rent decides its request in the same call.
SubmitOfferExtra(o, instantRent) ==
  LET r == offers[o].request IN
  /\ r # 0 /\ ~offers[o].complete
  /\ stage[r] = "open"
  /\ offers' = [offers EXCEPT ![o].complete = TRUE]
  /\ IF instantRent
     THEN /\ stage' = [stage EXCEPT ![r] = "decided"]
          /\ Emit(<<OfferExtraAdded(o), RequestEvent("RequestDecided", r)>>)
     ELSE /\ UNCHANGED stage
          /\ Emit(<<OfferExtraAdded(o)>>)
  /\ UNCHANGED <<deleted, consumerVars, rowVars, restarts>>

\* The listener of the chain delivers at least once: a message again, later.
Repeat(k) ==
  /\ "repeat" \in Faults
  /\ Emit(<<topic[k]>>)
  /\ UNCHANGED <<contractVars, consumerVars, rowVars, restarts>>

-----------------------------------------------------------------------------
(***************************************************************************)
(* The consumer.                                                           *)
(***************************************************************************)
\* What the first poll returns is thrown away.
FirstPoll ==
  /\ consumer = "starting"
  /\ consumer' = "running"
  /\ position' = Len(topic)
  /\ heardFrom' = Len(topic)
  /\ UNCHANGED <<contractVars, topic, rowVars, restarts>>

\* getRequestExtra and getOfferExtra return zeroes for what is deleted.
FetchRequestDetails(r) == IF r \in deleted THEN "blank" ELSE "given"
FetchOfferDetails(o)   == IF offers[o].request \in deleted THEN "blank" ELSE "given"

SaveRequestState(r) ==
  /\ requestRows' =
       IF requestRows[r].status = "none"
       THEN [requestRows EXCEPT ![r] = [status |-> "open", extra |-> FetchRequestDetails(r)]]
       ELSE requestRows
  /\ UNCHANGED offerRows

\* Mutants: a decided request takes any status; a closed one takes none.
SetAnyStatus(row, status) ==
  IF row.status = "none" THEN row ELSE [row EXCEPT !.status = status]

SetStatusOfOpenOnly(row, status) ==
  IF row.status # "open" THEN row ELSE [row EXCEPT !.status = status]

\* A decided request stays decided; a request without a row is passed over.
SetStatus(row, status) ==
  IF row.status \in {"none", "decided"} THEN row ELSE [row EXCEPT !.status = status]

UpdateRequestStatus(r, status) ==
  /\ requestRows' = [requestRows EXCEPT ![r] = SetStatus(@, status)]
  /\ UNCHANGED offerRows

\* Mutant: the row is written whether there is one or not.
SaveOfferAgain(o, r) ==
  /\ offerRows' = [offerRows EXCEPT ![o] = [request |-> r, extra |-> "none"]]
  /\ UNCHANGED requestRows

SaveNewOffer(o, r) ==
  /\ offerRows' = IF offerRows[o] = NoOfferRow
                  THEN [offerRows EXCEPT ![o] = [request |-> r, extra |-> "none"]]
                  ELSE offerRows
  /\ UNCHANGED requestRows

\* Mutant: the merge inserts a row when there is none.
MergeOfferState(o) ==
  /\ offerRows' = [offerRows EXCEPT ![o].extra = FetchOfferDetails(o)]
  /\ UNCHANGED requestRows

SaveOfferState(o) ==
  /\ offerRows' = IF offerRows[o] = NoOfferRow
                  THEN offerRows
                  ELSE [offerRows EXCEPT ![o].extra = FetchOfferDetails(o)]
  /\ UNCHANGED requestRows

\* Mutant: a closed request is taken for a decided one.
HandleClosedAsDecided(message) ==
  CASE message.name = "RequestExtraAdded" -> SaveRequestState(message.request)
    [] message.name \in {"RequestClosed", "RequestDecided"} ->
         UpdateRequestStatus(message.request, "decided")
    [] message.name = "OfferAdded"      -> SaveNewOffer(message.offer, message.request)
    [] message.name = "OfferExtraAdded" -> SaveOfferState(message.offer)

HandleMessage(message) ==
  CASE message.name = "RequestExtraAdded" -> SaveRequestState(message.request)
    [] message.name = "RequestClosed"   -> UpdateRequestStatus(message.request, "closed")
    [] message.name = "RequestDecided"  -> UpdateRequestStatus(message.request, "decided")
    [] message.name = "OfferAdded"      -> SaveNewOffer(message.offer, message.request)
    [] message.name = "OfferExtraAdded" -> SaveOfferState(message.offer)

Consume ==
  /\ consumer = "running" /\ position < Len(topic)
  /\ position' = position + 1
  /\ HandleMessage(topic[position + 1])
  /\ UNCHANGED <<contractVars, topic, consumer, heardFrom, restarts>>

\* A call of the contract or a commit fails: nothing is saved, and the
\* exception ends the thread, while the backend goes on.
HandlerRaises ==
  /\ "raise" \in Faults
  /\ consumer = "running" /\ position < Len(topic)
  /\ consumer' = "dead"
  /\ UNCHANGED <<contractVars, topic, position, heardFrom, rowVars, restarts>>

Restart ==
  /\ "restart" \in Faults /\ restarts < MaxRestarts
  /\ restarts' = restarts + 1
  /\ consumer' = "starting"
  /\ requestRows' = [r \in RequestID |-> NoRequestRow]
  /\ offerRows' = [o \in OfferID |-> NoOfferRow]
  /\ UNCHANGED <<contractVars, topic, position, heardFrom>>

Next ==
  \/ \E r \in RequestID :
       \/ SubmitRequest(r) \/ SubmitRequestExtra(r)
       \/ CloseRequest(r) \/ DecideRequest(r) \/ DeleteRequest(r)
  \/ \E o \in OfferID :
       \/ \E r \in RequestID : SubmitOffer(o, r)
       \/ \E instantRent \in BOOLEAN : SubmitOfferExtra(o, instantRent)
  \/ \E k \in 1 .. Len(topic) : Repeat(k)
  \/ FirstPoll \/ Consume \/ HandlerRaises \/ Restart

Spec == Init /\ [][Next]_vars

\* The thread keeps reading; nobody is obliged to call the contract.
FairSpec == Spec /\ WF_vars(FirstPoll) /\ WF_vars(Consume)

-----------------------------------------------------------------------------
Stages   == {"none", "pending", "open", "closed", "decided"}
Statuses == {"none", "open", "closed", "decided"}

Message ==
  {RequestEvent(name, r) : name \in {"RequestExtraAdded", "RequestClosed", "RequestDecided"},
                           r \in RequestID}
    \cup {OfferAdded(o, r) : o \in OfferID, r \in RequestID}
    \cup {OfferExtraAdded(o) : o \in OfferID}

(***************************************************************************)
(* Every variable has its type; a row of an offer names its request.       *)
(***************************************************************************)
TypeOK ==
  /\ stage \in [RequestID -> Stages]
  /\ deleted \subseteq RequestID
  /\ offers \in [OfferID -> {NoOffer} \cup [request : RequestID, complete : BOOLEAN]]
  /\ topic \in Seq(Message)
  /\ consumer \in {"starting", "running", "dead"}
  /\ heardFrom \in Nat /\ position \in heardFrom .. Len(topic)
  /\ requestRows \in [RequestID -> {NoRequestRow} \cup
                        [status : Statuses \ {"none"}, extra : {"given", "blank"}]]
  /\ offerRows \in [OfferID -> {NoOfferRow} \cup
                      [request : RequestID, extra : {"none", "given", "blank"}]]
  /\ restarts \in 0 .. MaxRestarts

(***************************************************************************)
(* The database never runs ahead of the contract, however events are       *)
(* repeated or lost: a status was reached, an offer belongs to its         *)
(* request, and details are given only for what is complete.               *)
(***************************************************************************)
Reached(r) ==
  CASE stage[r] = "open"    -> {"none", "open"}
    [] stage[r] = "closed"  -> {"none", "open", "closed"}
    [] stage[r] = "decided" -> Statuses
    [] OTHER                -> {"none"}

NeverAhead ==
  /\ \A r \in RequestID : requestRows[r].status \in Reached(r)
  /\ \A o \in OfferID :
       /\ offerRows[o] # NoOfferRow => offerRows[o].request = offers[o].request
       /\ offerRows[o].extra # "none" => offers[o].complete

\* The event was emitted, and not before the consumer listened.
Heard(event) ==
  /\ \E k \in 1 .. Len(topic) : topic[k] = event
  /\ \A k \in 1 .. heardFrom : topic[k] # event

CaughtUp == consumer = "running" /\ position = Len(topic)

(***************************************************************************)
(* A consumer that has read all the messages mirrors every request it      *)
(* heard of, whatever it read before and whatever is repeated: the row has *)
(* the stage of the contract.                                              *)
(***************************************************************************)
RequestsAreMirrored ==
  CaughtUp =>
    \A r \in RequestID :
      Heard(RequestEvent("RequestExtraAdded", r)) => requestRows[r].status = stage[r]

(***************************************************************************)
(* And every offer it heard of: the row has details exactly when the offer *)
(* is complete, and those are blank only for a deleted request.            *)
(***************************************************************************)
OffersAreMirrored ==
  CaughtUp =>
    \A o \in OfferID :
      Heard(OfferAdded(o, offers[o].request)) =>
        /\ offerRows[o].request = offers[o].request
        /\ offerRows[o].extra # "none" <=> offers[o].complete
        /\ offerRows[o].extra = "blank" => offers[o].request \in deleted

(***************************************************************************)
(* A decision that the consumer hears of shows in the database, unless the *)
(* thread ends.                                                            *)
(***************************************************************************)
DecisionIsShown ==
  \A r \in RequestID :
    (/\ consumer = "running"
     /\ Heard(RequestEvent("RequestExtraAdded", r))
     /\ Heard(RequestEvent("RequestDecided", r)))
    ~> (requestRows[r].status = "decided" \/ consumer # "running")
=============================================================================
