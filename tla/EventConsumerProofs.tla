------------------------ MODULE EventConsumerProofs ------------------------
(***************************************************************************)
(* Theorems about the consumer and the database it keeps, for any number   *)
(* of requests, offers, messages and restarts, and whatever goes wrong.    *)
(***************************************************************************)
EXTENDS EventConsumer, SequenceTheorems, TLAPS

RequestEventNames == {"RequestExtraAdded", "RequestClosed", "RequestDecided"}

\* What a message says was so when it was emitted and stays so.
IsTrue(message) ==
  /\ message.name = "RequestExtraAdded" => stage[message.request] \in {"open", "closed", "decided"}
  /\ message.name = "RequestClosed"     => stage[message.request] \in {"closed", "decided"}
  /\ message.name = "RequestDecided"    => stage[message.request] = "decided"
  /\ message.name = "OfferAdded"        => offers[message.offer].request = message.request
  /\ message.name = "OfferExtraAdded"   => offers[message.offer].complete

MessagesAreTrue == \A k \in 1 .. Len(topic) : IsTrue(topic[k])

Inv == TypeOK /\ MessagesAreTrue /\ NeverAhead

-----------------------------------------------------------------------------
LEMMA MessageFacts ==
  ASSUME NEW message \in Message
  PROVE  /\ message.name \in RequestEventNames \cup {"OfferAdded", "OfferExtraAdded"}
         /\ message.name \in RequestEventNames => message.request \in RequestID
         /\ message.name = "OfferAdded" => message.request \in RequestID
         /\ message.name \in {"OfferAdded", "OfferExtraAdded"} => message.offer \in OfferID
BY DEF Message, RequestEvent, OfferAdded, OfferExtraAdded, RequestEventNames

\* A message that the consumer has not read yet is one of the topic.
LEMMA NextMessage ==
  ASSUME TypeOK, position < Len(topic)
  PROVE  /\ position + 1 \in 1 .. Len(topic)
         /\ topic[position + 1] \in Message
<1>1. position \in Nat /\ Len(topic) \in Nat
  BY LenProperties DEF TypeOK
<1>2. position + 1 \in 1 .. Len(topic)
  BY <1>1
<1> QED BY <1>2, ElementOfSeq DEF TypeOK

\* The contract only moves forward: what was true, and what the rows may
\* say, stays so.
ContractMovesOn ==
  /\ \A r \in RequestID :
       /\ stage[r] \in {"open", "closed", "decided"} => stage'[r] \in {"open", "closed", "decided"}
       /\ stage[r] \in {"closed", "decided"} => stage'[r] \in {"closed", "decided"}
       /\ stage[r] = "decided" => stage'[r] = "decided"
  /\ \A o \in OfferID :
       /\ offers[o] # NoOffer => offers'[o].request = offers[o].request
       /\ offers[o].complete => offers'[o].complete

LEMMA TruthStays ==
  ASSUME TypeOK, ContractMovesOn, NEW message \in Message, IsTrue(message)
  PROVE  IsTrue(message)'
<1>1. CASE message.name \in RequestEventNames
  BY <1>1, MessageFacts DEF ContractMovesOn, IsTrue, RequestEventNames
<1>2. CASE message.name = "OfferAdded"
  <2>1. message.offer \in OfferID /\ message.request \in RequestID
    BY <1>2, MessageFacts
  <2>2. offers[message.offer] # NoOffer
    BY <1>2, <2>1 DEF IsTrue, NoOffer, RequestID
  <2> QED BY <1>2, <2>1, <2>2 DEF ContractMovesOn, IsTrue
<1>3. CASE message.name = "OfferExtraAdded"
  BY <1>3, MessageFacts DEF ContractMovesOn, IsTrue
<1> QED BY <1>1, <1>2, <1>3, MessageFacts

LEMMA RowsStayBehind ==
  ASSUME TypeOK, NeverAhead, ContractMovesOn, UNCHANGED rowVars
  PROVE  NeverAhead'
<1>1. ASSUME NEW r \in RequestID PROVE (requestRows[r].status \in Reached(r))'
  BY <1>1 DEF TypeOK, NeverAhead, ContractMovesOn, Reached, rowVars, Stages, Statuses, NoRequestRow
<1>2. ASSUME NEW o \in OfferID
      PROVE  (/\ offerRows[o] # NoOfferRow => offerRows[o].request = offers[o].request
              /\ offerRows[o].extra # "none" => offers[o].complete)'
  <2>1. offerRows[o] # NoOfferRow => offers[o] # NoOffer
    BY DEF TypeOK, NeverAhead, NoOfferRow, NoOffer, RequestID
  <2> QED BY <2>1 DEF NeverAhead, ContractMovesOn, rowVars
<1> QED BY <1>1, <1>2 DEF NeverAhead

-----------------------------------------------------------------------------
(***************************************************************************)
(* The contract and the broker.                                            *)
(***************************************************************************)
LEMMA EmitType ==
  ASSUME TypeOK, NEW events \in Seq(Message), Emit(events)
  PROVE  /\ topic' \in Seq(Message)
         /\ position \in heardFrom .. Len(topic')
         /\ \A k \in 1 .. Len(topic') :
              \/ k \in 1 .. Len(topic) /\ topic'[k] = topic[k]
              \/ \E i \in 1 .. Len(events) : topic'[k] = events[i]
<1>1. topic \in Seq(Message) /\ topic' = topic \o events
  BY DEF TypeOK, Emit
<1>2. /\ topic' \in Seq(Message) /\ Len(topic') = Len(topic) + Len(events)
      /\ \A k \in 1 .. Len(topic) + Len(events) :
           topic'[k] = IF k <= Len(topic) THEN topic[k] ELSE events[k - Len(topic)]
  BY <1>1, ConcatProperties
<1>3. Len(topic) \in Nat /\ Len(events) \in Nat
  BY <1>1, LenProperties
<1>4. position \in heardFrom .. Len(topic')
  BY <1>2, <1>3 DEF TypeOK
<1>5. ASSUME NEW k \in 1 .. Len(topic')
      PROVE  \/ k \in 1 .. Len(topic) /\ topic'[k] = topic[k]
             \/ \E i \in 1 .. Len(events) : topic'[k] = events[i]
  <2>1. CASE k <= Len(topic)
    BY <1>2, <1>3, <2>1
  <2>2. CASE k > Len(topic)
    <3>1. k - Len(topic) \in 1 .. Len(events) /\ topic'[k] = events[k - Len(topic)]
      BY <1>2, <1>3, <2>2
    <3> QED BY <3>1
  <2> QED BY <1>3, <2>1, <2>2
<1> QED BY <1>2, <1>4, <1>5

\* A call of the contract that emits true events keeps the invariant.
LEMMA CallKeepsInv ==
  ASSUME Inv, ContractMovesOn, NEW events \in Seq(Message), Emit(events),
         \A i \in 1 .. Len(events) : IsTrue(events[i])',
         stage' \in [RequestID -> Stages], deleted' \subseteq RequestID,
         offers' \in [OfferID -> {NoOffer} \cup [request : RequestID, complete : BOOLEAN]],
         UNCHANGED <<consumerVars, rowVars, restarts>>
  PROVE  Inv'
<1>1. TypeOK'
  BY EmitType DEF Inv, TypeOK, consumerVars, rowVars
<1>2. MessagesAreTrue'
  <2> SUFFICES ASSUME NEW k \in 1 .. Len(topic')
               PROVE  IsTrue(topic[k])'
    BY DEF MessagesAreTrue
  <2>1. CASE k \in 1 .. Len(topic) /\ topic'[k] = topic[k]
    <3>1. PICK message \in Message : message = topic[k] /\ IsTrue(message)
      BY <2>1, ElementOfSeq DEF Inv, TypeOK, MessagesAreTrue
    <3>2. IsTrue(message)'
      BY <3>1, TruthStays DEF Inv
    <3> QED BY <2>1, <3>1, <3>2 DEF IsTrue
  <2>2. CASE \E i \in 1 .. Len(events) : topic'[k] = events[i]
    BY <2>2 DEF IsTrue
  <2> QED BY <2>1, <2>2, EmitType DEF Inv
<1>3. NeverAhead'
  BY RowsStayBehind DEF Inv
<1> QED BY <1>1, <1>2, <1>3 DEF Inv

\* The same for a call with one event.
LEMMA EventKeepsInv ==
  ASSUME Inv, ContractMovesOn, NEW event \in Message, Emit(<<event>>), IsTrue(event)',
         stage' \in [RequestID -> Stages], deleted' \subseteq RequestID,
         offers' \in [OfferID -> {NoOffer} \cup [request : RequestID, complete : BOOLEAN]],
         UNCHANGED <<consumerVars, rowVars, restarts>>
  PROVE  Inv'
<1>1. PICK events \in Seq(Message) : events = <<event>>
  <2>1. <<event>> \in Seq(Message)
    OBVIOUS
  <2> QED BY <2>1
<1>2. Emit(events) /\ Len(events) = 1 /\ events[1] = event
  BY <1>1
<1>3. ASSUME NEW i \in 1 .. Len(events) PROVE IsTrue(events[i])'
  <2>1. events[i] = event
    BY <1>2
  <2> QED BY <2>1 DEF IsTrue
<1> QED BY <1>2, <1>3, CallKeepsInv

LEMMA EventTypes ==
  /\ << >> \in Seq(Message)
  /\ \A name \in RequestEventNames, r \in RequestID : RequestEvent(name, r) \in Message
  /\ \A o \in OfferID, r \in RequestID : OfferAdded(o, r) \in Message
  /\ \A o \in OfferID : OfferExtraAdded(o) \in Message
BY DEF Message, RequestEventNames

LEMMA ContractStep ==
  ASSUME Inv, NEW r \in RequestID,
         SubmitRequestExtra(r) \/ CloseRequest(r) \/ DecideRequest(r)
  PROVE  Inv'
<1> USE DEF Inv, TypeOK
<1>1. CASE SubmitRequestExtra(r)
  <2>1. ContractMovesOn
    BY <1>1 DEF SubmitRequestExtra, ContractMovesOn, Stages
  <2>2. PICK event \in Message : event = RequestEvent("RequestExtraAdded", r)
    BY EventTypes DEF RequestEventNames
  <2>3. Emit(<<event>>) /\ IsTrue(event)'
    BY <1>1, <2>2 DEF SubmitRequestExtra, IsTrue, RequestEvent
  <2> QED BY <1>1, <2>1, <2>3, EventKeepsInv DEF SubmitRequestExtra, Stages
<1>2. CASE CloseRequest(r)
  <2>1. ContractMovesOn
    BY <1>2 DEF CloseRequest, ContractMovesOn, Stages
  <2>2. PICK event \in Message : event = RequestEvent("RequestClosed", r)
    BY EventTypes DEF RequestEventNames
  <2>3. Emit(<<event>>) /\ IsTrue(event)'
    BY <1>2, <2>2 DEF CloseRequest, IsTrue, RequestEvent
  <2> QED BY <1>2, <2>1, <2>3, EventKeepsInv DEF CloseRequest, Stages
<1>3. CASE DecideRequest(r)
  <2>1. ContractMovesOn
    BY <1>3 DEF DecideRequest, ContractMovesOn, Stages
  <2>2. PICK event \in Message : event = RequestEvent("RequestDecided", r)
    BY EventTypes DEF RequestEventNames
  <2>3. Emit(<<event>>) /\ IsTrue(event)'
    BY <1>3, <2>2 DEF DecideRequest, IsTrue, RequestEvent
  <2> QED BY <1>3, <2>1, <2>3, EventKeepsInv DEF DecideRequest, Stages
<1> QED BY <1>1, <1>2, <1>3

LEMMA QuietStep ==
  ASSUME Inv, NEW r \in RequestID, SubmitRequest(r) \/ DeleteRequest(r)
  PROVE  Inv'
<1>1. ContractMovesOn /\ UNCHANGED <<topic, rowVars>>
  BY DEF SubmitRequest, DeleteRequest, ContractMovesOn, Inv, TypeOK, Stages
<1>2. TypeOK'
  BY DEF SubmitRequest, DeleteRequest, Inv, TypeOK, Stages, consumerVars, rowVars
<1>3. MessagesAreTrue'
  <2> SUFFICES ASSUME NEW k \in 1 .. Len(topic) PROVE IsTrue(topic[k])'
    BY <1>1 DEF MessagesAreTrue
  <2>1. PICK message \in Message : message = topic[k] /\ IsTrue(message)
    BY ElementOfSeq DEF Inv, TypeOK, MessagesAreTrue
  <2>2. IsTrue(message)'
    BY <1>1, <2>1, TruthStays DEF Inv
  <2> QED BY <1>1, <2>1, <2>2 DEF IsTrue
<1>4. NeverAhead'
  BY <1>1, RowsStayBehind DEF Inv
<1> QED BY <1>2, <1>3, <1>4 DEF Inv

LEMMA OfferStep ==
  ASSUME Inv, NEW o \in OfferID
  PROVE  /\ \A r \in RequestID : SubmitOffer(o, r) => Inv'
         /\ \A instantRent \in BOOLEAN : SubmitOfferExtra(o, instantRent) => Inv'
<1> USE DEF Inv, TypeOK
<1>1. ASSUME NEW r \in RequestID, SubmitOffer(o, r) PROVE Inv'
  <2>1. ContractMovesOn
    BY <1>1 DEF SubmitOffer, ContractMovesOn, NoOffer
  <2>2. PICK event \in Message : event = OfferAdded(o, r)
    BY EventTypes
  <2>3. Emit(<<event>>) /\ IsTrue(event)'
    BY <1>1, <2>2 DEF SubmitOffer, IsTrue, OfferAdded
  <2> QED BY <1>1, <2>1, <2>3, EventKeepsInv DEF SubmitOffer
<1>2. ASSUME NEW instantRent \in BOOLEAN, SubmitOfferExtra(o, instantRent) PROVE Inv'
  <2>1. PICK r \in RequestID : r = offers[o].request /\ stage[r] = "open"
    BY <1>2 DEF SubmitOfferExtra, NoOffer
  <2>2. /\ offers' \in [OfferID -> {NoOffer} \cup [request : RequestID, complete : BOOLEAN]]
        /\ offers'[o].complete
        /\ \A p \in OfferID : /\ offers'[p].request = offers[p].request
                              /\ offers[p].complete => offers'[p].complete
    <3>1. offers[o] \in [request : RequestID, complete : BOOLEAN]
      BY <1>2 DEF SubmitOfferExtra, NoOffer
    <3>2. offers' = [offers EXCEPT ![o].complete = TRUE]
      BY <1>2 DEF SubmitOfferExtra
    <3> DEFINE completed == [offers[o] EXCEPT !.complete = TRUE]
    <3>3. /\ completed \in [request : RequestID, complete : BOOLEAN]
          /\ completed.request = offers[o].request /\ completed.complete
      BY <3>1
    <3>4. offers' = [offers EXCEPT ![o] = completed]
      BY <3>2
    <3> HIDE DEF completed
    <3> QED BY <2>1, <3>1, <3>3, <3>4
  <2>3. PICK added \in Message : added = OfferExtraAdded(o)
    BY EventTypes
  <2>4. IsTrue(added)'
    BY <2>2, <2>3 DEF IsTrue, OfferExtraAdded
  <2>5. CASE instantRent
    <3>1. stage' = [stage EXCEPT ![r] = "decided"]
      BY <1>2, <2>1, <2>5 DEF SubmitOfferExtra
    <3>2. ContractMovesOn /\ stage' \in [RequestID -> Stages]
      BY <2>1, <2>2, <3>1 DEF ContractMovesOn, Stages
    <3>3. PICK decided \in Message : decided = RequestEvent("RequestDecided", r)
      BY EventTypes DEF RequestEventNames
    <3>4. IsTrue(decided)'
      BY <3>1, <3>3 DEF IsTrue, RequestEvent
    <3>5. PICK events \in Seq(Message) : events = <<added, decided>>
      <4>1. <<added, decided>> \in Seq(Message)
        OBVIOUS
      <4> QED BY <4>1
    <3>6. Emit(events)
      BY <1>2, <2>1, <2>3, <2>5, <3>3, <3>5 DEF SubmitOfferExtra
    <3>7. ASSUME NEW i \in 1 .. Len(events) PROVE IsTrue(events[i])'
      <4>1. events[i] = added \/ events[i] = decided
        BY <3>5
      <4> QED BY <2>4, <3>4, <4>1 DEF IsTrue
    <3> QED BY <1>2, <2>2, <3>2, <3>6, <3>7, CallKeepsInv DEF SubmitOfferExtra
  <2>6. CASE ~instantRent
    <3>1. stage' = stage /\ Emit(<<added>>)
      BY <1>2, <2>3, <2>6 DEF SubmitOfferExtra
    <3>2. ContractMovesOn
      BY <2>2, <3>1 DEF ContractMovesOn
    <3> QED BY <1>2, <2>2, <2>4, <3>1, <3>2, EventKeepsInv DEF SubmitOfferExtra
  <2> QED BY <2>5, <2>6
<1> QED BY <1>1, <1>2

LEMMA RepeatStep ==
  ASSUME Inv, NEW k \in 1 .. Len(topic), Repeat(k)
  PROVE  Inv'
<1>1. ContractMovesOn
  BY DEF Repeat, contractVars, ContractMovesOn
<1>2. topic[k] \in Message /\ IsTrue(topic[k])
  BY ElementOfSeq DEF Inv, TypeOK, MessagesAreTrue
<1>3. PICK message \in Message : message = topic[k] /\ IsTrue(message)
  BY <1>2
<1>4. IsTrue(message)'
  BY <1>1, <1>3, TruthStays DEF Inv
<1>5. Emit(<<message>>)
  BY <1>3 DEF Repeat
<1> QED BY <1>1, <1>4, <1>5, EventKeepsInv DEF Repeat, contractVars, Inv, TypeOK

-----------------------------------------------------------------------------
(***************************************************************************)
(* The consumer.                                                           *)
(***************************************************************************)
RequestRow == {NoRequestRow} \cup [status : Statuses \ {"none"}, extra : {"given", "blank"}]

OfferRow == {NoOfferRow} \cup [request : RequestID, extra : {"none", "given", "blank"}]

RequestRowsInv ==
  /\ requestRows \in [RequestID -> RequestRow]
  /\ \A r \in RequestID : requestRows[r].status \in Reached(r)

OfferRowsInv ==
  /\ offerRows \in [OfferID -> OfferRow]
  /\ \A o \in OfferID :
       /\ offerRows[o] # NoOfferRow => offerRows[o].request = offers[o].request
       /\ offerRows[o].extra # "none" => offers[o].complete

\* A consumer's step leaves the contract and the topic alone.
LEMMA ConsumerKeepsInv ==
  ASSUME Inv, UNCHANGED <<contractVars, topic>>, RequestRowsInv', OfferRowsInv',
         consumer' \in {"starting", "running", "dead"},
         heardFrom' \in Nat, position' \in heardFrom' .. Len(topic),
         restarts' \in 0 .. MaxRestarts
  PROVE  Inv'
<1>1. MessagesAreTrue'
  <2> SUFFICES ASSUME NEW k \in 1 .. Len(topic) PROVE IsTrue(topic[k])'
    BY DEF MessagesAreTrue
  <2> QED BY DEF Inv, MessagesAreTrue, IsTrue, contractVars
<1> QED BY <1>1 DEF Inv, TypeOK, NeverAhead, RequestRowsInv, OfferRowsInv, RequestRow, OfferRow,
     contractVars

LEMMA RowsOfInv ==
  ASSUME Inv
  PROVE  RequestRowsInv /\ OfferRowsInv
BY DEF Inv, TypeOK, NeverAhead, RequestRowsInv, OfferRowsInv, RequestRow, OfferRow

LEMMA UnchangedRows ==
  ASSUME Inv, UNCHANGED contractVars
  PROVE  /\ UNCHANGED requestRows => RequestRowsInv'
         /\ UNCHANGED offerRows => OfferRowsInv'
BY RowsOfInv DEF RequestRowsInv, OfferRowsInv, contractVars, Reached

LEMMA HandleRequestMessage ==
  ASSUME Inv, UNCHANGED contractVars,
         NEW message \in Message, IsTrue(message), message.name \in RequestEventNames,
         HandleMessage(message)
  PROVE  RequestRowsInv' /\ OfferRowsInv'
<1> DEFINE r == message.request
<1>1. r \in RequestID
  BY MessageFacts
<1>2. requestRows[r] \in RequestRow /\ requestRows[r].status \in Reached(r)
  BY <1>1, RowsOfInv DEF RequestRowsInv
<1>3. /\ UNCHANGED offerRows
      /\ \E row \in RequestRow : /\ row.status \in Reached(r)
                                 /\ requestRows' = [requestRows EXCEPT ![r] = row]
  <2>1. CASE message.name = "RequestExtraAdded"
    <3>1. SaveRequestState(r)
      BY <2>1 DEF HandleMessage
    <3>2. CASE requestRows[r].status = "none"
      <4> DEFINE row == [status |-> "open", extra |-> FetchRequestDetails(r)]
      <4>1. row \in RequestRow
        BY DEF RequestRow, Statuses, FetchRequestDetails
      <4>2. row.status \in Reached(r)
        BY <2>1 DEF Reached, IsTrue, Statuses
      <4>3. requestRows' = [requestRows EXCEPT ![r] = row] /\ UNCHANGED offerRows
        BY <3>1, <3>2 DEF SaveRequestState
      <4> QED BY <4>1, <4>2, <4>3
    <3>3. CASE requestRows[r].status # "none"
      <4>1. requestRows' = [requestRows EXCEPT ![r] = requestRows[r]] /\ UNCHANGED offerRows
        BY <1>1, <3>1, <3>3, RowsOfInv DEF SaveRequestState, RequestRowsInv
      <4> QED BY <1>2, <4>1
    <3> QED BY <3>2, <3>3
  <2>2. ASSUME NEW status \in {"closed", "decided"}, UpdateRequestStatus(r, status),
               status \in Reached(r)
        PROVE  /\ UNCHANGED offerRows
               /\ \E row \in RequestRow : /\ row.status \in Reached(r)
                                          /\ requestRows' = [requestRows EXCEPT ![r] = row]
    <3> DEFINE row == SetStatus(requestRows[r], status)
    <3>1. row \in RequestRow /\ row.status \in Reached(r)
      BY <1>2, <2>2 DEF SetStatus, RequestRow, NoRequestRow, Statuses
    <3>2. requestRows' = [requestRows EXCEPT ![r] = row] /\ UNCHANGED offerRows
      BY <1>1, <2>2, RowsOfInv DEF UpdateRequestStatus, RequestRowsInv
    <3> QED BY <3>1, <3>2
  <2>3. CASE message.name = "RequestClosed"
    <3>1. UpdateRequestStatus(r, "closed") /\ "closed" \in Reached(r)
      BY <2>3 DEF HandleMessage, IsTrue, Reached, Statuses
    <3> QED BY <2>2, <3>1
  <2>4. CASE message.name = "RequestDecided"
    <3>1. UpdateRequestStatus(r, "decided") /\ "decided" \in Reached(r)
      BY <2>4 DEF HandleMessage, IsTrue, Reached, Statuses
    <3> QED BY <2>2, <3>1
  <2> QED BY <2>1, <2>3, <2>4 DEF RequestEventNames
<1>4. PICK row \in RequestRow : /\ row.status \in Reached(r)
                                /\ requestRows' = [requestRows EXCEPT ![r] = row]
  BY <1>3
<1>5. requestRows' \in [RequestID -> RequestRow]
  BY <1>1, <1>4, RowsOfInv DEF RequestRowsInv
<1>6. \A q \in RequestID : requestRows'[q].status \in Reached(q)
  BY <1>1, <1>4, RowsOfInv DEF RequestRowsInv
<1>7. RequestRowsInv'
  BY <1>5, <1>6 DEF RequestRowsInv, RequestRow, Reached, contractVars
<1> QED BY <1>3, <1>7, UnchangedRows

LEMMA HandleOfferMessage ==
  ASSUME Inv, UNCHANGED contractVars,
         NEW message \in Message, IsTrue(message),
         message.name \in {"OfferAdded", "OfferExtraAdded"}, HandleMessage(message)
  PROVE  RequestRowsInv' /\ OfferRowsInv'
<1> DEFINE o == message.offer
<1>1. o \in OfferID
  BY MessageFacts
<1>2. offerRows[o] \in OfferRow /\ offerRows \in [OfferID -> OfferRow]
  BY <1>1, RowsOfInv DEF OfferRowsInv
<1>3. /\ UNCHANGED requestRows
      /\ \E row \in OfferRow : /\ row # NoOfferRow => row.request = offers[o].request
                               /\ row.extra # "none" => offers[o].complete
                               /\ offerRows' = [offerRows EXCEPT ![o] = row]
  <2>1. CASE message.name = "OfferAdded"
    <3>1. SaveNewOffer(o, message.request)
      BY <2>1 DEF HandleMessage
    <3>2. CASE offerRows[o] = NoOfferRow
      <4> DEFINE row == [request |-> message.request, extra |-> "none"]
      <4>1. row \in OfferRow
        BY <2>1, MessageFacts DEF OfferRow
      <4>2. row.request = offers[o].request /\ row.extra = "none"
        BY <2>1 DEF IsTrue
      <4>3. offerRows' = [offerRows EXCEPT ![o] = row] /\ UNCHANGED requestRows
        BY <3>1, <3>2 DEF SaveNewOffer
      <4> QED BY <4>1, <4>2, <4>3
    <3>3. CASE offerRows[o] # NoOfferRow
      <4>1. offerRows' = [offerRows EXCEPT ![o] = offerRows[o]] /\ UNCHANGED requestRows
        BY <1>2, <3>1, <3>3 DEF SaveNewOffer
      <4> QED BY <1>1, <1>2, <4>1, RowsOfInv DEF OfferRowsInv
    <3> QED BY <3>2, <3>3
  <2>2. CASE message.name = "OfferExtraAdded"
    <3>1. SaveOfferState(o)
      BY <2>2 DEF HandleMessage
    <3>2. CASE offerRows[o] = NoOfferRow
      <4>1. offerRows' = [offerRows EXCEPT ![o] = offerRows[o]] /\ UNCHANGED requestRows
        BY <1>2, <3>1, <3>2 DEF SaveOfferState
      <4> QED BY <1>1, <1>2, <4>1, RowsOfInv DEF OfferRowsInv
    <3>3. CASE offerRows[o] # NoOfferRow
      <4> DEFINE row == [offerRows[o] EXCEPT !.extra = FetchOfferDetails(o)]
      <4>1. offerRows[o] \in [request : RequestID, extra : {"none", "given", "blank"}]
        BY <1>2, <3>3 DEF OfferRow
      <4>2. row \in OfferRow /\ row.request = offerRows[o].request
        BY <4>1 DEF OfferRow, FetchOfferDetails
      <4>3. row.request = offers[o].request /\ offers[o].complete
        BY <1>1, <2>2, <3>3, <4>2, RowsOfInv DEF OfferRowsInv, IsTrue
      <4>4. offerRows' = [offerRows EXCEPT ![o] = row] /\ UNCHANGED requestRows
        BY <3>1, <3>3 DEF SaveOfferState
      <4> HIDE DEF row
      <4> QED BY <4>2, <4>3, <4>4
    <3> QED BY <3>2, <3>3
  <2> QED BY <2>1, <2>2
<1>4. PICK row \in OfferRow : /\ row # NoOfferRow => row.request = offers[o].request
                              /\ row.extra # "none" => offers[o].complete
                              /\ offerRows' = [offerRows EXCEPT ![o] = row]
  BY <1>3
<1>5. OfferRowsInv'
  <2>1. offerRows' \in [OfferID -> OfferRow] /\ offerRows'[o] = row
    BY <1>1, <1>2, <1>4
  <2>2. ASSUME NEW p \in OfferID
        PROVE  /\ offerRows'[p] # NoOfferRow => offerRows'[p].request = offers[p].request
               /\ offerRows'[p].extra # "none" => offers[p].complete
    <3>1. CASE p = o
      BY <1>4, <2>1, <3>1
    <3>2. CASE p # o
      <4>1. offerRows'[p] = offerRows[p]
        BY <1>1, <1>2, <1>4, <3>2
      <4> QED BY <4>1, RowsOfInv DEF OfferRowsInv
    <3> QED BY <3>1, <3>2
  <2>3. OfferRow' = OfferRow /\ NoOfferRow' = NoOfferRow
    BY DEF OfferRow, NoOfferRow
  <2> QED BY <2>1, <2>2, <2>3 DEF OfferRowsInv, contractVars
<1> QED BY <1>3, <1>5, UnchangedRows

LEMMA ConsumeStep ==
  ASSUME Inv, Consume
  PROVE  Inv'
<1>1. /\ UNCHANGED <<contractVars, topic, consumer, heardFrom, restarts>>
      /\ position < Len(topic) /\ position' = position + 1
      /\ HandleMessage(topic[position + 1])
  BY DEF Consume
<1>2. PICK message \in Message :
        message = topic[position + 1] /\ IsTrue(message) /\ HandleMessage(message)
  BY <1>1, NextMessage DEF Inv, MessagesAreTrue
<1>3. RequestRowsInv' /\ OfferRowsInv'
  BY <1>1, <1>2, MessageFacts, HandleRequestMessage, HandleOfferMessage
<1>4. position' \in heardFrom' .. Len(topic)
  <2>1. Len(topic) \in Nat
    BY LenProperties DEF Inv, TypeOK
  <2> QED BY <1>1, <2>1 DEF Inv, TypeOK
<1> QED BY <1>1, <1>3, <1>4, ConsumerKeepsInv DEF Inv, TypeOK

LEMMA ThreadStep ==
  ASSUME Inv, FirstPoll \/ HandlerRaises \/ Restart
  PROVE  Inv'
<1>1. UNCHANGED <<contractVars, topic>>
  BY DEF FirstPoll, HandlerRaises, Restart
<1>2. Len(topic) \in Nat
  BY LenProperties DEF Inv, TypeOK
<1>3. CASE FirstPoll
  <2>1. RequestRowsInv' /\ OfferRowsInv'
    BY <1>1, <1>3, UnchangedRows DEF FirstPoll, rowVars
  <2> QED BY <1>1, <1>2, <1>3, <2>1, ConsumerKeepsInv DEF FirstPoll, Inv, TypeOK
<1>4. CASE HandlerRaises
  <2>1. RequestRowsInv' /\ OfferRowsInv'
    BY <1>1, <1>4, UnchangedRows DEF HandlerRaises, rowVars
  <2> QED BY <1>1, <1>4, <2>1, ConsumerKeepsInv DEF HandlerRaises, Inv, TypeOK
<1>5. CASE Restart
  <2>1. RequestRowsInv' /\ OfferRowsInv'
    BY <1>1, <1>5 DEF Restart, RequestRowsInv, OfferRowsInv, RequestRow, OfferRow, NoRequestRow,
       NoOfferRow, Reached, Statuses
  <2> QED BY <1>1, <1>5, <2>1, ConsumerAssumption, ConsumerKeepsInv DEF Restart, Inv, TypeOK
<1> QED BY <1>3, <1>4, <1>5

-----------------------------------------------------------------------------
LEMMA InitInv ==
  ASSUME Init
  PROVE  Inv
<1>1. topic \in Seq(Message) /\ Len(topic) = 0
  BY EventTypes DEF Init
<1>2. TypeOK
  BY <1>1, ConsumerAssumption DEF Init, TypeOK, Stages
<1>3. MessagesAreTrue
  BY <1>1 DEF MessagesAreTrue
<1>4. NeverAhead
  BY DEF Init, NeverAhead, Reached, NoOffer, NoRequestRow, NoOfferRow
<1> QED BY <1>2, <1>3, <1>4 DEF Inv

LEMMA InvHolds == Spec => []Inv
<1>1. Init => Inv
  BY InitInv
<1>2. Inv /\ [Next]_vars => Inv'
  <2> SUFFICES ASSUME Inv, [Next]_vars PROVE Inv'
    OBVIOUS
  <2>1. CASE Next
    BY <2>1, ContractStep, QuietStep, OfferStep, RepeatStep, ConsumeStep, ThreadStep DEF Next
  <2>2. CASE UNCHANGED vars
    BY <2>2 DEF vars, contractVars, consumerVars, rowVars, Inv, TypeOK, MessagesAreTrue, IsTrue,
       NeverAhead, Reached
  <2> QED BY <2>1, <2>2
<1> QED BY <1>1, <1>2, PTL DEF Spec

(***************************************************************************)
(* Every variable keeps its type, for whatever is repeated, lost or        *)
(* restarted: the handlers of the messages only write rows that the tables *)
(* can hold.                                                               *)
(***************************************************************************)
THEOREM ConsumerTypeCorrectness == Spec => []TypeOK
<1>1. Inv => TypeOK
  BY DEF Inv
<1> QED BY <1>1, InvHolds, PTL

(***************************************************************************)
(* The database never runs ahead of the contract: no handler of a message, *)
(* early, late or repeated, writes a status that the contract has not      *)
(* reached, an offer under another request, or details of an offer that is *)
(* not complete.                                                           *)
(***************************************************************************)
THEOREM DatabaseNeverAhead == Spec => []NeverAhead
<1>1. Inv => NeverAhead
  BY DEF Inv
<1> QED BY <1>1, InvHolds, PTL
-----------------------------------------------------------------------------
(***************************************************************************)
(* What a consumer that has read everything knows.                         *)
(*                                                                         *)
(* The topic tells all that happened to a request or an offer, and in an   *)
(* order that a reader can use (TopicInv): a request is published before   *)
(* it is closed or decided, and an offer is made before it is completed,   *)
(* also among repeated messages.                                           *)
(***************************************************************************)
Published(r) == RequestEvent("RequestExtraAdded", r)
Closed(r)    == RequestEvent("RequestClosed", r)
Decided(r)   == RequestEvent("RequestDecided", r)
Added(o)     == OfferAdded(o, offers[o].request)

\* One of the first n messages is the event.
Among(event, messages, n) == \E k \in 1 .. n : messages[k] = event
Told(event) == Among(event, topic, Len(topic))
Read(event) == Among(event, topic, position)

Follows(event, first) == \A k \in 1 .. Len(topic) : topic[k] = event => Among(first, topic, k)

TopicInv ==
  /\ \A r \in RequestID :
       /\ stage[r] = "closed" => Told(Closed(r))
       /\ stage[r] = "decided" => Told(Decided(r))
       /\ Told(Published(r)) =>
            Follows(Closed(r), Published(r)) /\ Follows(Decided(r), Published(r))
  /\ \A o \in OfferID :
       /\ offers[o] # NoOffer => Told(Added(o))
       /\ offers[o].complete => Told(OfferExtraAdded(o))
       /\ Follows(OfferExtraAdded(o), Added(o))

(***************************************************************************)
(* The rows are what the messages read so far say (RowsInv), for every     *)
(* request and offer whose first message was not missed.  The order in     *)
(* which the messages after the first came does not matter.                *)
(***************************************************************************)
\* The event was read, and its first message was not missed.
HeardOf(event) == Read(event) /\ ~Among(event, topic, heardFrom)

StatusRead(r) ==
  IF Read(Decided(r)) THEN "decided" ELSE IF Read(Closed(r)) THEN "closed" ELSE "open"

RequestRowIsRead(r) ==
  /\ requestRows[r].status # "none" => Read(Published(r))
  /\ HeardOf(Published(r)) => requestRows[r].status = StatusRead(r)

OfferRowIsRead(o) ==
  /\ offerRows[o] # NoOfferRow => Read(Added(o))
  /\ HeardOf(Added(o)) =>
       /\ offerRows[o] # NoOfferRow
       /\ offerRows[o].extra # "none" <=> Read(OfferExtraAdded(o))
  /\ offerRows[o].extra = "blank" => offers[o].request \in deleted

RowsInv ==
  IF consumer = "starting"
  THEN /\ requestRows = [r \in RequestID |-> NoRequestRow]
       /\ offerRows = [o \in OfferID |-> NoOfferRow]
  ELSE /\ \A r \in RequestID : RequestRowIsRead(r)
       /\ \A o \in OfferID : OfferRowIsRead(o)

MirrorInv == Inv /\ TopicInv /\ RowsInv

-----------------------------------------------------------------------------
LEMMA EventsDiffer ==
  /\ \A r, q : /\ Published(r) # Closed(q) /\ Published(r) # Decided(q) /\ Closed(r) # Decided(q)
               /\ Published(r) = Published(q) => r = q
               /\ Closed(r) = Closed(q) => r = q
               /\ Decided(r) = Decided(q) => r = q
  /\ \A o, p, r, q : /\ OfferAdded(o, r) # OfferExtraAdded(p)
                     /\ OfferAdded(o, r) = OfferAdded(p, q) => o = p /\ r = q
                     /\ OfferExtraAdded(o) = OfferExtraAdded(p) => o = p
                     /\ OfferAdded(o, r) \notin {Published(q), Closed(q), Decided(q)}
                     /\ OfferExtraAdded(o) \notin {Published(q), Closed(q), Decided(q)}
<1>1. "RequestExtraAdded" # "RequestClosed" /\ "RequestExtraAdded" # "RequestDecided"
      /\ "RequestClosed" # "RequestDecided" /\ "OfferAdded" # "OfferExtraAdded"
  OBVIOUS
<1> QED BY <1>1 DEF Published, Closed, Decided, OfferAdded, OfferExtraAdded, RequestEvent

\* Messages are added at the end of the topic.
LEMMA Appended ==
  ASSUME TypeOK, NEW events \in Seq(Message), topic' = topic \o events
  PROVE  /\ topic' \in Seq(Message)
         /\ Len(topic) \in Nat /\ Len(events) \in Nat /\ Len(topic') = Len(topic) + Len(events)
         /\ \A k \in 1 .. Len(topic) : topic'[k] = topic[k]
         /\ \A k \in 1 .. Len(topic') :
              \/ k \in 1 .. Len(topic)
              \/ k > Len(topic) /\ \E i \in 1 .. Len(events) : topic'[k] = events[i]
         /\ \A i \in 1 .. Len(events) :
              Len(topic) + i \in 1 .. Len(topic') /\ topic'[Len(topic) + i] = events[i]
<1>1. topic \in Seq(Message)
  BY DEF TypeOK
<1>2. Len(topic) \in Nat /\ Len(events) \in Nat
  BY <1>1, LenProperties
<1>3. /\ topic' \in Seq(Message) /\ Len(topic') = Len(topic) + Len(events)
      /\ \A k \in 1 .. Len(topic) + Len(events) :
           topic'[k] = IF k <= Len(topic) THEN topic[k] ELSE events[k - Len(topic)]
  BY <1>1, ConcatProperties
<1>4. ASSUME NEW k \in 1 .. Len(topic'), k \notin 1 .. Len(topic)
      PROVE  k > Len(topic) /\ \E i \in 1 .. Len(events) : topic'[k] = events[i]
  <2>1. k > Len(topic) /\ k - Len(topic) \in 1 .. Len(events)
    BY <1>2, <1>3, <1>4
  <2> QED BY <1>2, <1>3, <2>1
<1>5. ASSUME NEW i \in 1 .. Len(events)
      PROVE  Len(topic) + i \in 1 .. Len(topic') /\ topic'[Len(topic) + i] = events[i]
  <2>1. Len(topic) + i \in 1 .. Len(topic') /\ ~(Len(topic) + i <= Len(topic))
        /\ Len(topic) + i - Len(topic) = i
    BY <1>2, <1>3
  <2> QED BY <1>3, <2>1
<1>6. \A k \in 1 .. Len(topic) : topic'[k] = topic[k]
  BY <1>2, <1>3
<1> QED BY <1>2, <1>3, <1>4, <1>5, <1>6

LEMMA AmongGrows ==
  ASSUME TypeOK, NEW events \in Seq(Message), topic' = topic \o events, NEW event
  PROVE  /\ \A n \in 0 .. Len(topic) : Among(event, topic', n) <=> Among(event, topic, n)
         /\ Told(event) => Among(event, topic', Len(topic'))
         /\ Among(event, events, Len(events)) => Among(event, topic', Len(topic'))
         /\ Among(event, topic', Len(topic')) => Told(event) \/ Among(event, events, Len(events))
<1>1. \A n \in 0 .. Len(topic) : Among(event, topic', n) <=> Among(event, topic, n)
  <2>1. ASSUME NEW n \in 0 .. Len(topic), NEW k \in 1 .. n PROVE topic'[k] = topic[k]
    <3>1. k \in 1 .. Len(topic)
      BY Appended
    <3> QED BY <3>1, Appended
  <2> QED BY <2>1 DEF Among
<1>2. Told(event) => Among(event, topic', Len(topic'))
  <2>1. ASSUME NEW k \in 1 .. Len(topic) PROVE k \in 1 .. Len(topic') /\ topic'[k] = topic[k]
    BY Appended
  <2> QED BY <2>1 DEF Among, Told
<1>3. Among(event, events, Len(events)) => Among(event, topic', Len(topic'))
  BY Appended DEF Among
<1>4. Among(event, topic', Len(topic')) => Told(event) \/ Among(event, events, Len(events))
  <2> SUFFICES ASSUME NEW k \in 1 .. Len(topic'), topic'[k] = event
               PROVE  Told(event) \/ Among(event, events, Len(events))
    BY DEF Among
  <2>1. CASE k \in 1 .. Len(topic)
    BY <2>1, Appended DEF Among, Told
  <2>2. CASE k \notin 1 .. Len(topic)
    BY <2>2, Appended DEF Among
  <2> QED BY <2>1, <2>2
<1> QED BY <1>1, <1>2, <1>3, <1>4

\* An event follows its first message in the longer topic as well.
LEMMA FollowsGrows ==
  ASSUME TypeOK, NEW events \in Seq(Message), topic' = topic \o events, NEW event, NEW first,
         Follows(event, first),
         Among(event, events, Len(events)) => Told(first)
  PROVE  \A k \in 1 .. Len(topic') : topic'[k] = event => Among(first, topic', k)
<1> SUFFICES ASSUME NEW k \in 1 .. Len(topic'), topic'[k] = event PROVE Among(first, topic', k)
  OBVIOUS
<1>1. CASE k \in 1 .. Len(topic)
  <2>1. topic[k] = event /\ k \in 0 .. Len(topic)
    BY <1>1, Appended
  <2>2. Among(first, topic, k)
    BY <1>1, <2>1 DEF Follows
  <2> QED BY <2>1, <2>2, AmongGrows
<1>2. CASE k \notin 1 .. Len(topic)
  <2>1. k > Len(topic) /\ Among(event, events, Len(events))
    BY <1>2, Appended DEF Among
  <2>2. PICK j \in 1 .. Len(topic) : topic[j] = first
    BY <2>1 DEF Told, Among
  <2>3. j \in 1 .. k /\ topic'[j] = first
    BY <2>1, <2>2, Appended
  <2> QED BY <2>3 DEF Among
<1> QED BY <1>1, <1>2

-----------------------------------------------------------------------------
(***************************************************************************)
(* The contract's calls keep the topic complete and in order.              *)
(***************************************************************************)
\* A closed or decided request was told to be so; one whose publication is
\* still to be told was not.
LEMMA ToldIsTrue ==
  ASSUME Inv, NEW r \in RequestID
  PROVE  /\ Told(Published(r)) => stage[r] \in {"open", "closed", "decided"}
         /\ Told(Closed(r)) => stage[r] \in {"closed", "decided"}
         /\ Told(Decided(r)) => stage[r] = "decided"
         /\ \A o \in OfferID : /\ Told(OfferAdded(o, r)) => offers[o].request = r
                               /\ Told(OfferExtraAdded(o)) => offers[o].complete
BY DEF Inv, MessagesAreTrue, IsTrue, Told, Among, Published, Closed, Decided, RequestEvent,
       OfferAdded, OfferExtraAdded

\* What a call may change, and what it must tell.
Tells(events) ==
  /\ \A r \in RequestID :
       /\ stage'[r] = "closed" => stage[r] = "closed" \/ Among(Closed(r), events, Len(events))
       /\ stage'[r] = "decided" => stage[r] = "decided" \/ Among(Decided(r), events, Len(events))
       /\ Among(Published(r), events, Len(events)) =>
            \/ Told(Published(r))
            \/ /\ stage[r] = "pending"
               /\ ~Among(Closed(r), events, Len(events))
               /\ ~Among(Decided(r), events, Len(events))
  /\ \A o \in OfferID :
       /\ offers'[o] # NoOffer =>
            offers[o] # NoOffer \/ Among(OfferAdded(o, offers'[o].request), events, Len(events))
       /\ offers'[o].complete =>
            offers[o].complete \/ Among(OfferExtraAdded(o), events, Len(events))
       /\ Among(OfferExtraAdded(o), events, Len(events)) => offers[o] # NoOffer

LEMMA TopicStep ==
  ASSUME Inv, TopicInv, ContractMovesOn, NEW events \in Seq(Message), topic' = topic \o events,
         Tells(events)
  PROVE  TopicInv'
<1> DEFINE ToldThen(event) == Among(event, topic', Len(topic'))
           FollowsThen(event, first) ==
             \A k \in 1 .. Len(topic') : topic'[k] = event => Among(first, topic', k)
<1>1. TypeOK
  BY DEF Inv
<1>2. ASSUME NEW r \in RequestID
      PROVE  /\ stage'[r] = "closed" => ToldThen(Closed(r))
             /\ stage'[r] = "decided" => ToldThen(Decided(r))
  BY <1>1, AmongGrows DEF TopicInv, Tells
<1>3. ASSUME NEW r \in RequestID, ToldThen(Published(r)),
             NEW event, event \in {Closed(r), Decided(r)}
      PROVE  FollowsThen(event, Published(r))
  <2>1. CASE Told(Published(r))
    <3>1. Follows(event, Published(r))
      BY <1>3, <2>1 DEF TopicInv
    <3> QED BY <1>1, <2>1, <3>1, FollowsGrows
  <2>2. CASE ~Told(Published(r))
    <3>1. /\ stage[r] = "pending"
          /\ ~Among(event, events, Len(events))
      BY <1>1, <1>3, <2>2, AmongGrows DEF Tells
    <3>2. ~Told(event)
      BY <1>3, <3>1, ToldIsTrue
    <3>3. ~ToldThen(event)
      BY <1>1, <3>1, <3>2, AmongGrows
    <3> QED BY <3>3 DEF Among
  <2> QED BY <2>1, <2>2
<1>4. ASSUME NEW o \in OfferID
      PROVE  /\ offers'[o] # NoOffer => ToldThen(OfferAdded(o, offers'[o].request))
             /\ offers'[o].complete => ToldThen(OfferExtraAdded(o))
  <2>1. CASE offers[o] # NoOffer
    <3>1. Told(Added(o)) /\ offers'[o].request = offers[o].request
      BY <2>1 DEF TopicInv, ContractMovesOn
    <3> QED BY <1>1, <3>1, AmongGrows DEF Tells, TopicInv, Added
  <2>2. CASE offers[o] = NoOffer
    BY <1>1, <2>2, AmongGrows DEF Tells, TopicInv, NoOffer
  <2> QED BY <2>1, <2>2
<1>5. ASSUME NEW o \in OfferID
      PROVE  FollowsThen(OfferExtraAdded(o), OfferAdded(o, offers'[o].request))
  <2>1. CASE offers[o] # NoOffer
    <3>1. /\ Told(Added(o)) /\ Follows(OfferExtraAdded(o), Added(o))
          /\ Added(o) = OfferAdded(o, offers'[o].request)
      BY <2>1 DEF TopicInv, ContractMovesOn, Added
    <3> QED BY <1>1, <3>1, FollowsGrows
  <2>2. CASE offers[o] = NoOffer
    <3>1. ~Told(OfferExtraAdded(o)) /\ ~Among(OfferExtraAdded(o), events, Len(events))
      <4>1. ~offers[o].complete
        BY <2>2 DEF NoOffer
      <4>2. ~Told(OfferExtraAdded(o))
        BY <4>1 DEF Inv, MessagesAreTrue, IsTrue, Told, Among, OfferExtraAdded
      <4> QED BY <2>2, <4>2 DEF Tells
    <3>2. ~ToldThen(OfferExtraAdded(o))
      BY <1>1, <3>1, AmongGrows
    <3> QED BY <3>2 DEF Among
  <2> QED BY <2>1, <2>2
<1>6. \A r \in RequestID :
        ToldThen(Published(r)) =>
          FollowsThen(Closed(r), Published(r)) /\ FollowsThen(Decided(r), Published(r))
  BY <1>3
<1> QED BY <1>2, <1>4, <1>5, <1>6 DEF TopicInv, Told, Follows, Added, Published, Closed, Decided,
     RequestEvent, OfferAdded, OfferExtraAdded

\* A call leaves what was read as it is.
LEMMA RowsStayRead ==
  ASSUME Inv, RowsInv, ContractMovesOn, NEW events \in Seq(Message), topic' = topic \o events,
         deleted \subseteq deleted', UNCHANGED <<consumerVars, rowVars>>,
         offers' \in [OfferID -> {NoOffer} \cup [request : RequestID, complete : BOOLEAN]]
  PROVE  RowsInv'
<1>1. TypeOK
  BY DEF Inv
<1>2. position \in 0 .. Len(topic) /\ heardFrom \in 0 .. Len(topic)
  BY <1>1, Appended DEF TypeOK
<1>3. ASSUME NEW event
      PROVE  /\ Among(event, topic', position') <=> Read(event)
             /\ Among(event, topic', heardFrom') <=> Among(event, topic, heardFrom)
  BY <1>1, <1>2, AmongGrows DEF Read, consumerVars
<1>4. ASSUME NEW o \in OfferID, consumer # "starting" PROVE OfferRowIsRead(o)'
  <2>1. OfferRowIsRead(o) /\ offerRows'[o] = offerRows[o]
    BY <1>4 DEF RowsInv, rowVars
  <2>2. CASE offers[o] # NoOffer
    <3>1. OfferAdded(o, offers'[o].request) = Added(o) /\ offers'[o].request = offers[o].request
      BY <2>2 DEF ContractMovesOn, Added
    <3> QED BY <1>3, <2>1, <3>1 DEF OfferRowIsRead, HeardOf, Read, Added
  <2>3. CASE offers[o] = NoOffer
    <3>1. offerRows[o] = NoOfferRow
      BY <1>1, <2>3 DEF Inv, NeverAhead, TypeOK, NoOffer, NoOfferRow, RequestID
    <3>2. ~Read(OfferAdded(o, offers'[o].request))
      <4> SUFFICES ASSUME NEW k \in 1 .. position, topic[k] = OfferAdded(o, offers'[o].request)
                   PROVE  FALSE
        BY DEF Read, Among
      <4>1. k \in 1 .. Len(topic)
        BY <1>1, <1>2, Appended
      <4>2. topic[k] \in Message /\ IsTrue(topic[k])
        BY <1>1, <4>1, ElementOfSeq DEF Inv, TypeOK, MessagesAreTrue
      <4>3. offers[o].request = offers'[o].request
        BY <4>2 DEF IsTrue, OfferAdded
      <4>4. topic[k].request \in RequestID
        BY <4>2, MessageFacts DEF OfferAdded
      <4> QED BY <2>3, <4>3, <4>4 DEF OfferAdded, NoOffer, RequestID
    <3> QED BY <1>3, <2>1, <3>1, <3>2 DEF OfferRowIsRead, HeardOf, Read, Added, NoOfferRow
  <2> QED BY <2>2, <2>3
<1>5. ASSUME NEW r \in RequestID, consumer # "starting" PROVE RequestRowIsRead(r)'
  <2>1. RequestRowIsRead(r) /\ requestRows'[r] = requestRows[r]
    BY <1>5 DEF RowsInv, rowVars
  <2> QED BY <1>3, <2>1 DEF RequestRowIsRead, HeardOf, Read, StatusRead, Published, Closed, Decided,
       RequestEvent
<1> QED BY <1>4, <1>5 DEF RowsInv, consumerVars, rowVars, NoRequestRow, NoOfferRow

LEMMA AmongFew ==
  ASSUME NEW event
  PROVE  /\ ~Among(event, << >>, Len(<< >>))
         /\ \A first \in Message : Among(event, <<first>>, Len(<<first>>)) <=> event = first
         /\ \A first, second \in Message :
              Among(event, <<first, second>>, Len(<<first, second>>)) <=> event \in {first, second}
<1>1. ~Among(event, << >>, Len(<< >>))
  BY DEF Among
<1>2. ASSUME NEW first \in Message
      PROVE  Among(event, <<first>>, Len(<<first>>)) <=> event = first
  <2>1. Len(<<first>>) = 1 /\ <<first>>[1] = first
    OBVIOUS
  <2>2. 1 .. 1 = {1}
    OBVIOUS
  <2> QED BY <2>1, <2>2 DEF Among
<1>3. ASSUME NEW first \in Message, NEW second \in Message
      PROVE  Among(event, <<first, second>>, Len(<<first, second>>)) <=> event \in {first, second}
  <2>1. Len(<<first, second>>) = 2 /\ <<first, second>>[1] = first /\ <<first, second>>[2] = second
    OBVIOUS
  <2>2. 1 .. 2 = {1, 2}
    OBVIOUS
  <2> QED BY <2>1, <2>2 DEF Among
<1> QED BY <1>1, <1>2, <1>3

LEMMA CallKeepsMirror ==
  ASSUME MirrorInv, Inv', ContractMovesOn, NEW events \in Seq(Message), topic' = topic \o events,
         Tells(events), deleted \subseteq deleted', UNCHANGED <<consumerVars, rowVars>>
  PROVE  MirrorInv'
BY TopicStep, RowsStayRead DEF MirrorInv, Inv, TypeOK

LEMMA RequestCallKeepsMirror ==
  ASSUME MirrorInv, Inv', NEW r \in RequestID,
         \/ SubmitRequest(r) \/ SubmitRequestExtra(r)
         \/ CloseRequest(r) \/ DecideRequest(r) \/ DeleteRequest(r)
  PROVE  MirrorInv'
<1> USE EventTypes DEF RequestEventNames
<1>1. stage \in [RequestID -> Stages] /\ topic \in Seq(Message)
  BY DEF MirrorInv, Inv, TypeOK
<1>2. topic \o << >> = topic
  BY <1>1, EmptySeq, ConcatEmptySeq
<1>3. CASE SubmitRequest(r) \/ DeleteRequest(r)
  <2>1. ContractMovesOn /\ deleted \subseteq deleted' /\ UNCHANGED <<consumerVars, rowVars, topic>>
    BY <1>1, <1>3 DEF SubmitRequest, DeleteRequest, ContractMovesOn, Stages
  <2>2. Tells(<< >>)
    BY <1>1, <1>3, AmongFew DEF SubmitRequest, DeleteRequest, Tells
  <2> QED BY <1>2, <2>1, <2>2, CallKeepsMirror
<1>4. CASE SubmitRequestExtra(r)
  <2>1. PICK event \in Message : event = Published(r)
    BY DEF Published
  <2>2. ContractMovesOn /\ deleted \subseteq deleted' /\ UNCHANGED <<consumerVars, rowVars, offers>>
    BY <1>1, <1>4 DEF SubmitRequestExtra, ContractMovesOn, Stages
  <2>3. <<event>> \in Seq(Message) /\ topic' = topic \o <<event>>
    BY <1>4, <2>1 DEF SubmitRequestExtra, Emit, Published
  <2>4. \A e : Among(e, <<event>>, Len(<<event>>)) <=> e = Published(r)
    BY <2>1, AmongFew
  <2>5. stage[r] = "pending" /\ stage' = [stage EXCEPT ![r] = "open"]
    BY <1>4 DEF SubmitRequestExtra
  <2>6. ASSUME NEW q \in RequestID
        PROVE  /\ stage'[q] \in {"closed", "decided"} => stage'[q] = stage[q]
               /\ Among(Published(q), <<event>>, Len(<<event>>)) => stage[q] = "pending"
               /\ ~Among(Closed(q), <<event>>, Len(<<event>>))
               /\ ~Among(Decided(q), <<event>>, Len(<<event>>))
    BY <1>1, <2>4, <2>5, EventsDiffer
  <2>7. ASSUME NEW o \in OfferID PROVE ~Among(OfferExtraAdded(o), <<event>>, Len(<<event>>))
    BY <2>4, EventsDiffer
  <2>8. Tells(<<event>>)
    <3>1. offers' = offers
      BY <2>2
    <3> QED BY <2>6, <2>7, <3>1 DEF Tells
  <2> QED BY <2>2, <2>3, <2>8, CallKeepsMirror
<1>5. CASE CloseRequest(r)
  <2>1. PICK event \in Message : event = Closed(r)
    BY DEF Closed
  <2>2. ContractMovesOn /\ deleted \subseteq deleted' /\ UNCHANGED <<consumerVars, rowVars, offers>>
    BY <1>1, <1>5 DEF CloseRequest, ContractMovesOn, Stages
  <2>3. <<event>> \in Seq(Message) /\ topic' = topic \o <<event>>
    BY <1>5, <2>1 DEF CloseRequest, Emit, Closed
  <2>4. \A e : Among(e, <<event>>, Len(<<event>>)) <=> e = Closed(r)
    BY <2>1, AmongFew
  <2>5. stage' = [stage EXCEPT ![r] = "closed"]
    BY <1>5 DEF CloseRequest
  <2>6. ASSUME NEW q \in RequestID
        PROVE  /\ stage'[q] = "closed" =>
                    stage[q] = "closed" \/ Among(Closed(q), <<event>>, Len(<<event>>))
               /\ stage'[q] = "decided" => stage[q] = "decided"
               /\ ~Among(Published(q), <<event>>, Len(<<event>>))
    BY <1>1, <2>4, <2>5, EventsDiffer
  <2>7. ASSUME NEW o \in OfferID PROVE ~Among(OfferExtraAdded(o), <<event>>, Len(<<event>>))
    BY <2>4, EventsDiffer
  <2>8. Tells(<<event>>)
    <3>1. offers' = offers
      BY <2>2
    <3> QED BY <2>6, <2>7, <3>1 DEF Tells
  <2> QED BY <2>2, <2>3, <2>8, CallKeepsMirror
<1>6. CASE DecideRequest(r)
  <2>1. PICK event \in Message : event = Decided(r)
    BY DEF Decided
  <2>2. ContractMovesOn /\ deleted \subseteq deleted' /\ UNCHANGED <<consumerVars, rowVars, offers>>
    BY <1>1, <1>6 DEF DecideRequest, ContractMovesOn, Stages
  <2>3. <<event>> \in Seq(Message) /\ topic' = topic \o <<event>>
    BY <1>6, <2>1 DEF DecideRequest, Emit, Decided
  <2>4. \A e : Among(e, <<event>>, Len(<<event>>)) <=> e = Decided(r)
    BY <2>1, AmongFew
  <2>5. stage' = [stage EXCEPT ![r] = "decided"]
    BY <1>6 DEF DecideRequest
  <2>6. ASSUME NEW q \in RequestID
        PROVE  /\ stage'[q] = "closed" => stage[q] = "closed"
               /\ stage'[q] = "decided" =>
                    stage[q] = "decided" \/ Among(Decided(q), <<event>>, Len(<<event>>))
               /\ ~Among(Published(q), <<event>>, Len(<<event>>))
    <3>1. stage'[q] = IF q = r THEN "decided" ELSE stage[q]
      BY <1>1, <2>5
    <3>2. Published(q) # Decided(r)
      BY EventsDiffer
    <3> QED BY <2>4, <3>1, <3>2
  <2>7. ASSUME NEW o \in OfferID PROVE ~Among(OfferExtraAdded(o), <<event>>, Len(<<event>>))
    BY <2>4, EventsDiffer
  <2>8. Tells(<<event>>)
    <3>1. offers' = offers
      BY <2>2
    <3> QED BY <2>6, <2>7, <3>1 DEF Tells
  <2> QED BY <2>2, <2>3, <2>8, CallKeepsMirror
<1> QED BY <1>3, <1>4, <1>5, <1>6

LEMMA OfferCallKeepsMirror ==
  ASSUME MirrorInv, Inv', NEW o \in OfferID
  PROVE  /\ \A r \in RequestID : SubmitOffer(o, r) => MirrorInv'
         /\ \A instantRent \in BOOLEAN : SubmitOfferExtra(o, instantRent) => MirrorInv'
<1> USE EventTypes
<1>1. /\ stage \in [RequestID -> Stages] /\ topic \in Seq(Message)
      /\ offers \in [OfferID -> {NoOffer} \cup [request : RequestID, complete : BOOLEAN]]
  BY DEF MirrorInv, Inv, TypeOK
<1>2. ASSUME NEW r \in RequestID, SubmitOffer(o, r) PROVE MirrorInv'
  <2>1. PICK event \in Message : event = OfferAdded(o, r)
    OBVIOUS
  <2>2. ContractMovesOn /\ deleted \subseteq deleted' /\ UNCHANGED <<consumerVars, rowVars, stage>>
    BY <1>1, <1>2 DEF SubmitOffer, ContractMovesOn, NoOffer
  <2>3. <<event>> \in Seq(Message) /\ topic' = topic \o <<event>>
    BY <1>2, <2>1 DEF SubmitOffer, Emit
  <2>4. \A e : Among(e, <<event>>, Len(<<event>>)) <=> e = OfferAdded(o, r)
    BY <2>1, AmongFew
  <2>5. offers' = [offers EXCEPT ![o] = [request |-> r, complete |-> FALSE]]
    BY <1>2 DEF SubmitOffer
  <2>6. /\ offers'[o].request = r /\ ~offers'[o].complete
        /\ \A p \in OfferID \ {o} : offers'[p] = offers[p]
    BY <1>1, <2>5
  <2>7. Tells(<<event>>)
    BY <2>2, <2>4, <2>6, EventsDiffer DEF Tells
  <2> QED BY <2>2, <2>3, <2>7, CallKeepsMirror
<1>3. ASSUME NEW instantRent \in BOOLEAN, SubmitOfferExtra(o, instantRent) PROVE MirrorInv'
  <2>1. PICK r \in RequestID : r = offers[o].request /\ stage[r] = "open"
    BY <1>1, <1>3 DEF SubmitOfferExtra, NoOffer
  <2>2. PICK added \in Message, decided \in Message : added = OfferExtraAdded(o) /\ decided = Decided(r)
    BY DEF Decided, RequestEventNames
  <2>3. /\ offers[o] # NoOffer
        /\ offers' = [offers EXCEPT ![o].complete = TRUE]
        /\ UNCHANGED <<deleted, consumerVars, rowVars>>
    BY <1>3 DEF SubmitOfferExtra, NoOffer
  <2>4. \A p \in OfferID : /\ offers'[p].request = offers[p].request
                           /\ p # o => offers'[p] = offers[p]
                           /\ offers[p].complete => offers'[p].complete
    <3>1. offers[o] \in [request : RequestID, complete : BOOLEAN]
      BY <1>1, <2>3
    <3>2. [offers[o] EXCEPT !.complete = TRUE].request = offers[o].request
          /\ [offers[o] EXCEPT !.complete = TRUE].complete
      BY <3>1
    <3>3. offers'[o] = [offers[o] EXCEPT !.complete = TRUE] /\ \A p \in OfferID \ {o} : offers'[p] = offers[p]
      BY <1>1, <2>3
    <3> QED BY <3>2, <3>3
  <2>5. CASE instantRent
    <3>1. stage' = [stage EXCEPT ![r] = "decided"] /\ topic' = topic \o <<added, decided>>
      BY <1>3, <2>1, <2>2, <2>5 DEF SubmitOfferExtra, Emit, Decided
    <3>2. <<added, decided>> \in Seq(Message)
      OBVIOUS
    <3>3. \A e : Among(e, <<added, decided>>, Len(<<added, decided>>))
                   <=> e \in {OfferExtraAdded(o), Decided(r)}
      BY <2>2, AmongFew
    <3>4. ContractMovesOn
      BY <1>1, <2>1, <2>4, <3>1 DEF ContractMovesOn, Stages
    <3>5. ASSUME NEW q \in RequestID
          PROVE  /\ stage'[q] = "closed" => stage[q] = "closed"
                 /\ stage'[q] = "decided" => stage[q] = "decided" \/ Decided(q) = Decided(r)
                 /\ Published(q) \notin {OfferExtraAdded(o), Decided(r)}
      BY <1>1, <3>1, EventsDiffer
    <3>6. ASSUME NEW p \in OfferID
          PROVE  /\ offers'[p] # NoOffer => offers[p] # NoOffer
                 /\ offers'[p].complete => offers[p].complete \/ p = o
                 /\ OfferExtraAdded(p) \in {OfferExtraAdded(o), Decided(r)} => offers[p] # NoOffer
      BY <2>3, <2>4, EventsDiffer
    <3>7. Tells(<<added, decided>>)
      BY <3>3, <3>5, <3>6 DEF Tells
    <3> QED BY <2>3, <3>1, <3>2, <3>4, <3>7, CallKeepsMirror
  <2>6. CASE ~instantRent
    <3>1. stage' = stage /\ topic' = topic \o <<added>> /\ <<added>> \in Seq(Message)
      BY <1>3, <2>2, <2>6 DEF SubmitOfferExtra, Emit
    <3>2. \A e : Among(e, <<added>>, Len(<<added>>)) <=> e = OfferExtraAdded(o)
      BY <2>2, AmongFew
    <3>3. ContractMovesOn
      BY <2>4, <3>1 DEF ContractMovesOn
    <3>4. Tells(<<added>>)
      BY <2>3, <2>4, <3>1, <3>2, EventsDiffer DEF Tells
    <3> QED BY <2>3, <3>1, <3>3, <3>4, CallKeepsMirror
  <2> QED BY <2>5, <2>6
<1> QED BY <1>2, <1>3

LEMMA RepeatKeepsMirror ==
  ASSUME MirrorInv, Inv', NEW k \in 1 .. Len(topic), Repeat(k)
  PROVE  MirrorInv'
<1>1. PICK event \in Message : event = topic[k] /\ IsTrue(event) /\ Told(event)
  BY ElementOfSeq DEF MirrorInv, Inv, TypeOK, MessagesAreTrue, Told, Among
<1>2. /\ ContractMovesOn /\ UNCHANGED <<deleted, consumerVars, rowVars, stage, offers>>
      /\ <<event>> \in Seq(Message) /\ topic' = topic \o <<event>>
  BY <1>1 DEF Repeat, Emit, contractVars, ContractMovesOn
<1>3. \A e : Among(e, <<event>>, Len(<<event>>)) <=> e = event
  BY AmongFew
<1>4. ASSUME NEW o \in OfferID, event = OfferExtraAdded(o) PROVE offers[o] # NoOffer
  BY <1>1, <1>4 DEF IsTrue, OfferExtraAdded, NoOffer
<1>5. Tells(<<event>>)
  BY <1>1, <1>2, <1>3, <1>4 DEF Tells
<1> QED BY <1>2, <1>5, CallKeepsMirror

-----------------------------------------------------------------------------
(***************************************************************************)
(* The consumer reads.                                                     *)
(***************************************************************************)
LEMMA ReadOneMore ==
  ASSUME TypeOK, position < Len(topic), position' = position + 1,
         UNCHANGED <<topic, heardFrom>>, NEW event
  PROVE  /\ Among(event, topic', position') <=> Read(event) \/ event = topic[position + 1]
         /\ Among(event, topic', heardFrom') <=> Among(event, topic, heardFrom)
         /\ Among(event, topic, heardFrom) => Read(event)
         /\ \A first : Follows(event, first) /\ event = topic[position + 1] /\ event # first
                         => Read(first)
         /\ \A first : Follows(event, first) /\ Read(event) => Read(first)
<1>1. position \in Nat /\ heardFrom \in Nat /\ heardFrom <= position /\ Len(topic) \in Nat
  BY LenProperties DEF TypeOK
<1>2. 1 .. position' = 1 .. position \cup {position + 1} /\ 1 .. heardFrom \subseteq 1 .. position
      /\ position + 1 \in 1 .. Len(topic)
  BY <1>1
<1>3. ASSUME NEW k \in 1 .. position
      PROVE  k \in 1 .. Len(topic) /\ 1 .. k \subseteq 1 .. position
  BY <1>1
<1>4. ASSUME NEW first, Follows(event, first), Read(event) PROVE Read(first)
  BY <1>3, <1>4 DEF Read, Among, Follows
<1>5. ASSUME NEW first, Follows(event, first), event = topic[position + 1], event # first
      PROVE  Read(first)
  <2>1. Among(first, topic, position + 1)
    BY <1>2, <1>5 DEF Follows
  <2> QED BY <1>2, <1>5, <2>1 DEF Read, Among
<1> QED BY <1>2, <1>4, <1>5 DEF Read, Among

\* The rows of one request after its message, and after others'.
LEMMA RequestRowAfter ==
  ASSUME MirrorInv, Consume, NEW r \in RequestID
  PROVE  RequestRowIsRead(r)'
<1> DEFINE message == topic[position + 1]
           ReadThen(event) == Among(event, topic', position')
<1>1. /\ TypeOK /\ position < Len(topic) /\ position' = position + 1 /\ UNCHANGED <<topic, heardFrom>>
      /\ HandleMessage(message) /\ message \in Message
  BY NextMessage DEF MirrorInv, Inv, Consume
<1>2. RequestRowIsRead(r) /\ requestRows \in [RequestID -> RequestRow]
  BY RowsOfInv DEF MirrorInv, RowsInv, Consume, RequestRowsInv
<1>3. SUFFICES /\ requestRows'[r].status # "none" => ReadThen(Published(r))
               /\ ReadThen(Published(r)) /\ ~Among(Published(r), topic, heardFrom) =>
                    requestRows'[r].status = IF ReadThen(Decided(r)) THEN "decided"
                                             ELSE IF ReadThen(Closed(r)) THEN "closed"
                                             ELSE "open"
  BY <1>1 DEF RequestRowIsRead, HeardOf, Read, StatusRead, Published, Closed, Decided, RequestEvent
<1>4. \A event \in {Published(r), Closed(r), Decided(r)} :
        ReadThen(event) <=> Read(event) \/ event = message
  BY <1>1, ReadOneMore
<1>5. CASE message = Published(r)
  <2>1. SaveRequestState(r)
    BY <1>1, <1>5 DEF HandleMessage, Published, RequestEvent
  <2>2. CASE requestRows[r].status = "none"
    <3>1. requestRows'[r].status = "open"
      BY <1>2, <2>1, <2>2 DEF SaveRequestState
    <3>2. ASSUME ~Among(Published(r), topic, heardFrom)
          PROVE  ~Read(Closed(r)) /\ ~Read(Decided(r))
      <4>1. ~Read(Published(r))
        BY <1>2, <2>2, <3>2 DEF RequestRowIsRead, HeardOf, StatusRead
      <4>2. Told(Published(r))
        BY <1>1, <1>5, NextMessage DEF Told, Among
      <4>3. Follows(Closed(r), Published(r)) /\ Follows(Decided(r), Published(r))
        BY <4>2 DEF MirrorInv, TopicInv
      <4> QED BY <1>1, <4>1, <4>3, ReadOneMore
    <3> QED BY <1>4, <1>5, <3>1, <3>2, EventsDiffer
  <2>3. CASE requestRows[r].status # "none"
    <3>1. requestRows' = requestRows /\ Read(Published(r))
      BY <1>2, <2>1, <2>3 DEF SaveRequestState, RequestRowIsRead
    <3> QED BY <1>2, <1>4, <1>5, <3>1, EventsDiffer DEF RequestRowIsRead, HeardOf, StatusRead
  <2> QED BY <2>2, <2>3
<1>6. ASSUME NEW status \in {"closed", "decided"}, UpdateRequestStatus(r, status),
             message # Published(r)
      PROVE  /\ requestRows'[r].status =
                  IF requestRows[r].status \in {"none", "decided"} THEN requestRows[r].status ELSE status
             /\ requestRows[r].status = "none" => ~HeardOf(Published(r))
  <2>1. requestRows'[r] = SetStatus(requestRows[r], status)
    BY <1>2, <1>6 DEF UpdateRequestStatus
  <2>2. requestRows[r].status \notin {"none", "decided"} =>
          [requestRows[r] EXCEPT !.status = status].status = status
    <3>1. requestRows[r].status \notin {"none", "decided"} =>
            requestRows[r] \in [status : Statuses \ {"none"}, extra : {"given", "blank"}]
      BY <1>2 DEF RequestRow, NoRequestRow
    <3> QED BY <3>1
  <2>3. requestRows[r].status = "none" => ~HeardOf(Published(r))
    BY <1>2 DEF RequestRowIsRead, StatusRead
  <2> QED BY <2>1, <2>2, <2>3 DEF SetStatus
<1>7. CASE message = Closed(r)
  <2>1. UpdateRequestStatus(r, "closed") /\ message # Published(r) /\ message # Decided(r)
    BY <1>1, <1>7, EventsDiffer DEF HandleMessage, Closed, RequestEvent
  <2> QED BY <1>2, <1>4, <1>6, <1>7, <2>1 DEF RequestRowIsRead, HeardOf, StatusRead
<1>8. CASE message = Decided(r)
  <2>1. UpdateRequestStatus(r, "decided") /\ message # Published(r)
    BY <1>1, <1>8, EventsDiffer DEF HandleMessage, Decided, RequestEvent
  <2> QED BY <1>2, <1>4, <1>6, <1>8, <2>1 DEF RequestRowIsRead, HeardOf, StatusRead
<1>9. CASE message \notin {Published(r), Closed(r), Decided(r)}
  <2>1. requestRows'[r] = requestRows[r]
    <3>1. CASE message.name \in RequestEventNames
      <4>1. message.request # r
        <5>1. PICK name \in RequestEventNames, q \in RequestID : message = RequestEvent(name, q)
          <6>1. \A o \in OfferID, q \in RequestID :
                  OfferAdded(o, q).name \notin RequestEventNames
                  /\ OfferExtraAdded(o).name \notin RequestEventNames
            BY DEF OfferAdded, OfferExtraAdded, RequestEventNames
          <6> HIDE DEF message
          <6> QED BY <1>1, <3>1, <6>1 DEF Message, RequestEventNames
        <5>2. message.request = q
          BY <5>1 DEF RequestEvent
        <5> QED BY <1>9, <5>1, <5>2 DEF RequestEventNames, Published, Closed, Decided
      <4>2. \/ SaveRequestState(message.request)
            \/ \E status \in {"closed", "decided"} : UpdateRequestStatus(message.request, status)
        BY <1>1, <3>1 DEF HandleMessage, RequestEventNames
      <4> QED BY <1>2, <4>1, <4>2 DEF SaveRequestState, UpdateRequestStatus
    <3>2. CASE message.name \in {"OfferAdded", "OfferExtraAdded"}
      BY <1>1, <3>2 DEF HandleMessage, SaveNewOffer, SaveOfferState
    <3> QED BY <1>1, <3>1, <3>2, MessageFacts
  <2> QED BY <1>2, <1>4, <1>9, <2>1 DEF RequestRowIsRead, HeardOf, StatusRead
<1> QED BY <1>5, <1>7, <1>8, <1>9

LEMMA OfferRowAfter ==
  ASSUME MirrorInv, Consume, NEW o \in OfferID
  PROVE  OfferRowIsRead(o)'
<1> DEFINE message == topic[position + 1]
           ReadThen(event) == Among(event, topic', position')
<1>1. /\ TypeOK /\ position < Len(topic) /\ position' = position + 1 /\ UNCHANGED <<topic, heardFrom>>
      /\ HandleMessage(message) /\ message \in Message /\ IsTrue(message)
      /\ UNCHANGED <<deleted, offers>>
  BY NextMessage DEF MirrorInv, Inv, Consume, MessagesAreTrue, contractVars
<1>2. OfferRowIsRead(o) /\ offerRows \in [OfferID -> OfferRow]
      /\ (offerRows[o].extra # "none" => offers[o].complete)
  BY RowsOfInv DEF MirrorInv, RowsInv, Consume, OfferRowsInv
<1>3. SUFFICES /\ offerRows'[o] # NoOfferRow => ReadThen(Added(o))
               /\ ReadThen(Added(o)) /\ ~Among(Added(o), topic, heardFrom) =>
                    /\ offerRows'[o] # NoOfferRow
                    /\ offerRows'[o].extra # "none" <=> ReadThen(OfferExtraAdded(o))
               /\ offerRows'[o].extra = "blank" => offers[o].request \in deleted
  BY <1>1 DEF OfferRowIsRead, HeardOf, Read, Added, OfferAdded, OfferExtraAdded, NoOfferRow
<1>4. \A event \in {Added(o), OfferExtraAdded(o)} :
        ReadThen(event) <=> Read(event) \/ event = message
  BY <1>1, ReadOneMore
<1>5. Added(o) # OfferExtraAdded(o)
  BY EventsDiffer DEF Added
<1>6. Read(OfferExtraAdded(o)) \/ message = OfferExtraAdded(o) => Read(Added(o))
  <2>1. Follows(OfferExtraAdded(o), Added(o))
    BY DEF MirrorInv, TopicInv
  <2> QED BY <1>1, <1>5, <2>1, ReadOneMore
<1>7. CASE message = Added(o)
  <2>1. SaveNewOffer(o, offers[o].request)
    BY <1>1, <1>7 DEF HandleMessage, Added, OfferAdded
  <2>2. CASE offerRows[o] = NoOfferRow
    <3>1. offerRows'[o] = [request |-> offers[o].request, extra |-> "none"]
      BY <1>2, <2>1, <2>2 DEF SaveNewOffer
    <3>2. offerRows'[o] # NoOfferRow /\ offerRows'[o].extra = "none"
      <4>1. offers[o].request # 0
        BY <1>1, <1>7, MessageFacts DEF Added, OfferAdded, RequestID
      <4> QED BY <3>1, <4>1 DEF NoOfferRow
    <3>3. ~Among(Added(o), topic, heardFrom) => ~Read(Added(o))
      BY <1>2, <2>2 DEF OfferRowIsRead, HeardOf
    <3> QED BY <1>4, <1>5, <1>6, <1>7, <3>2, <3>3
  <2>3. CASE offerRows[o] # NoOfferRow
    <3>1. offerRows' = offerRows /\ Read(Added(o))
      BY <1>2, <2>1, <2>3 DEF SaveNewOffer, OfferRowIsRead
    <3> QED BY <1>2, <1>4, <1>5, <1>7, <2>3, <3>1 DEF OfferRowIsRead, HeardOf
  <2> QED BY <2>2, <2>3
<1>8. CASE message = OfferExtraAdded(o)
  <2>1. SaveOfferState(o)
    BY <1>1, <1>8 DEF HandleMessage, OfferExtraAdded
  <2>2. CASE offerRows[o] = NoOfferRow
    <3>1. offerRows' = offerRows
      BY <2>1, <2>2 DEF SaveOfferState
    <3> QED BY <1>2, <1>4, <1>5, <1>6, <1>8, <2>2, <3>1 DEF OfferRowIsRead, HeardOf
  <2>3. CASE offerRows[o] # NoOfferRow
    <3>1. offerRows[o] \in [request : RequestID, extra : {"none", "given", "blank"}]
      BY <1>2, <2>3 DEF OfferRow
    <3>2. offerRows'[o] = [offerRows[o] EXCEPT !.extra = FetchOfferDetails(o)]
      BY <1>2, <2>1, <2>3 DEF SaveOfferState
    <3>3. /\ offerRows'[o].extra = FetchOfferDetails(o)
          /\ offerRows'[o].request \in RequestID
      BY <3>1, <3>2
    <3>4. offerRows'[o] # NoOfferRow
      BY <3>3 DEF NoOfferRow, RequestID
    <3>5. /\ offerRows'[o].extra # "none"
          /\ offerRows'[o].extra = "blank" => offers[o].request \in deleted
      BY <3>3 DEF FetchOfferDetails
    <3> QED BY <1>2, <1>4, <1>5, <1>8, <2>3, <3>4, <3>5 DEF OfferRowIsRead
  <2> QED BY <2>2, <2>3
<1>9. CASE message \notin {Added(o), OfferExtraAdded(o)}
  <2>1. offerRows'[o] = offerRows[o]
    <3>1. CASE message.name \in RequestEventNames
      BY <1>1, <3>1 DEF HandleMessage, RequestEventNames, SaveRequestState, UpdateRequestStatus
    <3>2. CASE message.name \in {"OfferAdded", "OfferExtraAdded"}
      <4>1. message.offer # o
        <5>1. PICK p \in OfferID :
                (\E r \in RequestID : message = OfferAdded(p, r)) \/ message = OfferExtraAdded(p)
          <6>1. \A name \in RequestEventNames, q \in RequestID :
                  RequestEvent(name, q).name \notin {"OfferAdded", "OfferExtraAdded"}
            BY DEF RequestEvent, RequestEventNames
          <6> HIDE DEF message
          <6> QED BY <1>1, <3>2, <6>1 DEF Message, RequestEventNames
        <5>2. message.offer = p
          <6> HIDE DEF message
          <6> QED BY <5>1 DEF OfferAdded, OfferExtraAdded
        <5>3. \A r \in RequestID : message = OfferAdded(p, r) => r = offers[p].request
          BY <1>1 DEF IsTrue, OfferAdded
        <5> QED BY <1>9, <5>1, <5>2, <5>3 DEF Added
      <4>2. \/ SaveNewOffer(message.offer, message.request)
            \/ SaveOfferState(message.offer)
        BY <1>1, <3>2 DEF HandleMessage
      <4> QED BY <1>2, <4>1, <4>2 DEF SaveNewOffer, SaveOfferState
    <3> QED BY <1>1, <3>1, <3>2, MessageFacts
  <2> QED BY <1>2, <1>4, <1>9, <2>1 DEF OfferRowIsRead, HeardOf
<1> QED BY <1>7, <1>8, <1>9

\* Nothing that the mirror is about changes.
LEMMA QuietKeepsMirror ==
  ASSUME MirrorInv, Inv', consumer = "starting" <=> consumer' = "starting",
         UNCHANGED <<stage, deleted, offers, topic, position, heardFrom, requestRows, offerRows>>
  PROVE  MirrorInv'
<1>1. TopicInv'
  BY DEF MirrorInv, TopicInv, Told, Follows, Among, Added, Published, Closed, Decided,
     RequestEvent, OfferAdded, OfferExtraAdded, NoOffer
<1>2. ASSUME NEW r \in RequestID, RequestRowIsRead(r) PROVE RequestRowIsRead(r)'
  BY <1>2 DEF RequestRowIsRead, HeardOf, Read, Among, StatusRead, Published, Closed, Decided,
     RequestEvent
<1>3. ASSUME NEW o \in OfferID, OfferRowIsRead(o) PROVE OfferRowIsRead(o)'
  BY <1>3 DEF OfferRowIsRead, HeardOf, Read, Among, Added, OfferAdded, OfferExtraAdded, NoOfferRow
<1> QED BY <1>1, <1>2, <1>3 DEF MirrorInv, RowsInv, NoRequestRow, NoOfferRow

LEMMA ConsumerKeepsMirror ==
  ASSUME MirrorInv, Inv', Consume \/ FirstPoll \/ HandlerRaises \/ Restart
  PROVE  MirrorInv'
<1>1. UNCHANGED <<stage, deleted, offers, topic>>
  BY DEF Consume, FirstPoll, HandlerRaises, Restart, contractVars
<1>2. TopicInv'
  BY <1>1 DEF MirrorInv, TopicInv, Told, Follows, Among, Added, Published, Closed, Decided,
     RequestEvent, OfferAdded, OfferExtraAdded, NoOffer
<1>3. CASE Consume
  <2>1. consumer' # "starting"
    BY <1>3 DEF Consume
  <2> QED BY <1>2, <1>3, <2>1, RequestRowAfter, OfferRowAfter DEF MirrorInv, RowsInv
<1>4. CASE FirstPoll
  <2>1. /\ consumer' = "running" /\ position' = heardFrom' /\ UNCHANGED <<requestRows, offerRows>>
        /\ requestRows = [r \in RequestID |-> NoRequestRow]
        /\ offerRows = [o \in OfferID |-> NoOfferRow]
    BY <1>4 DEF FirstPoll, rowVars, MirrorInv, RowsInv
  <2>2. ASSUME NEW r \in RequestID PROVE RequestRowIsRead(r)'
    BY <1>1, <2>1 DEF RequestRowIsRead, HeardOf, Read, NoRequestRow
  <2>3. ASSUME NEW o \in OfferID PROVE OfferRowIsRead(o)'
    BY <1>1, <2>1 DEF OfferRowIsRead, HeardOf, Read, NoOfferRow
  <2> QED BY <1>2, <2>1, <2>2, <2>3 DEF MirrorInv, RowsInv
<1>5. CASE HandlerRaises
  BY <1>1, <1>5, QuietKeepsMirror DEF HandlerRaises, rowVars
<1>6. CASE Restart
  BY <1>2, <1>6 DEF Restart, MirrorInv, RowsInv, NoRequestRow, NoOfferRow
<1> QED BY <1>3, <1>4, <1>5, <1>6

LEMMA MirrorInvHolds == Spec => []MirrorInv
<1>1. Init => MirrorInv
  <2> SUFFICES ASSUME Init PROVE MirrorInv
    OBVIOUS
  <2>1. Inv /\ RowsInv
    BY InitInv DEF Init, RowsInv
  <2>2. \A event : ~Among(event, topic, Len(topic))
    BY DEF Init, Among
  <2>3. TopicInv
    BY <2>2 DEF Init, TopicInv, Told, Follows, Among, NoOffer
  <2> QED BY <2>1, <2>3 DEF MirrorInv
<1>2. MirrorInv /\ Inv' /\ [Next]_vars => MirrorInv'
  <2> SUFFICES ASSUME MirrorInv, Inv', [Next]_vars PROVE MirrorInv'
    OBVIOUS
  <2>1. CASE Next
    BY <2>1, RequestCallKeepsMirror, OfferCallKeepsMirror, RepeatKeepsMirror, ConsumerKeepsMirror
       DEF Next
  <2>2. CASE UNCHANGED vars
    BY <2>2, QuietKeepsMirror DEF vars, contractVars, consumerVars, rowVars
  <2> QED BY <2>1, <2>2
<1> QED BY <1>1, <1>2, InvHolds, PTL DEF Spec

(***************************************************************************)
(* A consumer that has read all the messages shows every request at the    *)
(* stage it has in the contract, if it heard of its publication            *)
(* (_update_request_status in kafka/__init__.py): of the updates it makes  *)
(* of late or repeated messages, the one of the furthest stage wins.       *)
(***************************************************************************)
THEOREM RequestsMirrored == Spec => []RequestsAreMirrored
<1>1. MirrorInv => RequestsAreMirrored
  <2> SUFFICES ASSUME MirrorInv, CaughtUp, NEW r \in RequestID, Heard(Published(r))
               PROVE  requestRows[r].status = stage[r]
    BY DEF RequestsAreMirrored, Published
  <2>1. position = Len(topic) /\ RequestRowIsRead(r)
    BY DEF CaughtUp, MirrorInv, RowsInv
  <2>2. \A event : Read(event) <=> Told(event)
    BY <2>1 DEF Read, Told
  <2>3. Told(Published(r)) /\ HeardOf(Published(r))
    BY <2>2 DEF Heard, HeardOf, Told, Among
  <2>4. requestRows[r].status = StatusRead(r)
    BY <2>1, <2>3 DEF RequestRowIsRead
  <2> QED BY <2>2, <2>3, <2>4, ToldIsTrue DEF StatusRead, MirrorInv, TopicInv
<1> QED BY <1>1, MirrorInvHolds, PTL

(***************************************************************************)
(* And every offer it heard of, with details exactly if the offer is       *)
(* complete; they are blank only when the contract had deleted the request *)
(* before they were fetched.                                               *)
(***************************************************************************)
THEOREM OffersMirrored == Spec => []OffersAreMirrored
<1>1. MirrorInv => OffersAreMirrored
  <2> SUFFICES ASSUME MirrorInv, CaughtUp, NEW o \in OfferID, Heard(Added(o))
               PROVE  /\ offerRows[o].request = offers[o].request
                      /\ offerRows[o].extra # "none" <=> offers[o].complete
                      /\ offerRows[o].extra = "blank" => offers[o].request \in deleted
    BY DEF OffersAreMirrored, Added
  <2>1. position = Len(topic) /\ OfferRowIsRead(o)
    BY DEF CaughtUp, MirrorInv, RowsInv
  <2>2. \A event : Read(event) <=> Told(event)
    BY <2>1 DEF Read, Told
  <2>3. HeardOf(Added(o))
    BY <2>2 DEF Heard, HeardOf, Told, Among
  <2>4. offerRows[o] # NoOfferRow /\ (offerRows[o].extra # "none" <=> Read(OfferExtraAdded(o)))
    BY <2>1, <2>3 DEF OfferRowIsRead
  <2>5. offerRows[o].request = offers[o].request
        /\ (offerRows[o].extra # "none" => offers[o].complete)
    BY <2>4, RowsOfInv DEF MirrorInv, OfferRowsInv
  <2>6. offers[o].complete => Told(OfferExtraAdded(o))
    BY DEF MirrorInv, TopicInv
  <2> QED BY <2>1, <2>2, <2>4, <2>5, <2>6 DEF OfferRowIsRead
<1> QED BY <1>1, MirrorInvHolds, PTL
=============================================================================
