-------------------------- MODULE InterledgerAgent --------------------------
(***************************************************************************)
(* The Interledger agent, one direction: it polls a source ledger for      *)
(* InterledgerEventSending events, calls interledgerReceive on a           *)
(* destination ledger for each of them, and answers the source with a      *)
(* commit or an abort.                                                     *)
(*                                                                         *)
(* The agent is one asyncio loop.  Its coroutines give up the loop only    *)
(* where they await something that is not there yet: `run` between its     *)
(* phases and a listener while it sleeps.  Calls to a ledger block the     *)
(* loop, but the ledgers go on meanwhile: hence a listener that fetched    *)
(* and has not read the block number yet, and a transfer that waits for    *)
(* its receipt, are states of their own in which no other coroutine runs.  *)
(***************************************************************************)
EXTENDS Integers, FiniteSets

CONSTANTS
  MaxEvents,      \* bound: events ever emitted
  MaxHeight,      \* bound: blocks of the source ledger
  MaxTransfers,   \* bound: transfers ever received
  MaxListeners,   \* bound: listeners alive at once
  MaxRestarts,    \* bound: starts after the first
  Faults          \* what may go wrong: "listen", "send", "answer", "stop", "kill"

Event    == 1 .. MaxEvents     \* in the order they are emitted
Nonce    == 1 .. MaxTransfers  \* in the order they are drawn
Listener == 1 .. MaxListeners

ASSUME AgentAssumption ==
  /\ MaxEvents \in Nat /\ MaxHeight \in Nat /\ MaxTransfers \in Nat
  /\ MaxListeners \in Nat /\ MaxRestarts \in Nat

VARIABLES
  height, emitted, blockOf,  \* source ledger: blocks, events, the block of each
  slipped,                   \* events mined where no filter to come looks for them
  tx,                        \* destination ledger: the transaction of a transfer
  told,                      \* source ledger: the answer it got for a transfer
  phase, keepRunning,        \* of `run`
  lastBlock,                 \* last_block of the initiator
  listeners, current,        \* the listen_for_events alive; the one `run` awaits alone
  transfers, pending,
  answers,                   \* commit and abort calls that are scheduled
  nextNonce,
  eventOf,                   \* the event of every transfer ever received
  restarts

ledgerVars == <<height, emitted, blockOf>>
runVars    == <<phase, keepRunning, restarts>>
listenVars == <<lastBlock, listeners, current>>
sendVars   == <<transfers, pending>>
nonceVars  == <<nextNonce, eventOf>>
vars == <<ledgerVars, slipped, tx, told, runVars, listenVars, sendVars, answers, nonceVars>>

\* future: what became of send_data(); it is scheduled, waits for a receipt,
\* returned a status, or raised.
NoTransfer == [state |-> "none", future |-> "none"]
NoListener == [status |-> "idle", from |-> 0, first |-> 1, last |-> 0]
Answer     == {"none", "commit", "abort"}
Outcome    == {"accepted", "refused"}  \* refused: rejected by the application, or reverted

Idle(i)     == listeners[i].status = "idle"
Sleeping(i) == listeners[i].status = "sleeping"
Fetched(i)  == listeners[i].status = "fetched"

Unsent(n)   == transfers[n].future = "scheduled"
Awaited(n)  == transfers[n].future = "awaited"

\* No coroutine is in the middle of a call, and no send_data is due.
NoCallUnderWay ==
  /\ phase # "down"
  /\ \A i \in Listener : ~Fetched(i)
  /\ \A n \in Nonce : ~Unsent(n) /\ ~Awaited(n)

\* The loop runs what was scheduled first: the answers, which never give it
\* up, come before `run` goes on and before a listener that wakes up.
LoopIsFree == NoCallUnderWay /\ \A n \in Nonce : answers[n] = "none"

Received(e) == \E n \in Nonce : eventOf[n] = e

Init ==
  /\ height = 0 /\ emitted = 0 /\ blockOf = [e \in Event |-> 0] /\ slipped = {}
  /\ tx = [n \in Nonce |-> "none"]
  /\ told = [n \in Nonce |-> "none"]
  /\ phase = "top" /\ keepRunning = TRUE /\ restarts = 0
  /\ lastBlock = 0 /\ listeners = [i \in Listener |-> NoListener] /\ current = 0
  /\ transfers = [n \in Nonce |-> NoTransfer] /\ pending = 0
  /\ answers = [n \in Nonce |-> "none"]
  /\ nextNonce = 1 /\ eventOf = [n \in Nonce |-> 0]

-----------------------------------------------------------------------------
(***************************************************************************)
(* The ledgers.                                                            *)
(***************************************************************************)
\* A block with the next k events.  They slip by when a listener has fetched
\* and not read the block number yet, which will be that of this block.
MineBlock(k) ==
  /\ height < MaxHeight
  /\ emitted + k <= MaxEvents
  /\ height' = height + 1
  /\ emitted' = emitted + k
  /\ blockOf' = [e \in Event |-> IF e \in emitted + 1 .. emitted + k
                                THEN height' ELSE blockOf[e]]
  /\ slipped' = IF \E i \in Listener : Fetched(i)
                THEN slipped \cup (emitted + 1 .. emitted + k) ELSE slipped
  /\ UNCHANGED <<tx, told, runVars, listenVars, sendVars, answers, nonceVars>>

\* A submitted transaction is mined, also long after the agent gave it up.
MineTransaction(n, outcome) ==
  /\ tx[n] = "submitted"
  /\ tx' = [tx EXCEPT ![n] = outcome]
  /\ UNCHANGED <<ledgerVars, slipped, told, runVars, listenVars, sendVars, answers, nonceVars>>

\* What a filter from a block returns: the events from this one to the last.
FirstEventFrom(block) == 1 + Cardinality({e \in 1 .. emitted : blockOf[e] < block})

-----------------------------------------------------------------------------
(***************************************************************************)
(* Receiving.                                                              *)
(***************************************************************************)
Sleep(from) == [NoListener EXCEPT !.status = "sleeping", !.from = from]
Fetch(from) ==
  [status |-> "fetched", from |-> from, first |-> FirstEventFrom(from), last |-> emitted]

\* Mutant: the filter starts after the newest block.
ListenFromNow(i) ==
  LET from == height + 1 IN
  listeners' = [listeners EXCEPT ![i] =
    IF FirstEventFrom(from) > emitted THEN Sleep(from) ELSE Fetch(from)]

\* A new listener makes its filter, fetches, and sleeps if there is nothing.
Listen(i) ==
  LET from == lastBlock + 1 IN
  listeners' = [listeners EXCEPT ![i] =
    IF FirstEventFrom(from) > emitted THEN Sleep(from) ELSE Fetch(from)]

\* The top of the loop: with nothing pending only the listener is awaited.
StartIteration(i) ==
  /\ LoopIsFree
  /\ phase = "top" /\ keepRunning
  /\ Idle(i)
  /\ Listen(i)
  /\ IF pending = 0 THEN phase' = "receiving" /\ current' = i
                    ELSE phase' = "waiting" /\ UNCHANGED current
  /\ UNCHANGED <<ledgerVars, slipped, tx, told, keepRunning, restarts, lastBlock, sendVars,
                 answers, nonceVars>>

\* Nothing is persisted.
Forget ==
  /\ phase' = "down"
  /\ listeners' = [i \in Listener |-> NoListener]
  /\ current' = 0
  /\ transfers' = [n \in Nonce |-> NoTransfer]
  /\ pending' = 0
  /\ answers' = [n \in Nonce |-> "none"]
  /\ UNCHANGED <<ledgerVars, slipped, tx, told, keepRunning, restarts, lastBlock, nonceVars>>

\* `run` returns, and the process ends with it.
EndRun ==
  /\ LoopIsFree
  /\ phase = "top" /\ ~keepRunning
  /\ Forget

\* Mutant: a listener does not look again after its sleep.
WakeWithoutFetch(i) ==
  /\ LoopIsFree
  /\ Sleeping(i)
  /\ listeners' = [listeners EXCEPT ![i].status = "fetched"]
  /\ UNCHANGED <<ledgerVars, slipped, tx, told, runVars, lastBlock, current, sendVars, answers,
                 nonceVars>>

\* After its sleep a listener fetches from the filter it made before it.
FetchAgain(i) ==
  /\ LoopIsFree
  /\ Sleeping(i)
  /\ listeners' = [listeners EXCEPT ![i] = Fetch(listeners[i].from)]
  /\ UNCHANGED <<ledgerVars, slipped, tx, told, runVars, lastBlock, current, sendVars, answers,
                 nonceVars>>

\* The listener reads the block number, and what it fetched is stored with
\* new nonces.  Any listener may be the one that ends.
ReceiveTransfer(i) ==
  LET first == listeners[i].first
      size  == listeners[i].last - first + 1
      drawn == nextNonce .. nextNonce + size - 1
  IN
  /\ Fetched(i)
  /\ drawn \subseteq Nonce
  /\ lastBlock' = height
  /\ transfers' = [n \in Nonce |-> IF n \in drawn THEN [state |-> "READY", future |-> "none"]
                                  ELSE transfers[n]]
  /\ eventOf' = [n \in Nonce |-> IF n \in drawn THEN first + n - nextNonce ELSE eventOf[n]]
  /\ nextNonce' = nextNonce + size
  /\ listeners' = [listeners EXCEPT ![i] = NoListener]
  /\ IF current = i THEN phase' = "acting" /\ current' = 0 ELSE UNCHANGED <<phase, current>>
  /\ UNCHANGED <<ledgerVars, slipped, tx, told, keepRunning, restarts, pending, answers>>

\* The source ledger does not answer: the exception ends `run`, and the
\* process, when it awaits this listener alone, and is lost otherwise.
ListenFails(i) ==
  /\ "listen" \in Faults
  /\ Fetched(i) \/ (Sleeping(i) /\ LoopIsFree)
  /\ \/ current = i /\ Forget
     \/ /\ current # i
        /\ listeners' = [listeners EXCEPT ![i] = NoListener]
        /\ UNCHANGED <<ledgerVars, slipped, tx, told, runVars, lastBlock, current, sendVars,
                       answers, nonceVars>>

-----------------------------------------------------------------------------
(***************************************************************************)
(* Sending and answering.                                                  *)
(***************************************************************************)
Sent(n)      == transfers[n].state = "SENT"
Responded(n) == transfers[n].state = "RESPONDED"
Raised(n)    == transfers[n].future = "raised"

\* The results are collected in order, up to the first future that raised.
TransferResult ==
  /\ LoopIsFree
  /\ phase = "waiting"
  /\ transfers' = [n \in Nonce |->
       IF Sent(n) /\ \A m \in 1 .. n : Sent(m) => ~Raised(m)
       THEN [transfers[n] EXCEPT !.state = "RESPONDED"] ELSE transfers[n]]
  /\ phase' = "acting"
  /\ UNCHANGED <<ledgerVars, slipped, tx, told, keepRunning, restarts, listenVars, pending,
                 answers, nonceVars>>

ReadyNonces     == {n \in Nonce : transfers[n].state = "READY"}
RespondedNonces == {n \in Nonce : Responded(n)}

SendTransfer(n) == [state |-> "SENT", future |-> "scheduled"]

\* Mutant: whatever the responder answered, the transfer is committed.
CommitAnyway(n) == "commit"

ProcessResult(n) == IF transfers[n].future = "success" THEN "commit" ELSE "abort"

\* Mutant: an abort does not lower the counter.
PendingOfCommits ==
  pending + Cardinality(ReadyNonces)
    - Cardinality({n \in RespondedNonces : ProcessResult(n) = "commit"})

PendingAfterActions ==
  pending + Cardinality(ReadyNonces) - Cardinality(RespondedNonces)

\* send_transfer, process_result and cleanup run in one turn of the loop;
\* answers are scheduled and finished transfers forgotten.
SendAndProcess ==
  /\ LoopIsFree
  /\ phase = "acting"
  /\ transfers' = [n \in Nonce |-> IF n \in ReadyNonces THEN SendTransfer(n)
                                  ELSE IF Responded(n) THEN NoTransfer
                                  ELSE transfers[n]]
  /\ answers' = [n \in Nonce |-> IF Responded(n) THEN ProcessResult(n) ELSE answers[n]]
  /\ pending' = PendingAfterActions
  /\ phase' = "top"
  /\ UNCHANGED <<ledgerVars, slipped, tx, told, keepRunning, restarts, listenVars, nonceVars>>

\* send_data of the oldest transfer that is due: the transaction is submitted,
\* refused (a ValueError the agent catches), or the call raises.
Due(n) ==
  /\ phase # "down"
  /\ Unsent(n)
  /\ \A m \in Nonce : (~Awaited(m)) /\ (Unsent(m) => n <= m)
  /\ \A i \in Listener : ~Fetched(i)

SetFuture(n, future) == transfers' = [transfers EXCEPT ![n].future = future]

SubmitData(n) ==
  /\ Due(n)
  /\ tx' = [tx EXCEPT ![n] = "submitted"]
  /\ SetFuture(n, "awaited")
  /\ UNCHANGED <<ledgerVars, slipped, told, runVars, listenVars, pending, answers, nonceVars>>

DataRefused(n) ==
  /\ Due(n)
  /\ SetFuture(n, "failure")
  /\ UNCHANGED <<ledgerVars, slipped, tx, told, runVars, listenVars, pending, answers, nonceVars>>

SendFails(n) ==
  /\ "send" \in Faults
  /\ Due(n) \/ Awaited(n)
  /\ SetFuture(n, "raised")
  /\ UNCHANGED <<ledgerVars, slipped, tx, told, runVars, listenVars, pending, answers, nonceVars>>

\* Mutant: the outcome is stored as it is.
OutcomeOfReceipt(outcome) == outcome

\* Only a receipt with InterledgerEventAccepted for the nonce is a success.
StatusOfReceipt(outcome) == IF outcome = "accepted" THEN "success" ELSE "failure"

ReceiptArrives(n) ==
  /\ Awaited(n)
  /\ tx[n] \in Outcome
  /\ SetFuture(n, StatusOfReceipt(tx[n]))
  /\ UNCHANGED <<ledgerVars, slipped, tx, told, runVars, listenVars, pending, answers, nonceVars>>

\* No receipt in 120 seconds: the transfer failed, whatever the ledger does later.
ReceiptTimesOut(n) ==
  /\ Awaited(n)
  /\ tx[n] = "submitted"
  /\ SetFuture(n, "failure")
  /\ UNCHANGED <<ledgerVars, slipped, tx, told, runVars, listenVars, pending, answers, nonceVars>>

\* The oldest scheduled answer reaches the source ledger, or its failure is
\* ignored.
AnswerSource(n) ==
  /\ NoCallUnderWay
  /\ answers[n] # "none" /\ \A m \in 1 .. n - 1 : answers[m] = "none"
  /\ \/ told' = [told EXCEPT ![n] = answers[n]]
     \/ "answer" \in Faults /\ UNCHANGED told
  /\ answers' = [answers EXCEPT ![n] = "none"]
  /\ UNCHANGED <<ledgerVars, slipped, tx, runVars, listenVars, sendVars, nonceVars>>

-----------------------------------------------------------------------------
(***************************************************************************)
(* The process.                                                            *)
(***************************************************************************)
\* A keyboard interrupt: the iteration under way is the last.
Stop ==
  /\ "stop" \in Faults
  /\ LoopIsFree /\ keepRunning
  /\ keepRunning' = FALSE
  /\ UNCHANGED <<ledgerVars, slipped, tx, told, phase, restarts, listenVars, sendVars, answers,
                 nonceVars>>

Kill ==
  /\ "kill" \in Faults
  /\ phase # "down"
  /\ Forget

\* A new process listens from now on: what was not received by then slips by.
Restart ==
  /\ phase = "down"
  /\ restarts < MaxRestarts
  /\ restarts' = restarts + 1
  /\ phase' = "top" /\ keepRunning' = TRUE
  /\ lastBlock' = height
  /\ slipped' = slipped \cup {e \in 1 .. emitted : ~Received(e)}
  /\ UNCHANGED <<ledgerVars, tx, told, listeners, current, sendVars, answers, nonceVars>>

-----------------------------------------------------------------------------
Ledgers ==
  \/ \E k \in 0 .. MaxEvents : MineBlock(k)
  \/ \E n \in Nonce, outcome \in Outcome :
       MineTransaction(n, outcome)

Receiving ==
  \/ EndRun
  \/ \E i \in Listener :
       StartIteration(i) \/ FetchAgain(i) \/ ReceiveTransfer(i) \/ ListenFails(i)

Sending ==
  \/ TransferResult \/ SendAndProcess
  \/ \E n \in Nonce :
       \/ SubmitData(n) \/ DataRefused(n) \/ SendFails(n)
       \/ ReceiptArrives(n) \/ ReceiptTimesOut(n)
       \/ AnswerSource(n)

Process == Stop \/ Kill \/ Restart

Next == Ledgers \/ Receiving \/ Sending \/ Process

Spec == Init /\ [][Next]_vars

\* A call to a ledger returns, with a result or without (a wait for a receipt
\* times out), and one that is repeated does not fail for ever; a sleep ends,
\* and the loop serves what is ready in the order it became ready.  The ledgers
\* need not mine.
CallReturns ==
  \/ \E i \in Listener : ReceiveTransfer(i)
  \/ \E n \in Nonce : \/ SubmitData(n) \/ DataRefused(n)
                     \/ ReceiptArrives(n) \/ ReceiptTimesOut(n)
                     \/ AnswerSource(n)

RunGoesOn ==
  \/ \E i \in Listener : StartIteration(i)
  \/ TransferResult \/ SendAndProcess \/ EndRun

Fairness ==
  /\ SF_vars(CallReturns)
  /\ SF_vars(RunGoesOn)
  /\ SF_vars(\E i \in Listener : FetchAgain(i))

FairSpec == Spec /\ Fairness

-----------------------------------------------------------------------------
\* Every variable has its type.
LedgersTypeOK ==
  /\ height \in Nat /\ emitted \in 0 .. MaxEvents /\ blockOf \in [Event -> Nat]
  /\ slipped \subseteq Event
  /\ tx \in [Nonce -> {"none", "submitted"} \cup Outcome]
  /\ told \in [Nonce -> Answer]

ListenersTypeOK ==
  /\ lastBlock \in Nat /\ current \in 0 .. MaxListeners
  /\ listeners \in [Listener -> [status : {"idle", "sleeping", "fetched"}, from : Nat,
                                 first : 1 .. MaxEvents + 1, last : 0 .. MaxEvents]]

TransfersTypeOK ==
  /\ transfers \in [Nonce -> [state : {"none", "READY", "SENT", "RESPONDED"},
                              future : {"none", "scheduled", "awaited", "success",
                                        "failure", "raised"}]]
  /\ answers \in [Nonce -> Answer]
  /\ nextNonce \in 1 .. MaxTransfers + 1
  /\ eventOf \in [Nonce -> 0 .. MaxEvents]

TypeOK ==
  /\ LedgersTypeOK
  /\ phase \in {"top", "receiving", "waiting", "acting", "down"}
  /\ keepRunning \in BOOLEAN /\ restarts \in 0 .. MaxRestarts
  /\ ListenersTypeOK
  /\ TransfersTypeOK
  /\ pending \in 0 .. MaxTransfers

(***************************************************************************)
(* `pending` counts the transfers that were sent and not answered, so the  *)
(* agent neither waits for results when there are none (asyncio.wait       *)
(* raises on an empty set) nor waits for events alone when a result is     *)
(* due: over late listeners, restarts and every outcome of send_data.      *)
(***************************************************************************)
SentNonces == {n \in Nonce : Sent(n) \/ Responded(n)}

PendingCountsSent == pending = Cardinality(SentNonces)

(***************************************************************************)
(* The source ledger is told that a transfer is committed only when the    *)
(* destination ledger executed and accepted it.                            *)
(***************************************************************************)
CommitMeansAccepted == \A n \in Nonce : told[n] = "commit" => tx[n] = "accepted"

(***************************************************************************)
(* last_block divides the events: no transfer is made of an event after    *)
(* it, so the next filter never returns what was received already, and of  *)
(* the events up to it only those are missed that were mined between the   *)
(* fetch of a listener and its reading of the block number, or while no    *)
(* agent ran.  The listeners of several iterations end in any order.       *)
(***************************************************************************)
LastBlockDividesEvents ==
  \A e \in 1 .. emitted :
    /\ Received(e) => blockOf[e] <= lastBlock
    /\ blockOf[e] <= lastBlock => Received(e) \/ e \in slipped

(***************************************************************************)
(* Every other event becomes a transfer, and the agent is done with it in  *)
(* the end: its result came, or was given up, and an answer was made, also *)
(* when it is mined while the agent waits for results and several          *)
(* listeners are alive.  Only the end of the process, or a send_data at or *)
(* before it in the list that raised, keeps it from that.                  *)
(***************************************************************************)
Running == phase # "down" /\ keepRunning

DoneWith(n) == transfers[n] = NoTransfer /\ answers[n] = "none"

EventsAreAnswered ==
  \A e \in Event :
    (e <= emitted)
      ~> \/ e \in slipped \/ ~Running
         \/ /\ Received(e)
            /\ \A n \in Nonce :
                 eventOf[n] = e => DoneWith(n) \/ \E m \in 1 .. n : Raised(m)
=============================================================================
