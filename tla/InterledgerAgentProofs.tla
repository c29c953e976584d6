----------------------- MODULE InterledgerAgentProofs -----------------------
(***************************************************************************)
(* Theorems about the Interledger agent, for any number of events, blocks, *)
(* transfers and listeners, and whatever fails.                            *)
(***************************************************************************)
EXTENDS InterledgerAgent, FiniteSetTheorems, TLAPS

\* What a filter returns is an interval of events, possibly empty.
ListenersInv == \A i \in Listener : listeners[i].first <= listeners[i].last + 1

\* A nonce not drawn yet is known to nobody; a transfer the agent has not
\* submitted, or not finished, is unknown to the ledger it goes to; and
\* only accepted transfers are successes.
TransferInv(n) ==
  /\ n >= nextNonce => transfers[n] = NoTransfer /\ tx[n] = "none"
  /\ transfers[n].state = "none" => transfers[n] = NoTransfer
  /\ transfers[n].state = "READY" => transfers[n].future = "none"
  /\ transfers[n].state = "READY" \/ Unsent(n) => tx[n] = "none"
  /\ n >= nextNonce \/ transfers[n].state # "none" => told[n] = "none" /\ answers[n] = "none"
  /\ transfers[n].future = "success" => tx[n] = "accepted"
  /\ answers[n] = "commit" \/ told[n] = "commit" => tx[n] = "accepted"

TransfersInv == \A n \in Nonce : TransferInv(n)

RunTypeOK ==
  /\ phase \in {"top", "receiving", "waiting", "acting", "down"}
  /\ keepRunning \in BOOLEAN /\ restarts \in 0 .. MaxRestarts

\* The agent is well-typed.
AgentTypes == LedgersTypeOK /\ RunTypeOK /\ ListenersTypeOK /\ ListenersInv /\ TransfersTypeOK

-----------------------------------------------------------------------------
LEMMA FirstEventType ==
  ASSUME LedgersTypeOK, NEW block \in Nat
  PROVE  FirstEventFrom(block) \in 1 .. emitted + 1
<1> DEFINE older == {e \in 1 .. emitted : blockOf[e] < block}
<1>1. emitted \in Nat
  BY AgentAssumption DEF LedgersTypeOK
<1>2. IsFiniteSet(1 .. emitted) /\ Cardinality(1 .. emitted) = emitted
  BY <1>1, FS_Interval
<1>3. Cardinality(older) <= emitted /\ Cardinality(older) \in Nat
  BY <1>2, FS_Subset, FS_CardinalityType
<1> QED BY <1>1, <1>3 DEF FirstEventFrom

LEMMA FetchType ==
  ASSUME LedgersTypeOK, NEW block \in Nat,
         NEW listener \in {Fetch(block), Sleep(block)}
  PROVE  /\ listener \in [status : {"idle", "sleeping", "fetched"}, from : Nat,
                          first : 1 .. MaxEvents + 1, last : 0 .. MaxEvents]
         /\ listener.first <= listener.last + 1
<1>1. FirstEventFrom(block) \in 1 .. emitted + 1 /\ emitted \in 0 .. MaxEvents
  BY FirstEventType DEF LedgersTypeOK
<1>2. CASE listener = Fetch(block)
  BY <1>1, <1>2, AgentAssumption DEF Fetch
<1>3. CASE listener = Sleep(block)
  <2>1. listener = [status |-> "sleeping", from |-> block, first |-> 1, last |-> 0]
    BY <1>3 DEF Sleep, NoListener
  <2> QED BY <2>1, AgentAssumption
<1> QED BY <1>2, <1>3

LEMMA ForgetTypes ==
  ASSUME AgentTypes, Forget
  PROVE  AgentTypes'
BY AgentAssumption DEF AgentTypes, Forget, ledgerVars, nonceVars, LedgersTypeOK, RunTypeOK,
   ListenersTypeOK, ListenersInv, TransfersTypeOK, NoListener, NoTransfer, Answer

-----------------------------------------------------------------------------
LEMMA ReceivingTypes ==
  ASSUME AgentTypes, Receiving
  PROVE  AgentTypes'
<1> USE AgentAssumption DEF AgentTypes
<1>1. CASE EndRun
  BY <1>1, ForgetTypes DEF EndRun
<1>2. ASSUME NEW i \in Listener, StartIteration(i)
      PROVE  AgentTypes'
  <2>1. lastBlock + 1 \in Nat
    BY DEF ListenersTypeOK
  <2>2. PICK listener \in {Fetch(lastBlock + 1), Sleep(lastBlock + 1)} :
          listeners' = [listeners EXCEPT ![i] = listener]
    BY <1>2 DEF StartIteration, Listen
  <2>3. /\ listener \in [status : {"idle", "sleeping", "fetched"}, from : Nat,
                         first : 1 .. MaxEvents + 1, last : 0 .. MaxEvents]
        /\ listener.first <= listener.last + 1
    BY <2>1, FetchType
  <2>4. ListenersInv'
    BY <2>2, <2>3 DEF ListenersTypeOK, ListenersInv
  <2>5. current' \in 0 .. MaxListeners /\ lastBlock' = lastBlock
    BY <1>2 DEF StartIteration, Listener, ListenersTypeOK
  <2>6. ListenersTypeOK'
    BY <2>2, <2>3, <2>5 DEF ListenersTypeOK
  <2> QED BY <1>2, <2>4, <2>6 DEF StartIteration, ledgerVars, sendVars, nonceVars, LedgersTypeOK,
                            RunTypeOK, TransfersTypeOK
<1>3. ASSUME NEW i \in Listener, FetchAgain(i)
      PROVE  AgentTypes'
  <2>1. listeners[i].from \in Nat
    BY DEF ListenersTypeOK
  <2>2. ListenersTypeOK' /\ ListenersInv'
    BY <1>3, <2>1, FetchType DEF FetchAgain, ListenersTypeOK, ListenersInv
  <2> QED BY <1>3, <2>2 DEF FetchAgain, ledgerVars, runVars, sendVars, nonceVars, LedgersTypeOK,
                            RunTypeOK, TransfersTypeOK
<1>4. ASSUME NEW i \in Listener, ReceiveTransfer(i)
      PROVE  AgentTypes'
  <2> DEFINE first == listeners[i].first
             size  == listeners[i].last - first + 1
             drawn == nextNonce .. nextNonce + size - 1
  <2>1. first \in Nat /\ size \in Nat /\ first >= 1 /\ first + size - 1 <= MaxEvents
    BY DEF ListenersTypeOK, ListenersInv
  <2>2. nextNonce \in Nat /\ nextNonce >= 1 /\ nextNonce <= MaxTransfers + 1
    BY DEF TransfersTypeOK
  <2>3. drawn \subseteq Nonce /\ nextNonce' = nextNonce + size
    BY <1>4 DEF ReceiveTransfer
  <2>4. nextNonce' \in 1 .. MaxTransfers + 1
    <3>1. CASE size = 0
      BY <3>1, <2>2, <2>3
    <3>2. CASE size > 0
      <4>1. nextNonce + size - 1 \in drawn
        BY <3>2, <2>1, <2>2
      <4> QED BY <4>1, <2>1, <2>2, <2>3 DEF Nonce
    <3> QED BY <3>1, <3>2, <2>1
  <2>5. eventOf' \in [Nonce -> 0 .. MaxEvents]
    <3>1. \A n \in drawn : first + n - nextNonce \in 0 .. MaxEvents
      BY <2>1, <2>2
    <3> QED BY <1>4, <3>1 DEF ReceiveTransfer, TransfersTypeOK
  <2>6. TransfersTypeOK'
    BY <1>4, <2>4, <2>5 DEF ReceiveTransfer, TransfersTypeOK
  <2>7. ListenersTypeOK' /\ ListenersInv'
    BY <1>4 DEF ReceiveTransfer, ledgerVars, LedgersTypeOK, ListenersTypeOK, ListenersInv,
                NoListener
  <2> QED BY <1>4, <2>6, <2>7 DEF ReceiveTransfer, ledgerVars, LedgersTypeOK, RunTypeOK
<1>5. ASSUME NEW i \in Listener, ListenFails(i)
      PROVE  AgentTypes'
  <2>1. CASE Forget
    BY <2>1, ForgetTypes
  <2>2. CASE ~Forget
    <3>1. /\ listeners' = [listeners EXCEPT ![i] = NoListener]
          /\ UNCHANGED <<ledgerVars, slipped, tx, told, runVars, lastBlock, current, sendVars,
                         answers, nonceVars>>
      BY <1>5, <2>2 DEF ListenFails
    <3>2. ListenersTypeOK' /\ ListenersInv'
      BY <3>1 DEF ListenersTypeOK, ListenersInv, NoListener
    <3>3. LedgersTypeOK' /\ RunTypeOK' /\ TransfersTypeOK'
      BY <3>1 DEF ledgerVars, runVars, sendVars, nonceVars, LedgersTypeOK, RunTypeOK,
         TransfersTypeOK
    <3> QED BY <3>2, <3>3
  <2> QED BY <2>1, <2>2
<1> QED BY <1>1, <1>2, <1>3, <1>4, <1>5 DEF Receiving

LEMMA SetFutureType ==
  ASSUME TransfersTypeOK, NEW n \in Nonce,
         NEW future \in {"awaited", "success", "failure", "raised"}, SetFuture(n, future)
  PROVE  /\ transfers' \in [Nonce -> [state : {"none", "READY", "SENT", "RESPONDED"},
                                     future : {"none", "scheduled", "awaited", "success",
                                               "failure", "raised"}]]
         /\ transfers'[n] = [transfers[n] EXCEPT !.future = future]
         /\ \A m \in Nonce \ {n} : transfers'[m] = transfers[m]
         /\ \A m \in Nonce : transfers'[m].state = transfers[m].state
         /\ transfers'[n].future = future
BY DEF SetFuture, TransfersTypeOK

\* The steps that only change the future of one transfer.
FutureStep(n) ==
  \/ SubmitData(n) \/ DataRefused(n) \/ SendFails(n)
  \/ ReceiptArrives(n) \/ ReceiptTimesOut(n)

LEMMA FutureSteps ==
  ASSUME NEW n \in Nonce, FutureStep(n)
  PROVE  /\ \E future \in {"awaited", "success", "failure", "raised"} :
              /\ SetFuture(n, future)
              /\ future = "success" => tx[n] = "accepted" /\ tx' = tx
         /\ Due(n) \/ Awaited(n)
         /\ tx' = tx \/ (Unsent(n) /\ tx' = [tx EXCEPT ![n] = "submitted"])
         /\ UNCHANGED <<ledgerVars, slipped, told, runVars, listenVars, pending, answers,
                         nonceVars>>
BY DEF FutureStep, SubmitData, DataRefused, SendFails, ReceiptArrives, ReceiptTimesOut,
       StatusOfReceipt, Due

LEMMA SendingTypes ==
  ASSUME AgentTypes, Sending
  PROVE  AgentTypes'
<1> USE AgentAssumption DEF AgentTypes
<1>1. CASE TransferResult
  BY <1>1 DEF TransferResult, ledgerVars, listenVars, nonceVars, LedgersTypeOK, RunTypeOK,
     ListenersTypeOK, ListenersInv, TransfersTypeOK
<1>2. CASE SendAndProcess
  <2>1. TransfersTypeOK'
    BY <1>2 DEF SendAndProcess, nonceVars, TransfersTypeOK, SendTransfer, ProcessResult,
       NoTransfer, Answer
  <2> QED BY <1>2, <2>1 DEF SendAndProcess, ledgerVars, listenVars, LedgersTypeOK, RunTypeOK,
                            ListenersTypeOK, ListenersInv
<1>3. ASSUME NEW n \in Nonce, FutureStep(n)
      PROVE  AgentTypes'
  <2>1. TransfersTypeOK'
    BY <1>3, FutureSteps, SetFutureType DEF nonceVars, TransfersTypeOK
  <2> QED BY <1>3, <2>1, FutureSteps DEF ledgerVars, runVars, listenVars, LedgersTypeOK,
                         RunTypeOK, ListenersTypeOK, ListenersInv
<1>4. ASSUME NEW n \in Nonce, AnswerSource(n)
      PROVE  AgentTypes'
  BY <1>4 DEF AnswerSource, ledgerVars, runVars, listenVars, sendVars, nonceVars, LedgersTypeOK,
     RunTypeOK, ListenersTypeOK, ListenersInv, TransfersTypeOK, Answer
<1> QED BY <1>1, <1>2, <1>3, <1>4 DEF Sending, FutureStep

LEMMA LedgersTypes ==
  ASSUME AgentTypes, Ledgers
  PROVE  AgentTypes'
<1> USE AgentAssumption DEF AgentTypes
<1>1. ASSUME NEW k \in 0 .. MaxEvents, MineBlock(k)
      PROVE  AgentTypes'
  BY <1>1 DEF MineBlock, runVars, listenVars, sendVars, nonceVars, LedgersTypeOK,
     RunTypeOK, ListenersTypeOK, ListenersInv, TransfersTypeOK, Event
<1>2. ASSUME NEW n \in Nonce, NEW outcome \in Outcome, MineTransaction(n, outcome)
      PROVE  AgentTypes'
  BY <1>2 DEF MineTransaction, ledgerVars, runVars, listenVars, sendVars, nonceVars,
     LedgersTypeOK, RunTypeOK, ListenersTypeOK, ListenersInv, TransfersTypeOK
<1> QED BY <1>1, <1>2 DEF Ledgers

LEMMA ProcessTypes ==
  ASSUME AgentTypes, Process
  PROVE  AgentTypes'
<1>1. CASE Stop
  BY <1>1 DEF AgentTypes, Stop, ledgerVars, listenVars, sendVars, nonceVars, LedgersTypeOK,
     RunTypeOK, ListenersTypeOK, ListenersInv, TransfersTypeOK
<1>2. CASE Kill
  BY <1>2, ForgetTypes DEF Kill
<1>3. CASE Restart
  <2>1. 1 .. emitted \subseteq Event
    BY AgentAssumption DEF AgentTypes, LedgersTypeOK, Event
  <2>2. LedgersTypeOK'
    BY <1>3, <2>1 DEF AgentTypes, Restart, ledgerVars, LedgersTypeOK
  <2>3. RunTypeOK'
    BY <1>3, AgentAssumption DEF AgentTypes, Restart, RunTypeOK
  <2>4. ListenersTypeOK' /\ ListenersInv' /\ TransfersTypeOK'
    BY <1>3 DEF AgentTypes, Restart, sendVars, nonceVars, LedgersTypeOK, ListenersTypeOK,
       ListenersInv, TransfersTypeOK
  <2> QED BY <2>2, <2>3, <2>4 DEF AgentTypes
<1> QED BY <1>1, <1>2, <1>3 DEF Process

LEMMA NextTypes ==
  ASSUME AgentTypes, [Next]_vars
  PROVE  AgentTypes'
<1>1. CASE UNCHANGED vars
  BY <1>1 DEF vars, ledgerVars, runVars, listenVars, sendVars, nonceVars, AgentTypes,
     LedgersTypeOK, RunTypeOK, ListenersTypeOK, ListenersInv, TransfersTypeOK
<1> QED BY <1>1, ReceivingTypes, SendingTypes, LedgersTypes, ProcessTypes DEF Next

-----------------------------------------------------------------------------
(***************************************************************************)
(* Every transfer stays consistent with what the two ledgers know of it.   *)
(***************************************************************************)
LEMMA NextTransfers ==
  ASSUME AgentTypes, TransfersInv, [Next]_vars
  PROVE  TransfersInv'
<1> USE DEF AgentTypes, TransfersInv
<1>1. CASE UNCHANGED <<tx, told, sendVars, answers, nonceVars>>
  BY <1>1 DEF sendVars, nonceVars, TransferInv, Unsent
<1>2. ASSUME NEW m \in Nonce, NEW outcome \in Outcome, MineTransaction(m, outcome)
      PROVE  TransfersInv'
  BY <1>2 DEF MineTransaction, sendVars, nonceVars, TransferInv, Unsent, LedgersTypeOK, Outcome
<1>3. ASSUME NEW i \in Listener, ReceiveTransfer(i)
      PROVE  TransfersInv'
  <2> DEFINE drawn == nextNonce .. nextNonce + (listeners[i].last - listeners[i].first + 1) - 1
  <2>1. /\ nextNonce \in Nat /\ nextNonce' \in Nat
        /\ \A n \in Nonce : n >= nextNonce' => n >= nextNonce /\ n \notin drawn
        /\ \A n \in drawn : n >= nextNonce
    BY <1>3 DEF ReceiveTransfer, TransfersTypeOK, ListenersTypeOK, ListenersInv, Nonce
  <2>2. /\ \A n \in Nonce \ drawn : transfers'[n] = transfers[n]
        /\ \A n \in drawn : transfers'[n] = [state |-> "READY", future |-> "none"]
        /\ UNCHANGED <<tx, told, answers>>
    BY <1>3 DEF ReceiveTransfer
  <2>3. ASSUME NEW n \in Nonce PROVE TransferInv(n)'
    <3>1. CASE n \in drawn
      BY <3>1, <2>1, <2>2 DEF TransferInv, Unsent, Nonce
    <3>2. CASE n \notin drawn
      <4>1. n >= nextNonce' => n >= nextNonce
        BY <2>1
      <4> QED BY <4>1, <3>2, <2>2 DEF TransferInv, Unsent
    <3> QED BY <3>1, <3>2
  <2> QED BY <2>3
<1>4. CASE TransferResult
  <2>1. ASSUME NEW n \in Nonce PROVE TransferInv(n)'
    <3>1. \/ transfers'[n] = transfers[n]
          \/ Sent(n) /\ transfers'[n] = [transfers[n] EXCEPT !.state = "RESPONDED"]
      BY <1>4 DEF TransferResult
    <3>2. UNCHANGED <<tx, told, answers, nextNonce>>
      BY <1>4 DEF TransferResult, nonceVars
    <3>3. transfers[n] \in [state : {"none", "READY", "SENT", "RESPONDED"},
                           future : {"none", "scheduled", "awaited", "success",
                                     "failure", "raised"}]
      BY DEF TransfersTypeOK
    <3> QED BY <3>1, <3>2, <3>3 DEF TransferInv, Unsent, Sent, NoTransfer
  <2> QED BY <2>1
<1>5. CASE SendAndProcess
  <2>1. ASSUME NEW n \in Nonce PROVE TransferInv(n)'
    BY <1>5 DEF SendAndProcess, nonceVars, TransferInv, Unsent, Responded, ReadyNonces,
                SendTransfer, ProcessResult, NoTransfer, TransfersTypeOK
  <2> QED BY <2>1
<1>6. ASSUME NEW m \in Nonce, FutureStep(m)
      PROVE  TransfersInv'
  <2>1. PICK future \in {"awaited", "success", "failure", "raised"} :
          /\ SetFuture(m, future)
          /\ future = "success" => tx[m] = "accepted" /\ tx' = tx
    BY <1>6, FutureSteps
  <2>2. /\ Unsent(m) \/ Awaited(m)
        /\ tx' = tx \/ (Unsent(m) /\ tx' = [tx EXCEPT ![m] = "submitted"])
        /\ UNCHANGED <<told, answers, nextNonce>>
    BY <1>6, FutureSteps DEF Due, nonceVars
  <2>3. TransferInv(m)'
    <3>1. transfers[m] # NoTransfer /\ transfers[m].state # "none" /\ ~(m >= nextNonce)
      BY <2>2 DEF Unsent, Awaited, NoTransfer, TransferInv
    <3>2. /\ transfers'[m].state = transfers[m].state
          /\ transfers'[m].future = future
      BY <2>1, SetFutureType
    <3>3. tx'[m] = tx[m] \/ (Unsent(m) /\ tx'[m] = "submitted")
      BY <2>2 DEF LedgersTypeOK
    <3>4. transfers[m].state # "READY"
      BY <2>2 DEF TransferInv, Unsent, Awaited
    <3> QED BY <2>1, <2>2, <3>1, <3>2, <3>3, <3>4 DEF TransferInv, Unsent
  <2>4. ASSUME NEW n \in Nonce \ {m} PROVE TransferInv(n)'
    <3>1. transfers'[n] = transfers[n] /\ tx'[n] = tx[n]
      BY <2>1, <2>2, SetFutureType DEF LedgersTypeOK
    <3> QED BY <2>2, <3>1 DEF TransferInv, Unsent
  <2> QED BY <2>3, <2>4
<1>7. ASSUME NEW m \in Nonce, AnswerSource(m)
      PROVE  TransfersInv'
  BY <1>7 DEF AnswerSource, sendVars, nonceVars, TransferInv, Unsent, LedgersTypeOK,
              TransfersTypeOK
<1>8. CASE Forget
  BY <1>8 DEF Forget, nonceVars, TransferInv, Unsent, NoTransfer
<1>9. Ledgers => \/ UNCHANGED <<tx, told, sendVars, answers, nonceVars>>
                 \/ \E m \in Nonce, outcome \in Outcome : MineTransaction(m, outcome)
  BY DEF Ledgers, MineBlock
<1>10. Receiving => \/ UNCHANGED <<tx, told, sendVars, answers, nonceVars>> \/ Forget
                    \/ \E i \in Listener : ReceiveTransfer(i)
  BY DEF Receiving, EndRun, StartIteration, FetchAgain, ListenFails
<1>11. Process => UNCHANGED <<tx, told, sendVars, answers, nonceVars>> \/ Forget
  BY DEF Process, Stop, Kill, Restart
<1>12. UNCHANGED vars => UNCHANGED <<tx, told, sendVars, answers, nonceVars>>
  BY DEF vars
<1>13. Sending => \/ TransferResult \/ SendAndProcess
                  \/ \E m \in Nonce : FutureStep(m) \/ AnswerSource(m)
  BY DEF Sending, FutureStep
<1> QED BY <1>1, <1>2, <1>3, <1>4, <1>5, <1>6, <1>7, <1>8, <1>9, <1>10, <1>11, <1>12, <1>13
        DEF Next
-----------------------------------------------------------------------------
(***************************************************************************)
(* The counter of pending transfers.                                       *)
(***************************************************************************)
LEMMA NoncesAreFinite ==
  ASSUME NEW S \in SUBSET Nonce
  PROVE  IsFiniteSet(S) /\ Cardinality(S) \in 0 .. MaxTransfers
<1>1. IsFiniteSet(Nonce) /\ Cardinality(Nonce) = MaxTransfers
  BY AgentAssumption, FS_Interval DEF Nonce
<1> QED BY <1>1, FS_Subset, FS_CardinalityType, AgentAssumption

\* The sent transfers after an iteration: the responded ones are gone, the
\* ready ones are new.
LEMMA SendAndProcessPending ==
  ASSUME TransfersTypeOK, PendingCountsSent, SendAndProcess
  PROVE  PendingCountsSent'
<1>1. SentNonces' = (SentNonces \ RespondedNonces) \cup ReadyNonces
  BY DEF SendAndProcess, SentNonces, RespondedNonces, ReadyNonces, Sent, Responded,
         SendTransfer, NoTransfer
<1>2. /\ SentNonces \subseteq Nonce /\ RespondedNonces \subseteq SentNonces
      /\ ReadyNonces \subseteq Nonce
      /\ (SentNonces \ RespondedNonces) \cap ReadyNonces = {}
      /\ SentNonces \cap RespondedNonces = RespondedNonces
  BY DEF SentNonces, RespondedNonces, ReadyNonces, Sent, Responded
<1>3. /\ IsFiniteSet(SentNonces) /\ Cardinality(SentNonces) \in Int
      /\ IsFiniteSet(SentNonces \ RespondedNonces)
      /\ IsFiniteSet(ReadyNonces) /\ Cardinality(ReadyNonces) \in Int
      /\ Cardinality(RespondedNonces) \in Int
  <2>1. RespondedNonces \subseteq Nonce /\ SentNonces \ RespondedNonces \subseteq Nonce
    BY <1>2
  <2> QED BY <1>2, <2>1, NoncesAreFinite
<1>4. Cardinality(SentNonces \ RespondedNonces)
        = Cardinality(SentNonces) - Cardinality(RespondedNonces)
  BY <1>2, <1>3, FS_Difference
<1>5. Cardinality(SentNonces')
        = Cardinality(SentNonces \ RespondedNonces) + Cardinality(ReadyNonces)
  <2> DEFINE left == SentNonces \ RespondedNonces
  <2>1. Cardinality(left \cup ReadyNonces)
          = Cardinality(left) + Cardinality(ReadyNonces) - Cardinality(left \cap ReadyNonces)
    BY <1>3, FS_Union
  <2>2. Cardinality(left \cap ReadyNonces) = 0
    BY <1>2, FS_EmptySet
  <2>3. Cardinality(left) \in Int
    BY <1>3, <1>4
  <2>4. Cardinality(SentNonces') = Cardinality(left \cup ReadyNonces)
    BY <1>1
  <2> QED BY <1>3, <2>1, <2>2, <2>3, <2>4
<1>6. pending' = pending + Cardinality(ReadyNonces) - Cardinality(RespondedNonces)
  BY DEF SendAndProcess, PendingAfterActions
<1> QED BY <1>3, <1>4, <1>5, <1>6 DEF PendingCountsSent

LEMMA NextPending ==
  ASSUME AgentTypes, TransfersInv, PendingCountsSent, [Next]_vars
  PROVE  PendingCountsSent'
<1> USE DEF AgentTypes
<1>1. ASSUME UNCHANGED pending, \A n \in Nonce : (Sent(n) \/ Responded(n))' <=> Sent(n) \/ Responded(n)
      PROVE  PendingCountsSent'
  BY <1>1 DEF PendingCountsSent, SentNonces
<1>2. CASE UNCHANGED sendVars
  BY <1>1, <1>2 DEF sendVars, Sent, Responded
<1>3. ASSUME NEW i \in Listener, ReceiveTransfer(i)
      PROVE  PendingCountsSent'
  <2> DEFINE drawn == nextNonce .. nextNonce + (listeners[i].last - listeners[i].first + 1) - 1
  <2>1. \A n \in drawn : n >= nextNonce
    BY DEF TransfersTypeOK
  <2>2. ASSUME NEW n \in Nonce PROVE (Sent(n) \/ Responded(n))' <=> Sent(n) \/ Responded(n)
    <3>1. CASE n \in drawn
      <4>1. transfers[n] = NoTransfer
        BY <3>1, <2>1 DEF TransfersInv, TransferInv
      <4>2. transfers'[n] = [state |-> "READY", future |-> "none"]
        BY <1>3, <3>1 DEF ReceiveTransfer
      <4> QED BY <4>1, <4>2 DEF Sent, Responded, NoTransfer
    <3>2. CASE n \notin drawn
      BY <1>3, <3>2 DEF ReceiveTransfer, Sent, Responded
    <3> QED BY <3>1, <3>2
  <2> QED BY <1>1, <1>3, <2>2 DEF ReceiveTransfer
<1>4. CASE TransferResult
  <2>1. ASSUME NEW n \in Nonce PROVE (Sent(n) \/ Responded(n))' <=> Sent(n) \/ Responded(n)
    <3>1. \/ transfers'[n] = transfers[n]
          \/ Sent(n) /\ transfers'[n] = [transfers[n] EXCEPT !.state = "RESPONDED"]
      BY <1>4 DEF TransferResult
    <3>2. transfers[n] \in [state : {"none", "READY", "SENT", "RESPONDED"},
                           future : {"none", "scheduled", "awaited", "success",
                                     "failure", "raised"}]
      BY DEF TransfersTypeOK
    <3> QED BY <3>1, <3>2 DEF Sent, Responded
  <2> QED BY <1>1, <1>4, <2>1 DEF TransferResult
<1>5. CASE SendAndProcess
  BY <1>5, SendAndProcessPending
<1>6. ASSUME NEW m \in Nonce, FutureStep(m)
      PROVE  PendingCountsSent'
  BY <1>1, <1>6, FutureSteps, SetFutureType DEF Sent, Responded
<1>7. CASE Forget
  <2>1. SentNonces' = {} /\ pending' = 0
    BY <1>7 DEF Forget, SentNonces, Sent, Responded, NoTransfer
  <2> QED BY <2>1, FS_EmptySet DEF PendingCountsSent
<1>8. Ledgers => UNCHANGED sendVars
  BY DEF Ledgers, MineBlock, MineTransaction
<1>9. Receiving => UNCHANGED sendVars \/ Forget \/ \E i \in Listener : ReceiveTransfer(i)
  BY DEF Receiving, EndRun, StartIteration, FetchAgain, ListenFails
<1>10. Process => UNCHANGED sendVars \/ Forget
  BY DEF Process, Stop, Kill, Restart
<1>11. Sending => \/ TransferResult \/ SendAndProcess \/ UNCHANGED sendVars
                  \/ \E m \in Nonce : FutureStep(m)
  BY DEF Sending, FutureStep, AnswerSource
<1>12. UNCHANGED vars => UNCHANGED sendVars
  BY DEF vars
<1> QED BY <1>2, <1>3, <1>4, <1>5, <1>6, <1>7, <1>8, <1>9, <1>10, <1>11, <1>12 DEF Next

-----------------------------------------------------------------------------
(***************************************************************************)
(* The events and the blocks.  Events are numbered in the order of their   *)
(* blocks, so what a filter leaves out is in older blocks; a listener      *)
(* looks from no later than the block after last_block; and what was mined *)
(* after its fetch slips by.                                               *)
(***************************************************************************)
BlocksInv ==
  /\ lastBlock <= height
  /\ \A e \in 1 .. emitted : blockOf[e] <= height
  /\ \A d, e \in 1 .. emitted : d <= e => blockOf[d] <= blockOf[e]
  /\ \A n \in Nonce : eventOf[n] <= emitted /\ (n >= nextNonce => eventOf[n] = 0)

ListenerInv(i) ==
  /\ listeners[i].from <= lastBlock + 1
  /\ Fetched(i) =>
       /\ listeners[i].last <= emitted
       /\ \A e \in 1 .. emitted :
            /\ e < listeners[i].first => blockOf[e] <= lastBlock
            /\ e > listeners[i].last => e \in slipped

EventsInv == BlocksInv /\ (\A i \in Listener : ListenerInv(i)) /\ LastBlockDividesEvents

LEMMA FilterLeavesOutOlder ==
  ASSUME LedgersTypeOK, BlocksInv, NEW block \in Nat, NEW e \in 1 .. emitted,
         e < FirstEventFrom(block)
  PROVE  blockOf[e] < block
<1> DEFINE older == {d \in 1 .. emitted : blockOf[d] < block}
<1>1. emitted \in Nat /\ e \in Nat /\ \A d \in 1 .. emitted : blockOf[d] \in Nat
  BY AgentAssumption DEF LedgersTypeOK, Event
<1> SUFFICES ASSUME ~(blockOf[e] < block) PROVE FALSE
  OBVIOUS
<1>2. older \subseteq 1 .. e - 1
  BY <1>1 DEF BlocksInv
<1>3. IsFiniteSet(1 .. e - 1) /\ Cardinality(1 .. e - 1) = e - 1
  <2> DEFINE top == e - 1
  <2>1. top \in Int /\ ~(1 > top + 1)
    BY <1>1
  <2> HIDE DEF top
  <2>2. IsFiniteSet(1 .. top) /\ Cardinality(1 .. top) = top
    BY <2>1, FS_Interval
  <2> QED BY <2>2 DEF top
<1>4. Cardinality(older) <= e - 1 /\ Cardinality(older) \in Nat
  BY <1>1, <1>2, <1>3, FS_Subset, FS_CardinalityType
<1> QED BY <1>1, <1>4 DEF FirstEventFrom

\* What a listener fetches is where its filter says.
LEMMA FetchKeepsEvents ==
  ASSUME AgentTypes, EventsInv, NEW i \in Listener, NEW from \in Nat, from <= lastBlock + 1,
         NEW listener \in {Fetch(from), Sleep(from)},
         listeners' = [listeners EXCEPT ![i] = listener],
         UNCHANGED <<ledgerVars, slipped, lastBlock, nonceVars>>
  PROVE  EventsInv'
<1> USE DEF AgentTypes, EventsInv
<1>1. BlocksInv' /\ LastBlockDividesEvents'
  BY DEF ledgerVars, nonceVars, BlocksInv, LastBlockDividesEvents, Received
<1>2. ASSUME NEW j \in Listener, j # i PROVE ListenerInv(j)'
  <2>1. listeners'[j] = listeners[j]
    BY <1>2 DEF ListenersTypeOK
  <2> QED BY <2>1 DEF ledgerVars, ListenerInv, Fetched
<1>3. ListenerInv(i)'
  <2>1. listeners'[i] = listener
    BY DEF ListenersTypeOK
  <2>2. CASE listener = Sleep(from)
    <3>1. listeners'[i].from = from /\ listeners'[i].status = "sleeping"
      BY <2>1, <2>2 DEF Sleep, NoListener
    <3> QED BY <3>1 DEF ListenerInv, Fetched
  <2>3. CASE listener = Fetch(from)
    <3>1. /\ listeners'[i].from = from /\ listeners'[i].last = emitted
          /\ listeners'[i].first = FirstEventFrom(from)
      BY <2>1, <2>3 DEF Fetch
    <3>2. \A e \in 1 .. emitted : e < FirstEventFrom(from) => blockOf[e] <= lastBlock
      <4>1. ASSUME NEW e \in 1 .. emitted, e < FirstEventFrom(from) PROVE blockOf[e] <= lastBlock
        <5>1. blockOf[e] < from
          BY <4>1, FilterLeavesOutOlder
        <5>2. blockOf[e] \in Nat
          BY AgentAssumption DEF LedgersTypeOK, Event
        <5> QED BY <5>1, <5>2 DEF ListenersTypeOK
      <4> QED BY <4>1
    <3>3. emitted \in Nat
      BY AgentAssumption DEF LedgersTypeOK
    <3> QED BY <3>1, <3>2, <3>3 DEF ledgerVars, ListenerInv, Fetched
  <2> QED BY <2>2, <2>3
<1> QED BY <1>1, <1>2, <1>3

LEMMA NextEvents ==
  ASSUME AgentTypes, EventsInv, [Next]_vars
  PROVE  EventsInv'
<1> USE DEF AgentTypes
<1>0. /\ height \in Nat /\ emitted \in Nat /\ lastBlock \in Nat
      /\ \A e \in 1 .. emitted : blockOf[e] \in Nat /\ e \in Event
  BY AgentAssumption DEF LedgersTypeOK, ListenersTypeOK, Event
<1>1. CASE UNCHANGED <<ledgerVars, slipped, lastBlock, listeners, nonceVars>>
  BY <1>1 DEF ledgerVars, nonceVars, EventsInv, BlocksInv, ListenerInv, Fetched, LastBlockDividesEvents,
     Received
<1>2. ASSUME NEW k \in 0 .. MaxEvents, MineBlock(k) PROVE EventsInv'
  <2>1. /\ height' = height + 1 /\ emitted' = emitted + k /\ k \in Nat
        /\ UNCHANGED <<lastBlock, listeners, nonceVars>>
    BY <1>2, AgentAssumption DEF MineBlock, listenVars
  <2>2. ASSUME NEW e \in 1 .. emitted'
        PROVE  \/ e \in 1 .. emitted /\ blockOf'[e] = blockOf[e]
               \/ e > emitted /\ blockOf'[e] = height + 1
    <3>1. emitted + k <= MaxEvents /\ MaxEvents \in Nat
      BY <1>2, AgentAssumption DEF MineBlock
    <3>2. e \in Event
      BY <1>0, <2>1, <3>1 DEF Event
    <3> QED BY <1>0, <1>2, <2>1, <3>2 DEF MineBlock
  <2>3. slipped \subseteq slipped'
    BY <1>2 DEF MineBlock
  <2>4. \A n \in Nonce : eventOf[n] \in Nat
    BY AgentAssumption DEF TransfersTypeOK
  <2>5. BlocksInv'
    BY <1>0, <2>1, <2>2, <2>4 DEF nonceVars, EventsInv, BlocksInv
  <2>6. ASSUME NEW i \in Listener PROVE ListenerInv(i)'
    <3>1. CASE ~Fetched(i)
      BY <3>1, <2>1 DEF EventsInv, ListenerInv, Fetched
    <3>2. CASE Fetched(i)
      <4>1. slipped' = slipped \cup (emitted + 1 .. emitted + k)
        BY <1>2, <3>2 DEF MineBlock
      <4>2. /\ listeners[i].first \in Nat /\ listeners[i].last \in Nat
            /\ listeners[i].first <= listeners[i].last + 1
        BY AgentAssumption DEF ListenersTypeOK, ListenersInv
      <4> QED BY <1>0, <3>2, <4>1, <4>2, <2>1, <2>2 DEF EventsInv, ListenerInv, Fetched
    <3> QED BY <3>1, <3>2
  <2>7. LastBlockDividesEvents'
    <3>1. ASSUME NEW e \in 1 .. emitted', e > emitted PROVE ~Received(e)
      BY <1>0, <2>4, <3>1 DEF EventsInv, BlocksInv, Received
    <3>2. \A e : Received(e)' <=> Received(e)
      BY <2>1 DEF nonceVars, Received
    <3> QED BY <1>0, <2>1, <2>2, <2>3, <3>1, <3>2 DEF EventsInv, BlocksInv, LastBlockDividesEvents
  <2> QED BY <2>5, <2>6, <2>7 DEF EventsInv
<1>3. ASSUME NEW i \in Listener, StartIteration(i) PROVE EventsInv'
  <2>1. PICK listener \in {Fetch(lastBlock + 1), Sleep(lastBlock + 1)} :
          listeners' = [listeners EXCEPT ![i] = listener]
    BY <1>3 DEF StartIteration, Listen
  <2>2. UNCHANGED <<ledgerVars, slipped, lastBlock, nonceVars>>
    BY <1>3 DEF StartIteration
  <2>3. lastBlock + 1 \in Nat /\ lastBlock + 1 <= lastBlock + 1
    BY <1>0
  <2> QED BY <2>1, <2>2, <2>3, FetchKeepsEvents
<1>4. ASSUME NEW i \in Listener, FetchAgain(i) PROVE EventsInv'
  <2>1. listeners[i].from \in Nat /\ listeners[i].from <= lastBlock + 1
    BY DEF ListenersTypeOK, EventsInv, ListenerInv
  <2>2. /\ listeners' = [listeners EXCEPT ![i] = Fetch(listeners[i].from)]
        /\ UNCHANGED <<ledgerVars, slipped, lastBlock, nonceVars>>
    BY <1>4 DEF FetchAgain
  <2> QED BY <2>1, <2>2, FetchKeepsEvents
<1>5. ASSUME NEW i \in Listener, ReceiveTransfer(i) PROVE EventsInv'
  <2> DEFINE first == listeners[i].first
             last  == listeners[i].last
             drawn == nextNonce .. nextNonce + (last - first + 1) - 1
  <2>1. /\ Fetched(i) /\ drawn \subseteq Nonce /\ lastBlock' = height
        /\ eventOf' = [n \in Nonce |-> IF n \in drawn THEN first + n - nextNonce ELSE eventOf[n]]
        /\ listeners' = [listeners EXCEPT ![i] = NoListener]
        /\ UNCHANGED <<height, emitted, blockOf, slipped>>
    BY <1>5 DEF ReceiveTransfer, ledgerVars
  <2>2. /\ first \in Nat /\ last \in Nat /\ first >= 1 /\ nextNonce \in Nat /\ last <= emitted
        /\ \A n \in Nonce : eventOf[n] \in Nat
    BY <2>1, AgentAssumption DEF ListenersTypeOK, TransfersTypeOK, EventsInv, ListenerInv
  <2>3. BlocksInv'
    <3>1. \A n \in drawn : first + n - nextNonce <= last
      BY <2>2
    <3>2. \A n \in Nonce : eventOf'[n] <= emitted
      BY <1>0, <2>1, <2>2, <3>1 DEF EventsInv, BlocksInv
    <3>3. \A n \in Nonce : n >= nextNonce' => n >= nextNonce /\ n \notin drawn
      BY <1>5, <2>1, <2>2 DEF ReceiveTransfer, Nonce, ListenersInv
    <3>4. \A n \in Nonce : n >= nextNonce' => eventOf'[n] = 0
      BY <2>1, <3>3 DEF EventsInv, BlocksInv
    <3> QED BY <1>0, <2>1, <3>2, <3>4 DEF EventsInv, BlocksInv
  <2>4. ASSUME NEW j \in Listener PROVE ListenerInv(j)'
    <3>1. CASE j = i
      BY <1>0, <2>1, <3>1 DEF ListenerInv, Fetched, NoListener, ListenersTypeOK
    <3>2. CASE j # i
      <4>1. listeners'[j] = listeners[j]
        BY <2>1, <3>2 DEF ListenersTypeOK
      <4>2. lastBlock <= lastBlock' /\ listeners[j].from \in Nat
        BY <2>1 DEF EventsInv, BlocksInv, ListenersTypeOK
      <4> QED BY <1>0, <2>1, <4>1, <4>2 DEF EventsInv, ListenerInv, Fetched
    <3> QED BY <3>1, <3>2
  <2>5. ASSUME NEW e \in 1 .. emitted
        PROVE  Received(e)' \/ e \in slipped
    <3>1. CASE e < first
      <4>1. Received(e) \/ e \in slipped
        BY <2>1, <3>1 DEF EventsInv, ListenerInv, LastBlockDividesEvents
      <4>2. ASSUME Received(e) PROVE Received(e)'
        <5>1. PICK n \in Nonce : eventOf[n] = e
          BY <4>2 DEF Received
        <5>2. CASE n \notin drawn
          BY <2>1, <5>1, <5>2 DEF Received
        <5>3. CASE n \in drawn
          <6>1. n >= nextNonce /\ e >= 1
            BY <2>2, <5>3
          <6> QED BY <5>1, <6>1 DEF EventsInv, BlocksInv
        <5> QED BY <5>2, <5>3
      <4> QED BY <4>1, <4>2
    <3>2. CASE e > last
      BY <2>1, <3>2 DEF EventsInv, ListenerInv
    <3>3. CASE first <= e /\ e <= last
      <4> DEFINE n == nextNonce + e - first
      <4>1. n \in drawn /\ first + n - nextNonce = e
        BY <1>0, <2>2, <3>3
      <4>2. n \in Nonce /\ eventOf'[n] = e
        BY <2>1, <4>1
      <4> QED BY <4>2 DEF Received
    <3> QED BY <1>0, <2>2, <3>1, <3>2, <3>3
  <2>6. LastBlockDividesEvents'
    BY <2>1, <2>5 DEF EventsInv, BlocksInv, LastBlockDividesEvents
  <2> QED BY <2>3, <2>4, <2>6 DEF EventsInv
<1>6. ASSUME NEW i \in Listener, listeners' = [listeners EXCEPT ![i] = NoListener],
             UNCHANGED <<ledgerVars, slipped, lastBlock, nonceVars>>
      PROVE  EventsInv'
  <2>1. BlocksInv' /\ LastBlockDividesEvents'
    BY <1>6 DEF ledgerVars, nonceVars, EventsInv, BlocksInv, LastBlockDividesEvents, Received
  <2>2. ASSUME NEW j \in Listener PROVE ListenerInv(j)'
    BY <1>0, <1>6 DEF ledgerVars, EventsInv, ListenerInv, Fetched, NoListener, ListenersTypeOK
  <2> QED BY <2>1, <2>2 DEF EventsInv
<1>7. CASE Forget
  <2>1. BlocksInv' /\ LastBlockDividesEvents'
    BY <1>7 DEF Forget, ledgerVars, nonceVars, EventsInv, BlocksInv, LastBlockDividesEvents,
       Received
  <2>2. ASSUME NEW j \in Listener PROVE ListenerInv(j)'
    BY <1>0, <1>7 DEF Forget, ListenerInv, Fetched, NoListener
  <2> QED BY <2>1, <2>2 DEF EventsInv
<1>8. CASE Restart
  <2>1. /\ lastBlock' = height /\ slipped' = slipped \cup {e \in 1 .. emitted : ~Received(e)}
        /\ UNCHANGED <<height, emitted, blockOf, listeners, nonceVars>>
    BY <1>8 DEF Restart, ledgerVars
  <2>2. BlocksInv'
    BY <1>0, <2>1 DEF nonceVars, EventsInv, BlocksInv
  <2>3. ASSUME NEW j \in Listener PROVE ListenerInv(j)'
    <3>1. listeners[j].from \in Nat /\ listeners[j].from <= height + 1
      BY <1>0 DEF ListenersTypeOK, EventsInv, BlocksInv, ListenerInv
    <3> QED BY <1>0, <2>1, <3>1 DEF EventsInv, BlocksInv, ListenerInv, Fetched
  <2>4. LastBlockDividesEvents'
    BY <2>1 DEF nonceVars, EventsInv, BlocksInv, LastBlockDividesEvents, Received
  <2> QED BY <2>2, <2>3, <2>4 DEF EventsInv
<1>9. Ledgers => \/ UNCHANGED <<ledgerVars, slipped, lastBlock, listeners, nonceVars>>
                 \/ \E k \in 0 .. MaxEvents : MineBlock(k)
  BY DEF Ledgers, MineTransaction, listenVars
<1>10. Receiving => \/ Forget
                    \/ \E i \in Listener :
                         \/ StartIteration(i) \/ FetchAgain(i) \/ ReceiveTransfer(i)
                         \/ /\ listeners' = [listeners EXCEPT ![i] = NoListener]
                            /\ UNCHANGED <<ledgerVars, slipped, lastBlock, nonceVars>>
  BY DEF Receiving, EndRun, ListenFails
<1>11. Process => \/ UNCHANGED <<ledgerVars, slipped, lastBlock, listeners, nonceVars>>
                  \/ Forget \/ Restart
  BY DEF Process, Stop, Kill, listenVars
<1>12. Sending => UNCHANGED <<ledgerVars, slipped, lastBlock, listeners, nonceVars>>
  BY DEF Sending, TransferResult, SendAndProcess, SubmitData, DataRefused, SendFails,
     ReceiptArrives, ReceiptTimesOut, AnswerSource, listenVars
<1>13. UNCHANGED vars => UNCHANGED <<ledgerVars, slipped, lastBlock, listeners, nonceVars>>
  BY DEF vars, listenVars
<1> QED BY <1>1, <1>2, <1>3, <1>4, <1>5, <1>6, <1>7, <1>8, <1>9, <1>10, <1>11, <1>12, <1>13
        DEF Next

-----------------------------------------------------------------------------
AgentInv == AgentTypes /\ TransfersInv /\ PendingCountsSent /\ EventsInv

LEMMA InitAgentInv == Init => AgentInv
<1> SUFFICES ASSUME Init PROVE AgentInv
  OBVIOUS
<1>1. AgentTypes
  BY AgentAssumption DEF Init, AgentTypes, LedgersTypeOK, RunTypeOK, ListenersTypeOK,
     ListenersInv, TransfersTypeOK, NoListener, NoTransfer, Answer, Nonce
<1>2. TransfersInv
  BY DEF Init, TransfersInv, TransferInv, Unsent, NoTransfer
<1>3. SentNonces = {}
  BY DEF Init, SentNonces, Sent, Responded, NoTransfer
<1>4. EventsInv
  BY DEF Init, EventsInv, BlocksInv, ListenerInv, LastBlockDividesEvents, Fetched, NoListener
<1> QED BY <1>1, <1>2, <1>3, <1>4, FS_EmptySet DEF Init, PendingCountsSent, AgentInv

(***************************************************************************)
(* The agent's memory is well-formed, every transfer agrees with what the  *)
(* ledgers know of it, `pending` counts the transfers that were sent, and  *)
(* every listener looks where nothing is left out before it: the inductive *)
(* invariant of `run` and the coroutines it starts.                        *)
(***************************************************************************)
THEOREM AgentInvariance == Spec => []AgentInv
<1>1. AgentInv /\ [Next]_vars => AgentInv'
  BY NextTypes, NextTransfers, NextPending, NextEvents DEF AgentInv
<1> QED BY InitAgentInv, <1>1, PTL DEF Spec

(***************************************************************************)
(* Every variable of the agent keeps its type; in particular the counter   *)
(* of pending transfers never becomes negative.                            *)
(***************************************************************************)
THEOREM AgentTypeCorrectness == Spec => []TypeOK
<1>1. AgentInv => TypeOK
  <2>1. SentNonces \subseteq Nonce
    BY DEF SentNonces
  <2> QED BY <2>1, NoncesAreFinite DEF AgentInv, AgentTypes, PendingCountsSent, RunTypeOK, TypeOK
<1> QED BY AgentInvariance, <1>1, PTL

(***************************************************************************)
(* `pending` counts the transfers that were sent and not answered, however *)
(* many listeners end late, calls fail and processes restart: `run` never  *)
(* waits for a result when no transfer can give one.                       *)
(***************************************************************************)
THEOREM PendingIsExact == Spec => []PendingCountsSent
BY AgentInvariance, PTL DEF AgentInv

(***************************************************************************)
(* The source ledger hears of a commit only when the destination ledger    *)
(* accepted the transfer, also when receipts are late, lost or refused.    *)
(***************************************************************************)
THEOREM CommitsAreAccepted == Spec => []CommitMeansAccepted
<1>1. AgentInv => CommitMeansAccepted
  BY DEF AgentInv, TransfersInv, TransferInv, CommitMeansAccepted
<1> QED BY AgentInvariance, <1>1, PTL

(***************************************************************************)
(* No event is made a transfer again by a listener that starts after it    *)
(* was received, and an event is missed only when it is mined between a    *)
(* fetch and the reading of the block number, or while no agent runs,      *)
(* however many listeners of earlier iterations end in between.            *)
(***************************************************************************)
THEOREM EventsAreDivided == Spec => []LastBlockDividesEvents
<1>1. AgentInv => LastBlockDividesEvents
  BY DEF AgentInv, EventsInv
<1> QED BY AgentInvariance, <1>1, PTL
=============================================================================
