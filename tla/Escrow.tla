------------------------------- MODULE Escrow -------------------------------
(***************************************************************************)
(* What the marketplace promises about money, whatever requests, decisions *)
(* and reports are: the money of an offer is deposited once, its fate is   *)
(* decided once, and it is paid out at most once, to the account that the  *)
(* decision names among the two that were fixed by the deposit.            *)
(* Marketplace is shown to implement this module.                          *)
(***************************************************************************)
EXTENDS Integers

CONSTANTS
  MaxOffers,   \* bound: offers ever made
  Account,     \* who deposits and who is paid
  NoAccount,   \* nobody
  Amount       \* what an offer may deposit

Offer == 0 .. MaxOffers

ASSUME EscrowAssumption ==
  /\ MaxOffers \in Nat
  /\ NoAccount \notin Account
  /\ Amount \subseteq Nat

VARIABLES
  state,   \* per offer, where its money is
  deal,    \* per offer, who deposited how much and to whom it may go
  paidTo,  \* per offer, who got the money
  vault    \* all the money held

vars == <<state, deal, paidTo, vault>>

State  == {"none", "held", "payable", "refundable", "paid"}
Deal   == [payer : Account, payee : Account, amount : Amount]
NoDeal == [payer |-> NoAccount, payee |-> NoAccount, amount |-> 0]

Init ==
  /\ state = [o \in Offer |-> "none"]
  /\ deal = [o \in Offer |-> NoDeal]
  /\ paidTo = [o \in Offer |-> NoAccount]
  /\ vault = 0

Deposit(o, d) ==
  /\ state[o] = "none"
  /\ vault' = vault + d.amount
  /\ deal' = [deal EXCEPT ![o] = d]
  /\ state' = [state EXCEPT ![o] = "held"]
  /\ UNCHANGED paidTo

\* The fate of several offers is decided at once.
Resolve(won, lost) ==
  /\ won \cap lost = {}
  /\ \A o \in won \cup lost : state[o] = "held"
  /\ state' = [o \in Offer |-> IF o \in won THEN "payable"
                              ELSE IF o \in lost THEN "refundable" ELSE state[o]]
  /\ UNCHANGED <<deal, paidTo, vault>>

Recipient(o) == IF state[o] = "payable" THEN deal[o].payee ELSE deal[o].payer

\* Mutant: what was paid out is not recorded as paid.
PayOutUnrecorded(o) ==
  /\ state[o] \in {"payable", "refundable"}
  /\ paidTo' = [paidTo EXCEPT ![o] = Recipient(o)]
  /\ vault' = vault - deal[o].amount
  /\ UNCHANGED <<state, deal>>

PayOut(o) ==
  /\ state[o] \in {"payable", "refundable"}
  /\ vault' = vault - deal[o].amount
  /\ paidTo' = [paidTo EXCEPT ![o] = Recipient(o)]
  /\ state' = [state EXCEPT ![o] = "paid"]
  /\ UNCHANGED deal

Next ==
  \/ \E o \in Offer : PayOut(o) \/ \E d \in Deal : Deposit(o, d)
  \/ \E won, lost \in SUBSET Offer : Resolve(won, lost)

Spec == Init /\ [][Next]_vars

-----------------------------------------------------------------------------
TypeOK ==
  /\ state \in [Offer -> State]
  /\ deal \in [Offer -> Deal \cup {NoDeal}]
  /\ paidTo \in [Offer -> Account \cup {NoAccount}]
  /\ vault \in Int

HeldFor(o) ==
  IF state[o] \in {"held", "payable", "refundable"} THEN deal[o].amount ELSE 0

Total(f) ==
  LET upTo[o \in Offer] == IF o = 0 THEN f[0] ELSE upTo[o - 1] + f[o]
  IN  upTo[MaxOffers]

(***************************************************************************)
(* The money held is the money of the offers that were not paid out: no    *)
(* payment can eat the money of another offer.                             *)
(***************************************************************************)
Solvent == vault = Total([o \in Offer |-> HeldFor(o)])
=============================================================================
