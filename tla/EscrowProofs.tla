---------------------------- MODULE EscrowProofs ----------------------------
(***************************************************************************)
(* The escrow is solvent, for every number of offers and all accounts.     *)
(***************************************************************************)
EXTENDS Escrow, WellFoundedInduction, TLAPS

Held == [o \in Offer |-> HeldFor(o)]

\* s is the running total of f.
RunsOver(s, f) ==
  /\ s[0] = f[0]
  /\ \A o \in Offer \ {0} : s[o] = s[o - 1] + f[o]

(***************************************************************************)
(* The vault is the last value of a running total of the money held.  A    *)
(* running total can be changed from one offer on, which Total, being      *)
(* recursive, does not show; at the end the two are compared.              *)
(***************************************************************************)
Ledger == \E s \in [Offer -> Int] : RunsOver(s, Held) /\ s[MaxOffers] = vault

\* Money that is somewhere was deposited by a deal.
Deposited == \A o \in Offer : state[o] # "none" => deal[o] \in Deal

Inv == TypeOK /\ Deposited /\ Ledger

LEMMA OfferFacts ==
  /\ 0 \in Offer /\ MaxOffers \in Offer
  /\ \A o \in Offer : o \in Int /\ 0 <= o /\ o <= MaxOffers
  /\ \A o \in Offer \ {0} : o - 1 \in Offer
BY EscrowAssumption DEF Offer

\* A deal is about a natural number; no deal is about nothing.
LEMMA AmountType == \A d \in Deal \cup {NoDeal} : d.amount \in Nat
<1> SUFFICES ASSUME NEW d \in Deal \cup {NoDeal} PROVE d.amount \in Nat
  OBVIOUS
<1>1. CASE d \in Deal
  <2>1. d.amount \in Amount
    BY <1>1 DEF Deal
  <2> QED BY <2>1, EscrowAssumption
<1>2. CASE d = NoDeal
  BY <1>2 DEF NoDeal
<1> QED BY <1>1, <1>2

-----------------------------------------------------------------------------
(***************************************************************************)
(* Running totals.                                                         *)
(***************************************************************************)
LEMMA LeastNumber ==
  ASSUME NEW T, T \subseteq Nat, T # {}
  PROVE  \E x \in T : \A y \in T : x <= y
<1>1. \E x \in T : \A y \in T : ~ (<<y, x>> \in OpToRel(<, Nat))
  BY NatLessThanWellFounded, WFMin, Zenon
<1>2. PICK x \in T : \A y \in T : ~ (<<y, x>> \in OpToRel(<, Nat))
  BY <1>1
<1>3. \A y \in T : x <= y
  <2>1. TAKE y \in T
  <2>2. x \in Nat /\ y \in Nat
    OBVIOUS
  <2>3. ~ (y < x)
    BY <1>2, <2>2 DEF OpToRel
  <2> QED BY <2>2, <2>3
<1> QED BY <1>3

\* Two running totals of a function would differ first at some offer, and
\* agree at the one before.
LEMMA RunningTotalIsUnique ==
  ASSUME NEW f, NEW s, NEW t, RunsOver(s, f), RunsOver(t, f)
  PROVE  \A o \in Offer : s[o] = t[o]
<1> DEFINE Differ == {o \in Offer : s[o] # t[o]}
<1>1. SUFFICES ASSUME Differ # {} PROVE FALSE
  OBVIOUS
<1>2. Differ \subseteq Nat
  BY EscrowAssumption DEF Offer
<1>3. PICK first \in Differ : \A o \in Differ : first <= o
  <2> HIDE DEF Differ
  <2> QED BY <1>1, <1>2, LeastNumber
<1>4. first # 0
  BY DEF RunsOver
<1>5. first - 1 \in Offer /\ first - 1 \notin Differ
  BY <1>2, <1>3, <1>4, OfferFacts
<1>6. s[first - 1] = t[first - 1]
  BY <1>5
<1> QED BY <1>3, <1>4, <1>6 DEF RunsOver

\* Total is the last value of the running total, when there is one.
LEMMA TotalIsLast ==
  ASSUME NEW f, NEW s \in [Offer -> Int], RunsOver(s, f)
  PROVE  Total(f) = s[MaxOffers]
<1> DEFINE Step(g) == [o \in Offer |-> IF o = 0 THEN f[0] ELSE g[o - 1] + f[o]]
           upTo == CHOOSE g : g = Step(g)
<1>1. s = Step(s)
  BY OfferFacts DEF RunsOver
<1>2. upTo = Step(upTo)
  <2> HIDE DEF Step
  <2> QED BY <1>1
<1>3. Total(f) = upTo[MaxOffers]
  BY DEF Total
<1>4. \A o \in Offer \ {0} : upTo[o] = upTo[o - 1] + f[o]
  <2> HIDE DEF upTo
  <2> QED BY <1>2
<1>5. upTo[0] = f[0]
  <2> HIDE DEF upTo
  <2> QED BY <1>2, OfferFacts
<1>6. RunsOver(upTo, f)
  BY <1>4, <1>5 DEF RunsOver
<1> QED
  <2> HIDE DEF upTo
  <2> QED BY <1>3, <1>6, RunningTotalIsUnique, OfferFacts

\* A running total that is raised from k on is that of the function raised at k.
LEMMA RaisedTotal ==
  ASSUME NEW f \in [Offer -> Int], NEW g \in [Offer -> Int],
         NEW s \in [Offer -> Int], RunsOver(s, f),
         NEW k \in Offer, NEW d \in Int,
         g[k] = f[k] + d,
         \A o \in Offer \ {k} : g[o] = f[o]
  PROVE  \E t \in [Offer -> Int] : RunsOver(t, g) /\ t[MaxOffers] = s[MaxOffers] + d
<1> DEFINE t == [o \in Offer |-> IF k <= o THEN s[o] + d ELSE s[o]]
<1>1. t \in [Offer -> Int]
  BY OfferFacts
<1>2. t[0] = g[0]
  BY OfferFacts DEF RunsOver
<1>3. ASSUME NEW o \in Offer \ {0} PROVE t[o] = t[o - 1] + g[o]
  <2>1. s[o] = s[o - 1] + f[o] /\ o - 1 \in Offer /\ o \in Int /\ k \in Int
    BY OfferFacts DEF RunsOver
  <2>2. CASE o = k
    BY <2>1, <2>2
  <2>3. CASE o # k
    BY <2>1, <2>3
  <2> QED BY <2>2, <2>3
<1>4. t[MaxOffers] = s[MaxOffers] + d
  BY OfferFacts
<1> QED BY <1>1, <1>2, <1>3, <1>4 DEF RunsOver

-----------------------------------------------------------------------------
(***************************************************************************)
(* The invariant.                                                          *)
(***************************************************************************)
LEMMA HeldType == TypeOK => Held \in [Offer -> Int]
BY AmountType DEF TypeOK, Held, HeldFor

LEMMA InitInv == Init => Inv
<1> SUFFICES ASSUME Init PROVE Inv
  OBVIOUS
<1>1. TypeOK
  BY DEF Init, TypeOK, State
<1>2. Ledger
  <2> DEFINE s == [o \in Offer |-> 0]
  <2>1. \A o \in Offer : HeldFor(o) = 0
    BY DEF Init, HeldFor
  <2>2. s \in [Offer -> Int] /\ s[MaxOffers] = vault
    BY OfferFacts DEF Init
  <2>3. RunsOver(s, Held)
    BY <2>1, OfferFacts DEF RunsOver, Held
  <2> QED BY <2>2, <2>3 DEF Ledger
<1>3. Deposited
  BY DEF Init, Deposited
<1> QED BY <1>1, <1>2, <1>3 DEF Inv

LEMMA NextTypeOK == TypeOK /\ Deposited /\ [Next]_vars => TypeOK' /\ Deposited'
<1> SUFFICES ASSUME TypeOK, Deposited, [Next]_vars PROVE TypeOK' /\ Deposited'
  OBVIOUS
<1> USE DEF TypeOK, State, Deposited
<1>1. ASSUME NEW o \in Offer, NEW d \in Deal, Deposit(o, d) PROVE TypeOK' /\ Deposited'
  <2>1. d.amount \in Nat
    BY AmountType
  <2> QED BY <1>1, <2>1 DEF Deposit
<1>2. ASSUME NEW o \in Offer, PayOut(o) PROVE TypeOK' /\ Deposited'
  <2>1. deal[o] \in Deal
    BY <1>2 DEF PayOut
  <2>2. Recipient(o) \in Account /\ deal[o].amount \in Nat
    BY <2>1, AmountType DEF Recipient, Deal
  <2> QED BY <1>2, <2>1, <2>2 DEF PayOut
<1>3. ASSUME NEW won \in SUBSET Offer, NEW lost \in SUBSET Offer, Resolve(won, lost)
      PROVE  TypeOK' /\ Deposited'
  BY <1>3 DEF Resolve
<1>4. CASE UNCHANGED vars
  BY <1>4 DEF vars
<1> QED BY <1>1, <1>2, <1>3, <1>4 DEF Next

\* A step that changes what is held for one offer changes the vault as much.
LEMMA LedgerFollows ==
  ASSUME TypeOK, TypeOK', Ledger, NEW k \in Offer,
         \A o \in Offer \ {k} : HeldFor(o)' = HeldFor(o),
         vault' = vault + HeldFor(k)' - HeldFor(k)
  PROVE  Ledger'
<1>1. Held \in [Offer -> Int] /\ Held' \in [Offer -> Int]
  BY AmountType DEF TypeOK, Held, HeldFor
<1>2. PICK s \in [Offer -> Int] : RunsOver(s, Held) /\ s[MaxOffers] = vault
  BY DEF Ledger
<1> DEFINE d == HeldFor(k)' - HeldFor(k)
<1>3. d \in Int /\ HeldFor(k) \in Int /\ vault \in Int
  BY <1>1 DEF Held, TypeOK
<1>4. Held'[k] = Held[k] + d /\ \A o \in Offer \ {k} : Held'[o] = Held[o]
  BY <1>1, <1>3 DEF Held
<1>5. \E t \in [Offer -> Int] : RunsOver(t, Held') /\ t[MaxOffers] = s[MaxOffers] + d
  <2> DEFINE f == Held
             g == Held'
  <2> HIDE DEF d, f, g
  <2>1. f \in [Offer -> Int] /\ g \in [Offer -> Int] /\ RunsOver(s, f)
    BY <1>1, <1>2 DEF f, g
  <2>2. g[k] = f[k] + d /\ \A o \in Offer \ {k} : g[o] = f[o]
    BY <1>4 DEF f, g
  <2>3. \E t \in [Offer -> Int] : RunsOver(t, g) /\ t[MaxOffers] = s[MaxOffers] + d
    BY <1>3, <2>1, <2>2, RaisedTotal
  <2> QED BY <2>3 DEF g
<1>6. s[MaxOffers] + d = vault'
  BY <1>2, <1>3
<1> QED BY <1>5, <1>6 DEF Ledger, RunsOver

LEMMA NextInv == Inv /\ [Next]_vars => Inv'
<1> SUFFICES ASSUME Inv, [Next]_vars PROVE Ledger'
  BY NextTypeOK DEF Inv
<1>1. TypeOK /\ Deposited /\ Ledger /\ TypeOK' /\ Deposited'
  BY NextTypeOK DEF Inv
<1>2. ASSUME NEW k \in Offer, NEW d \in Deal, Deposit(k, d) PROVE Ledger'
  <2>1. \A o \in Offer \ {k} : HeldFor(o)' = HeldFor(o)
    BY <1>1, <1>2 DEF Deposit, HeldFor, TypeOK
  <2>2. HeldFor(k) = 0 /\ HeldFor(k)' = d.amount
    BY <1>1, <1>2 DEF Deposit, HeldFor, TypeOK
  <2>3. vault' = vault + HeldFor(k)' - HeldFor(k)
    BY <1>1, <1>2, <2>2, AmountType DEF Deposit, TypeOK
  <2> QED BY <1>1, <2>1, <2>3, LedgerFollows
<1>3. ASSUME NEW k \in Offer, PayOut(k) PROVE Ledger'
  <2>1. \A o \in Offer \ {k} : HeldFor(o)' = HeldFor(o)
    BY <1>1, <1>3 DEF PayOut, HeldFor, TypeOK
  <2>2. HeldFor(k) = deal[k].amount /\ HeldFor(k)' = 0
    BY <1>1, <1>3 DEF PayOut, HeldFor, TypeOK
  <2>3. vault' = vault + HeldFor(k)' - HeldFor(k)
    <3>1. deal[k].amount \in Nat
      BY <1>1, <1>3, AmountType DEF PayOut, Deposited
    <3> QED BY <1>1, <1>3, <2>2, <3>1 DEF PayOut, TypeOK
  <2> QED BY <1>1, <2>1, <2>3, LedgerFollows
\* The steps that leave what is held as it is.
<1>4. ASSUME vault' = vault, \A o \in Offer : HeldFor(o)' = HeldFor(o) PROVE Ledger'
  <2>1. Held' = Held
    BY <1>4 DEF Held
  <2> QED BY <1>1, <1>4, <2>1 DEF Ledger, RunsOver
<1>5. ASSUME NEW won \in SUBSET Offer, NEW lost \in SUBSET Offer, Resolve(won, lost)
      PROVE  Ledger'
  <2>1. ASSUME NEW o \in Offer PROVE HeldFor(o)' = HeldFor(o)
    BY <1>1, <1>5 DEF Resolve, HeldFor, TypeOK
  <2> QED BY <1>4, <1>5, <2>1 DEF Resolve
<1>6. CASE UNCHANGED vars
  <2>1. \A o \in Offer : HeldFor(o)' = HeldFor(o)
    BY <1>6 DEF vars, HeldFor
  <2> QED BY <1>4, <1>6, <2>1 DEF vars
<1> QED BY <1>2, <1>3, <1>5, <1>6 DEF Next

LEMMA InvSolvent == Inv => Solvent
<1> SUFFICES ASSUME Inv PROVE vault = Total(Held)
  BY DEF Solvent, Held
<1>1. PICK s \in [Offer -> Int] : RunsOver(s, Held) /\ s[MaxOffers] = vault
  BY DEF Inv, Ledger
<1> QED BY <1>1, TotalIsLast

(***************************************************************************)
(* The invariant of the escrow, from which its solvency follows.           *)
(***************************************************************************)
THEOREM Invariance == Spec => []Inv
<1>1. Init => Inv
  BY InitInv
<1>2. Inv /\ [Next]_vars => Inv'
  BY NextInv
<1> QED BY <1>1, <1>2, PTL DEF Spec

(***************************************************************************)
(* The money held is always the money of the offers not paid out.          *)
(***************************************************************************)
THEOREM Solvency == Spec => []Solvent
BY Invariance, InvSolvent, PTL
=============================================================================
