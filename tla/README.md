# A formal model of the SMAUG marketplace

SMAUG rents out smart lockers through an Ethereum marketplace. Locker owners
publish requests ("who wants my locker?"), renters make offers and escrow their
money with them, the locker owner decides, an Interledger agent carries the
decision to the ledger where access tokens are issued and the outcome back, and
the parties withdraw. This directory holds TLA+ models of the parts where that
can go wrong, the TLC runs that check them on small instances, and theorems
that TLAPS proves for instances of any size. Paths below are relative to the
repository.

## 1. The system

| Part | State | Operations | Talks to |
|---|---|---|---|
| **Marketplace contract** `om-smart-contracts/contracts/SMAUGMarketplace.sol` on `abstract/AbstractAuthorisedOwnerManageableMarketPlace.sol` | requests, offers, their extras, open offers per request, pending payments, used access tokens, the contract's ether | submit request / extra, close, decide, delete, submit offer / extra, settle, `interledgerReceive`, `withdraw`, reset tokens, roles | emits `InterledgerEventSending` for the agent, `OfferFulfilled` / `OfferClaimable` for the backend |
| **Inherited contracts** (sofie-offer-marketplace, OpenZeppelin; not in the repository) | requests and offers, owner, managers | storage, roles | called with `super` |
| **Access token library, byte utilities** `libraries/*.sol` | none | digest and signer of a token; slicing | called by the contract |
| **Interledger agent** `il-agent/` | transfers, pending counter, last block seen, all in memory | poll events, send data, collect results, commit or abort | two ledgers, by RPC |
| **Interledger proxy contract** `il-smart-contracts/` | none | `interledgerReceive` (announce and accept), `triggerInterledger` | agent, PDS side |
| **Date library** `om-backend/project/static/moment.js` (moment 2.27.0, served to the backend's pages; no template loads it) | a moment: an instant and how it is shown; a duration | create, add, set, compare, start and end of a unit, zones, durations | the `Date` object |
| **Backend** `om-backend/project` | SQL copy of requests and offers; lockers, owners, tokens | Kafka consumer of contract events, REST routes, pages | contract (reads), PDS, database |
| **PDS / Privacy** `om-pds/` | challenges, issued tokens, token log on chain; survey statistics | issue tokens, log them, randomised surveys | backend, Hyperledger Indy |
| **IAA** `om-iaa/` | none | verifies tokens in front of a device | PDS keys, ERC721 contract |
| **Semantic representation** `semantic-representation/` | JSON schemas | validate | locker owners |
| **Demo client** `om-smart-contracts/demo/` | keys, events not yet seen and the current account, all in memory | a menu whose entries are chains of calls; a listener of events | contract, token service |

What is hard, and where:

* *Money.* All offers share one balance. An offer's money moves in three
  steps made by different accounts (renter, Interledger's manager, whoever
  withdraws), with decisions, second reports and deletions in between.
* *Verdicts.* `decideRequest` may be repeated, reports may be repeated or name
  other offers, an instant rent decides inside `submitOfferArrayExtra`.
* *Arithmetic.* Solidity 0.5 wraps around; prices are looked up by search.
* *The agent's event loop.* `run` goes on while an older listener still
  sleeps; ledgers move on during every call; nothing is persisted; a timeout
  is not an answer.
* *The demo.* An entry of the menu is up to eight awaited calls, and the chain
  moves on between any two of them; whatever throws abandons the rest; keys and
  events exist only as long as the process.
* *A decision's round trip.* Marketplace, agent, proxy, token issuer, agent,
  marketplace: five hops, each of which may be late, in another order or repeated.
* *Dates.* Months, leap years, week years, the years 0 to 99 and the hours a
  change of the clock skips or repeats.
* *The backend.* A replica fed by a consumer that remembers no position, gets
  events again, and reads current chain state to interpret old ones;
  registrations in two stores.

What makes each part correct:

* contract: it can always pay what it owes, it pays the right party once, a
  verdict is final, bidding ends when the request closes, a token buys one
  request, and whatever asks for access tokens can be answered;
* prices: an accepted offer pays the price and stays in the window published;
* agent: every event its filters look for becomes a transfer, a transfer gets one
  answer, and a commit means that the other ledger accepted;
* settlement: nobody gets a token and a refund for one decision, nobody pays
  without a token, and a decision that names a winner frees everybody's money if
  it and its report are brought over;
* demo: what it paid for it can read, a token heard of is listed until opened, and
  the rent on the chain keeps the dates typed;
* date library: what is set is read, differences lead from one date to the other,
  weeks fill the years, and a duration says what it keeps;
* backend: the database is never ahead of the chain, catches up with it, and a
  decided request stays decided;
* registration: an owner known to one store is known to the other.

`PROJECT.json` lists every part with what is modelled of it, and every hazard
with the line where it bites and the properties aimed at it.

## 2. The modules

| Module | Models | Built on |
|---|---|---|
| `Pricing` | the arithmetic of extras: rules cut out of raw arrays, windows, prices, on words of `WordSize` values | |
| `RentQuotes` | one request's extra and the offers accepted for it | `Pricing` |
| `Escrow` | abstract: what the marketplace promises about money | |
| `Marketplace` | both contracts, every function that changes state | `Pricing`, instantiates `Escrow` |
| `InterledgerAgent` | one direction of the agent between two ledgers | |
| `EventConsumer` | the backend's thread that copies contract events into the database | |
| `Settlement` | a decision's way through agent, proxy and token issuer, and back | `Marketplace` |
| `DemoClient` | the command line demo, beside other clients and Interledger | `Marketplace` |
| `Calendar` | days, months, years and weeks of moment.js, over an external `Date` | |
| `Durations` | durations of moment.js | `Calendar` |
| `Moments` | what each operation of a moment makes of it | `Durations` |
| `MomentInput` | moments made of what an array, an object or a text gives | `Moments` |
| `MomentCalls` | two moments and a duration changed by calls in any order | `MomentInput` |
| `MCRentQuotes`, `MCEscrow`, `MCMarketplace`, `MCInterledgerAgent`, `MCEventConsumer`, `MCSettlement`, `MCDemoClient`, `MCMomentCalls` | the instances TLC checks | |
| `RentQuotesProofs`, `EscrowProofs`, `MarketplaceProofs`, `MarketplaceVerdicts`, `InterledgerAgentProofs`, `EventConsumerProofs`, `CompositionProofs`, `MomentProofs` | theorems | |

Operators whose comment says *Mutant* are wrong versions of the definition
that follows them, kept beside it to show that the properties notice the
difference; no specification uses them.

### Marketplace

The chain runs calls one at a time, so a call is one action, taken by any
account. A call that reverts changes nothing; a call refused with a status
code only emits `FunctionStatus`. Both are therefore steps that change nothing
and their conditions are the guards of the action. Storage that was never
written or was deleted reads as zeroes, as in Solidity (`NoRequest`,
`NoOffer`, `NoPayment`). The variables have the names of the contract's; a
few more keep what it only tells the world and the properties need: the token
each request cost (`requestToken`), payer, payee and amount of each offer
(`escrowed`), the offers announced as fulfilled or claimable, and who was paid
(`cashedOut`).

The base contract comes from a package; it is modelled from how the code uses
it: identifiers start at 1, deciding closes a request in whatever stage it is
and may be repeated, deleting needs a closed request and one block of waiting
and removes the request and its offers only, and the owner manages the
managers.

Abstracted: an access token is the pair of its nonce and the account it was
issued to (the digest also binds function and contract, which are the same for
all), signed by an account; a payload is the list of its elements; keys are
words; a block's number is also its time.

### Pricing and RentQuotes

Sums and products are modulo `WordSize`, 2^256 in the contract. The raw arrays
are sequences of words, positions as in the code (shifted by one). `RentQuotes`
has only the acceptance of an extra, so that every accepted request, offer and
payment is a state to compare with the documented price and window.

### Escrow

An offer's money is `none`, `held`, `payable` or `refundable`, `paid`; a
deposit fixes payer, payee and amount; several offers are resolved at once; a
payout goes to the account that the verdict names among the two. `Marketplace`
implements it: `EscrowStateOf` reads the state of an offer's money from
`pendingPayments` and `cashedOut`, the vault is the contract's balance.

### InterledgerAgent

The asyncio loop gives atomicity: between two awaits nothing else runs. A
coroutine yields only where something is really awaited, that is between the
phases of `run` and while a listener sleeps: RPC calls and the wait for a
receipt block the whole loop. So `phase` is where `run` stands (`top`,
`receiving` when only the listener is awaited, `waiting` when a result is
awaited too, `acting` before send, process and clean-up), the listeners alive
are a function of their own, and a listener that has fetched but not yet read
the block number, or a transfer that waits for its receipt, are states in which
only the ledgers may move. `send_transfer`, `process_result` and `cleanup`
always run in one turn and are one action. A transfer is known by its nonce,
drawn in the order of the list. Faults are named by the constant `Faults` and
chosen per run: a listener's call fails, `send_data` raises, an answer is lost,
the process is interrupted or killed and started again.

The loop serves what is ready in the order it became ready: a scheduled answer
runs before `run` goes on or a listener wakes up (`LoopIsFree`), and the oldest
answer first. A listener keeps the filter it made before its sleep, and when it is
the only thing `run` awaits (`current`) its failure ends the process. `slipped`
keeps, to state the properties, the events that no filter to come looks for: those
mined between a fetch and the reading of the block number that becomes
`last_block`, and those not received when a new process starts.

The ledgers emit events in order, several per block, and mine transactions
whenever they like, also after the agent gave up on them. Event identifiers
are always 0 in this system and play no part.

### EventConsumer

The contract is reduced to what its events tell apart: the stage of a request,
and whether an offer is complete. Every call that emits an event the consumer
looks at is an action, and appends its events to the topic in order. Between
contract and topic stand a chain listener and a broker that are not in the
repository; the handlers, which look for an existing row before they write,
expect repeated messages, so a message may come again, later (`Repeat`).

The consumer joins no group: it listens from the end of the topic at every
start, and what its first `poll` returns is thrown away (`FirstPoll`).
`heardFrom` records what it missed that way. Each handler reads the contract
once and commits once, in the only thread that writes these tables, so it is one
action; a deleted request or offer reads as zeroes (`"blank"`). A handler that
raises ends the thread, which nothing starts again until the backend is
restarted. The database the code configures is an SQLite in memory: it enforces
no foreign key, so rows of offers do not need the row of their request, and it is
empty after a restart.

### Settlement

The composition of `Marketplace` with the agent, the proxy contract of the
authorisation ledger and whoever issues tokens there. The proxy stores nothing: it
announces and accepts what it is given, and passes on what it is told to send.
The agent is reduced to what `InterledgerAgent` shows of it: it is done with every
event in the end, by bringing it over (`ForwardDecision`, `DeliverReport`) or by
losing it (`LoseDecision`, `LoseReport`) when the event slips by, when its transfer is
refused, raises or is given up, or when the process ends with it in memory. Nobody
tries again, but a transaction given up may still be mined, which takes the loss
back. Events come late, in any order, and up to `MaxRepeats` times again, since a
listener that `run` left behind forwards an event a second time. The outcome of the call
on the other ledger goes back as a commit or an abort, whose bodies are empty in
both contracts, so it is not a step here. Users act through the actions of
`Marketplace` and owe nothing. The issuer is external: it issues a token for each
offer announced and reports them together.

### DemoClient

The demo runs on top of `Marketplace`: a call of the demo *is* that module's
action, its receipt is another step, and other clients, Interledger and blocks
move between any two. `step` names the call the entry is at. An entry that is
refused, cannot be sent or gets no receipt throws and leads back to the menu with
what it did so far left as it is. Entries of one call only print its receipt, so
they are one step. An interrupt or restart (`MaxSessions`) forgets the memory and
keeps the chain. Events reach the listener through `wire`, in order but later than
the call. What a user types comes from `RequestForms`, `OfferForms` and
`ListForms`. The validators compare dates with the clock and not with each other, so
a form may end before it starts: the number of minutes is then negative and becomes
its two's complement in the word that is sent (`AsWord`, the encoder of web3, which
is external and may refuse it, too, as any call may fail). The contract takes
such a rent when its wrapped end lies in the window. The list `unseenEvents`, the debug flag and everything printed are left
out. The ghosts `bought`, `unanswered`, `heard` and `opened` keep what the demo
does not, to state the properties.

### Calendar, Durations, Moments, MomentInput, MomentCalls

Operators translate the functions of the library one by one, with their names;
`MomentCalls` is a page that makes two moments and calls what changes them.
`Date` is external and is a number: days of the proleptic Gregorian calendar,
minutes since 1970, a local clock that `SummerTimes` changes, a constructor that
takes the years 0 to 99 for 1900 to 1999. Time is counted in minutes, so seconds
and milliseconds appear only as parts of a minute. A locale is its rule for
weeks. Moments are mutable, so every operator gives the moment as it is after the
call, and a moment keeps whether it is valid. What the regular expressions of the
parser read and the formatter writes, the texts of locales, eras and the
deprecated entries are left out; from a text only the fields it gives are taken.

## 3. The runs

| Run | Instance | Shows |
|---|---|---|
| `quotes` | 4-bit words, minutes of two seconds, up to two rules | rules read back as published; the documented price is paid at thresholds and above the last one; never less than the cheapest rule; a rent leaves its window only past the last word, although the ends compared wrap around |
| `price` | same | finding 1 |
| `ledger` | 3 offers, 2 accounts, 2 amounts | the abstract escrow is solvent |
| `escrow` | 1 request, 2 offers (auction or instant), 2 amounts, 2 decisions, 2 blocks, 3 accounts | solvency, the lists of open offers, whole resolutions, right party paid, exclusiveness of instant rents, keys in payloads, end of bidding, finality, and the refinement of `Escrow` |
| `two` | 2 requests, 2 auction offers, 2 accounts, every reset of tokens and change of roles | whatever asks for access tokens names one request; a token buys one request |
| `stranded` | as `escrow` | finding 2 |
| `agent` | 2 events, 2 blocks, 2 listeners, 3 transfers, 1 restart, all faults, fair loop | types, the pending counter, commits only after acceptance; `last_block` divides the events received from those to come; every event that does not slip by is received and its transfers are answered, unless a `send_data` before them raised |
| `consumer` | 1 request, 2 offers, 6 messages, 1 restart, repeats and raising handlers, fair thread | the database is never ahead; once it has read all messages it mirrors every request and offer it heard of; a decision shows unless the thread ends |
| `settlement` | 1 request, 2 offers, 2 decisions for either, both or none, 2 repetitions of events, any event lost, fair agent and issuer | no token and refund for one decision, no payment without a token; a decision that names a winner frees the money of all unless it or its reports are lost |
| `client` | 2 accounts at one node, 1 beside it, 1 request, 2 offers for dates that fit, are rounded past the request, or are reversed, 2 sessions | the demo's types; completed offers of a session can be read; tokens stay listed until opened; rents keep the dates typed |
| `script` | 1 account at the node, 1 beside it, 2 requests, 4 offers: `triggerInterledger` with its 3 offers, and a request, a bid and a decision of the other | the decision it ends with is acceptable, whatever happened meanwhile |
| `dates` | 28 inputs for one moment and 2 for the other, 2 week rules, local and UTC, central Europe 2019 to 2021, one call | input and setters read back, weeks are numbered, units order time, differences and durations are true, clocks are of their zone |

**Bounds.** `MaxRequests`, `MaxOffers`, `MaxDecisions`, `MaxBlock` and
`MaxSettled` end the runs; nothing in the contract depends on these numbers
beyond zero, one and many. Two offers on one request give a winner and a
loser, an instant rent beside a bid, and a deletion with money in it; two
requests with two offers give payloads and reports that mix them; two decisions
give a repeated one. Lists of offers have up to two elements, among them the
empty list, a list with a repetition and a list with an offer that does not
exist; with two requests, those of one offer and the one of both, which may mix
the requests. `MaxBlock` is 1 because deleting waits for one block. Four bits
overflow with one-digit inputs, which a large word would only hide. In
`quotes` requests of seven minutes from 5, and offers of as many from 5 or 6, end past the
last word. In `agent` two
events and two listeners (the one awaited and one left behind) give two transfers
under way at once, of different events or of the same one, a second event that comes
while the first is answered, and one that slips by beside one that does not; two
blocks let events be mined together or apart, at every moment of the loop. Three
transfers are the most that two events make in these blocks, so that bound never
stops the agent. In `consumer` six messages
hold the whole life of a request with one offer and a repetition of any message,
or two offers that compete; requests share nothing, so one is enough. In `settlement` two repetitions let a
decision and its report, or two decisions, come again (a listener and the one left
behind it), and two decisions may differ in their winners and reach the
other side in either order. In `client` two sessions are a restart; one block lets
a date pass between typing and calling, and the window of the request ends where an
offer rounded up to a minute leaves it. `script` needs three offers and leaves the
other client one more and a request of its own, so that its bid may come between
the test's and its decision before it (both were checked to happen); there is no
second session, since a restart only abandons the entry, and the constraint
`FailedEntriesEnd` ends a behaviour when the entry is back at the menu with its request
published and not decided: what the user does after a failed entry is left to `client`. In
`dates` one call is made from each of the initial pairs of moments (a moment after
two calls is as a moment made of other parts, which the inputs choose instead);
`MaxYears` keeps durations within the checker's integers. `agent`
explores 0.5 million states, `escrow` 0.5, `two` 1.2, `consumer` 0.6, `settlement`
0.9, `client` 1.3 and `script` 1.2 million, `quotes` 1,100 and `dates` 5,200. Symmetry is used
only where accounts are interchangeable and only in runs of safety properties.

That the lists of open offers and the right party hold with two requests is
proved for any number of them, so `two` does not check it again.

**Deadlock** is not checked: a marketplace where nobody wants anything any more,
a page without further calls, and bounded runs that used up their bounds, may stop.

**Fairness.** The contract's specification has none: no user is obliged to call
it. The agent's (`FairSpec`) is that of an asyncio loop, in three parts, each a strong
fairness, since other coroutines and blocks of the ledger come in between: a call to
a ledger returns, with a result or without, and one that is repeated does not fail
for ever (`CallReturns`; a wait for a receipt ends by the receipt or the timeout);
`run` goes on when what it waits for is there (`RunGoesOn`); and a sleep ends
(`FetchAgain`). That every event is done with is not assumed but the property
`EventsAreAnswered`. The ledgers owe nothing. The
consumer's thread is always ready while there is a message (weak fairness of
`FirstPoll` and `Consume`); nobody owes it an event or a restart. In
`FairSettlement` the agent is done with every decision and every report, by bringing
it over or by losing it (weak fairness of `DecisionHandled` and `ReportHandled`), and
the issuer answers (weak fairness of `IssueTokens`). That is all
`LastBlockDividesEvents` and `EventsAreAnswered` give: an event slips by or is
received, and a transfer that is answered may be answered with an abort. So
`DecisionsFreeTheMoney` promises the money only while neither the decision nor all its
reports are lost. Repetitions, late transactions and everything users do are owed by
nobody. The demo has no fairness: a user
may stay at the menu.

## 4. What is proved

For any number of accounts, requests, offers, amounts, inputs and bounds:

* `RentQuotesProofs`: `RulesReadBack`, `RentsPayByTheRules` and
  `RentsLeaveOnlyPastLastWord`,
  from the invariant that what the contract stored is what it makes of the array
  published (`PublishedInv`) and that the last offer was acceptable to it
  (`QuotesInv`). That the cheapest applicable rule is the documented one needs that
  thresholds increase along the rules, so that the first that is not too long is the
  least such position (by the well-foundedness of `<`). That a rent leaves its window
  only past the last word holds because the remainder of an end never exceeds the end
  (`EndOnCalendar`): the bound the contract compares with is at most the true end of
  the request, and the end of an offer is its true end unless it is past the last word.
* `EscrowProofs`: `Solvency`. `Total` is recursive, so that one amount changes
  it by as much cannot be shown by induction with the provers at hand. The
  inductive invariant (`Inv`) says instead that *some* running total over the
  held money ends in the vault (`Ledger`): a running total can be raised from
  one offer on (`RaisedTotal`), which is what a deposit or a payout does. Only
  at the end it is compared with `Total`: two running totals of one function
  agree, since the least offer where they differ cannot exist
  (`RunningTotalIsUnique`, from the well-foundedness of `<` on the naturals).
* `MarketplaceProofs`: `TypeCorrectness`. The types are not inductive alone:
  an offer must be open only if its extra is stored, and identifiers not yet
  given must read as zeroes (`StorageInv`).
  `OffersWait` and `Refinement`, from `IInv`, which adds
  to the storage that every offer with a payment has its two parties recorded as
  the offer's and request's makers as long as these exist, that an offer waits in
  the list of its own request exactly while its payment is unresolved, and that
  an offer not completed has no money. Every call then deposits, resolves, pays
  out, or leaves the money alone (a stuttering step). `Solvency` follows from the
  abstract theorem through the mapping.
* `MarketplaceVerdicts`: `RightParty` and `Finality`, from the invariant that the
  announcements of an offer agree with its payment and, once it is withdrawn,
  with the account paid (`VerdictsInv`).
  `WholeRequests`, `InstantRents`, `EndOfBidding`, `Payloads`,
  `PayloadsNameOneRequest`, `OffersStayAcceptable` and `TokensBuyOnce`, from `LedgerInv`: only a decided request has resolved offers, and a decided
  request is closed (`LifeInv`); the offers of a payload keep the
  keys they were completed with and are deleted together (`PayloadInv`, which
  needs that every step completes one offer of an open request or leaves offers
  alone unless it deletes their request, `StepGoesOn`); what an offer booked fits the
  extra of its request as long as both exist (`BookingInv`); the token of a request is among the
  used ones (`TokensInv`).
* `InterledgerAgentProofs`: `EventsAreDivided`, `PendingIsExact`, `CommitsAreAccepted`,
  `AgentTypeCorrectness`, from `AgentTypes`, `TransfersInv` (a nonce not drawn is
  unknown to all; a transfer not yet submitted is unknown to the destination; only
  accepted transfers are successes), `EventsInv` and the counter itself. `EventsInv` says
  why `last_block` divides the events: blocks grow with the events, a filter starts at
  most one block after `last_block`, and what a listener that fetched leaves out
  was received before or slipped by (`ListenerInv`); so it does not matter in which order
  the listeners end. The counter's step
  through `SendAndProcess` is the one that needs cardinalities: the responded
  transfers leave the set of sent ones, the ready ones join it, and the two are
  disjoint.

* `EventConsumerProofs`: `ConsumerTypeCorrectness` and `DatabaseNeverAhead`, from
  the invariant that every message of the topic is still true of the contract
  (`MessagesAreTrue`). It holds because the contract only moves forward
  (`ContractMovesOn`), and is why a late or repeated message does no harm.
  `RequestsMirrored` and `OffersMirrored` need the other direction too (`MirrorInv`):
  the topic tells every stage the contract reached, in the order it did (`TopicInv`),
  and a row is what the messages read since the start tell of it (`RowsInv`).

* `CompositionProofs`: that the demo uses the contract only as the contract allows,
  whatever it does (`ClientUsesMarketplace`: `ClientSpec => Spec`, each step of the
  menu, of an entry, of a receipt, of another client or of Interledger being a call
  or a stutter), so that `Solvent`, `RightPartyPaid` and `VerdictIsFinal` carry over
  (`ClientMoneyIsSafe`). `ClientTypeCorrectness` needs `ClientInv`: the call an entry
  is at tells which of its values are typed already. `TokensAreNotLost` follows
  from what is heard being either listed or opened. `OffersCanBeRead` needs that
  a completed offer keeps its maker while it exists (`DealsAreKept`) and that a
  receipt on its way is that of the call the entry is at. `RentsKeepTypedDates` follows
  from what the form says of the offer whose extra is being sent (`DatesInv`): whatever
  the order of the dates, the wrapped sum of start and wrapped minutes is the typed end
  rounded up (`TypedEnd`), and
  `TestDecisionsAreProper` from what the receipt awaited and the progress of the test
  say of the test's request and its offers (`TestInv`), which stay because only the
  maker of a request deletes it and the demo never does.
  The settlement uses the contract as it allows, too (`SettlementUsesMarketplace`,
  `SettlementMoneyIsSafe`), and `TokensAndMoney` holds from `SettlementInv`: every
  list that travels between the ledgers is that of a decision (`TravelInv`), and
  some function gives every offer its request even after both are deleted
  (`HomeInv`), by which decisions, open lists and refunds agree.
* `MomentProofs`: `daysInYear` and `daysInMonth` are the days that `Date` gives a
  year or a month (`YearsAreAsLongAsTheirDates`, `MonthsAreAsLongAsTheirDates`), for
  all years; for every rule of weeks, the first week starts on its day, the weeks of
  a year end where those of the next start, and a date found for a year, week and
  weekday is numbered with them (`WeeksStartOnTheirDay`, `WeeksFillTheYears`,
  `DaysAreNumberedByTheirWeek`, `WeekDatesLeadBack`), in the years 0 to 99, too,
  for which the constructor of `Date` gives another century: the code has it make a
  date 400 years later, and dates repeat after 400 years (`CycleOfDays`).
  `WeeksTold` carries this to moments in any zone: their days of the year are counted
  between local midnights, which are 23 to 25 hours apart, and rounding makes that
  count exact (`DayOfYearIs`).
  `DatesReadBack` says that a day found for a year, month and date has them.
  For whatever calls change them, moments and durations keep their types, only a
  moment not shown in local time has an offset of its own, and a duration shows what
  it keeps unless `abs` made it stale (`MomentsStayMoments`, from `CallsInv`).
  `DurationsTold` rests on what bubbling does to units, on an ISO text being read
  back, and, for the order in which a duration is said, on linear bounds of what
  `Rounded` makes of each unit. `ClocksAreOfTheirZone` holds because a change of the
  offset moves the time by as much as the offset (and, from local time, by what `Date`
  says); that summer time is seen
  exactly when the zone has it needs `WinterAssumption`.
  `UnitsInOrder`, `DatesSet`, `InputShown` and `DifferencesTold` are about zones in
  which no change of the clock touches midnight. Then every day has its midnight, whatever is skipped
  is shown an hour later on the same day, and a day has begun exactly when its
  midnight has passed (`MidnightsDivideDays`). The start of a unit and that of the
  next one are midnights or full hours, between them lie the moments of that unit and
  no others (`Piece`), and pieces of time are in order (`UnitsInOrder`). Every setter
  sets a date at a time of its own day, that of the moment or an hour more
  (`SetDateDay`, `AddDayIs`), so that the calendar's theorems say what is read back
  (`DatesSet`). A new moment is made at the first moment its parts are shown at, and
  until a call changes it (`NewIsMade`) it shows them, or those of the week date
  it was made of (`InputShown`).
  Differences need an order of moments that are shown alike: that of the months
  (`MonthIndex`) and their dates (`DatesOrderTime`), and on one day that of the clock,
  if the moment with the earlier clock time is the first that shows it
  (`FirstsOrderTime`).
  The difference in months is the number of months to the other's month, rounded
  towards zero by the side on which the anchor in that month lies (`MonthsToRounded`);
  what it is measured against, a month of another length, does not matter, since the
  anchors are always less than that apart (`MonthsToIs`). The anchor is before the
  other moment as its place in the month is (`AnchorIs`), which is the same whichever
  of the two months is counted from (`MonthsBetween`), and years are whole years of
  months, rounded twice (`FloorTwice`). So whole months, years, days and hours add
  back (`MonthsAddBack`, `DaysAddBack`, `HoursAddBack`), durations lead to the other
  moment with at most 31 days and an hour of rest (`PositiveDifference`), and days
  counted from midnight get their names (`DifferencesTold`).

Assumptions: `PricingAssumption`, `MarketplaceAssumption`, `EscrowAssumption`,
`AgentAssumption`, `ConsumerAssumption`, `ClientAssumption`,
`ClientInputsAssumption`, `SettlementAssumption`, `QuotesAssumption`,
`ZoneAssumption`, `CallsAssumption` and `WinterAssumption`. TLC evaluates them in every
run. Most of them say that bounds are natural numbers, inputs are of the right kind and
address zero calls nobody. Some say more:

* `ClientAssumption`: typed dates lie at least a minute before the last word (a `Date`
  ends some 10^13 seconds after 1970, a word counts to 2^256), other clients have
  accounts of their own, and test offers have a price. Nothing is assumed of the order
  of dates.
* `ClientInputsAssumption`: the inputs of the contract include what the forms become.
* `ZoneAssumption`: a zone has one standard offset, and a summer time lasts longer than
  the hour it adds.
* `WinterAssumption`: a year with a summer time has a January or a June without.
  `isDaylightSavingTime` takes it for granted (it compares with January and June of the
  same year); it holds on both hemispheres, and the run `dates` evaluates it for central
  Europe.

`UnitsInOrder`, `DatesSet`, `InputShown` and `DifferencesTold` suppose
`ClockChangesWithinDays` of the zone, as a hypothesis and not as an assumption on the constants, because
the code does not promise it and the other theorems do not need it: it holds in
central Europe, where clocks are changed at 2:00 and 3:00 (`MCMomentCalls` evaluates it
for the zone of the run), but not where midnight is skipped (Sao Paulo until 2019) or the
hour before it (Nuuk), so that 24:00 becomes 1:00 of the next day and a day does not
start at midnight.

Every safety property that a run finds to hold is proved. Only model-checked: all of
liveness, which is out of the prover's reach: `EventsAreAnswered`, `DecisionIsShown`
and `DecisionsFreeTheMoney`. So are ENABLED, induction over data by the library's
induction theorems, and anything with a RECURSIVE operator (no module has one).

## 5. Findings

Each has a run that shows it.

1. An instant rent between two thresholds pays the upper rule's price, the
   documentation the lower's (`SMAUGMarketplace.sol:522`, 30-34; run `price`).
2. Deleting a request strands the money of its offers: nobody may withdraw it
   (`AbstractAuthorisedOwnerManageableMarketPlace.sol:182`,
   `SMAUGMarketplace.sol:747`, 61; run `stranded`).

Met while modelling, without a run of their own.

In the contract (`om-smart-contracts/contracts`):

* `decideRequest` accepts a request that is decided already
  (`SMAUGMarketplace.sol:258`, against its comment at 246). With other winners, a
  renter may get a token and the money back: the exception in
  `TokensAreWorthTheirMoney`.
* A decision that names nobody cannot be reported, because an empty report is
  rejected (595); it frees no money, hence the condition of `DecisionsFreeTheMoney`.
  A report that arrives after the request was deleted is rejected as well.
* The end of a rent is computed without an overflow check (451, against 52), so an
  offer whose end runs past the last word is accepted if the wrapped end lies before
  that of the request: the exception in `RentLeavesWindowOnlyPastLastWord`.
* A nonce is compared only together with the account, since the digest that is
  recorded binds both, while the comment speaks of the nonce
  (`abstract/AbstractAuthorisedOwnerManageableMarketPlace.sol:85`, 67).

In the agent (`il-agent/src/data_transfer`):

* A listener left behind by `run` and its successor both receive an event, so it is
  sent twice in ordinary operation (`interledger.py:62`, `ethereum.py:69`). The
  contract tolerates it: `VerdictIsFinal`, and `settlement` brings every event twice.
* An event mined between the fetch and the reading of the block number is lost
  (`ethereum.py:75`, `interledger.py:52`), and with it, on the marketplace's side,
  the resolution of a request.
* If `send_data` raises, the transfer and those behind it stay unanswered and `run`
  spins, leaving a listener behind each time (`interledger.py:119`): the exception in
  `EventsAreAnswered`. Those before it are answered, and events are still received.
* A transfer that is refused or gets no receipt in time is aborted and not tried
  again (`interledger.py:144`); the abort has an empty body on the marketplace, so the
  money of a decision lost this way waits for another decision: the exception in
  `DecisionsFreeTheMoney`.
* The docstring of `receive_transfer` says it blocks until there is a transfer, but
  it returns after one empty second.

In the backend: a repeated `OfferExtraAdded` overwrites the details of an offer with
zeroes once its request is deleted, while the details of a request are kept; the end
time of an offer is decoded with the words swapped in `models/marketplaceOff.py`
and not in `models/marketplaceReq.py`; and `request.py` sends a duration in seconds
where the contract and the demo count minutes.

In the demo (`om-smart-contracts/demo/src`):

* The events of the contract are everybody's: a fulfilled offer of another client
  has no key pair here and the entry that opens tokens ends with a `TypeError`
  (`main.ts:791`), before the list is cleaned (807); the tokens after it stay unread, and
  so does every later one, since the entry stops at the same token each time.
* What `requestExtra.concat` returns is discarded (480), and
  `encodeRulesToSolidityArray` appends the names of its variables as texts
  (`utils.ts:117`): requests of the demo have no rules.
* The validators check that dates are not past, but not that an end is after its
  start (557-571): such a rent is sent with a huge number of minutes, and the contract
  takes it if the wrapped end lies in the window, hence the condition in
  `RentKeepsTypedDates`. A comment gives 14400 minutes as three days (`main.ts:335`).

In the date library (`om-backend/project/static/moment.js`):

* `local(true)` uses the offset of the wrong instant near a change of the clock
  (3363); setting the week year moves the weekday in locales whose week does not
  start on Sunday; `abs()` of a duration leaves the days it shows signed (5170), which
  is why `DurationsShowWhatTheyKeep` excepts what is `stale`; calendar time
  names a day wrongly after a day whose midnight was skipped; months of
  a difference fail to add back only at month ends and where one of the two clock
  times is skipped or comes twice.

## 6. Not modelled, and the plan

Not modelled: survey statistics (probability), IAA and semantic validation
(stateless I/O and cryptography), the ERC721 contract (a library), the KSI and
state-transfer variants of the agent (no configuration selects them), the pages of the
backend, its routes and registrations (one query or HTTP call each, on an ORM and
services that are not here), issuing of tokens at the PDS, and parsing, formatting
and locales of the date library (texts).

Modelled in this order: `Pricing` and `RentQuotes`; `Escrow` and `Marketplace`;
`InterledgerAgent`; `EventConsumer`; `Settlement`; `DemoClient`; the modules of the
date library; each with its theorems. What is left, most useful first:

1. *The payload codec* with the byte utilities: what `interledgerReceive` slices
   is what `emitRequestDecisionInterledgerEvent` wrote.
2. *Owners, lockers and authorisation*: registration in two stores, names checked
   and then inserted, challenges and tokens of the PDS.
3. *The agent inside the settlement*, with its coroutines, instead of its reduction.
