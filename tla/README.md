# R_Management in TLA+

R_Management is a rental marketplace: people ask for a listing for a window of
time, pay by card, and owners are paid after the rental. A web app (also packed
for phones) talks through a gateway to a handful of Python services that share no
database and tell each other of changes by events. This directory holds TLA+
models of the places where several actors meet: a booking, its money, the
events between services, and the app's pages, which act on what they read some
time ago while answers get lost, tabs sign out and staff decide. TLC runs check
small instances; TLAPS proves the most important properties for all.

`src/` below is the repository. Paths without it are under `backend/services/`
or `web/src/`.

## 1. The system

| Component | State it keeps | Operations | Talks to |
| --- | --- | --- | --- |
| **booking: lifecycle** (`booking/booking/state.py`, `routes.py`, `repository.py`, `handlers.py`, `jobs.py`, `cancellation.py`) | the bookings table, the suspended, the verified, the blocks | create and extend, the seven actions of the two sides, two sweeps, handlers for card results, removed listings, suspended and reinstated people | matching (call, before the insert), payments (call, after it; events both ways), catalog (events) |
| **booking: disputes and claims** (`support.py`) | disputes, offers, resolutions, claims, audit | offer, agree, escalate, resolve with four-eyes approval, claim a late return | the lifecycle, by `settle` |
| **booking: reviews** (`routes.py`, `repository.py`, `jobs.py`) | the outcome and the renter's rating on the row | rate, rate the renter, publish both or at the end of the window | catalog (events) |
| **booking: messages and evidence** (`messages.py`, `inbox.py`) | messages, read marks, blocks, hand-over photos | send, mask contact details, block, keep photos | notifications (events), catalog (call) |
| **payments: settlement** (`payments/payments/handlers.py`, `routes.py`, `jobs.py`, `provider.py`) | one row per booking: status, amounts, hold, kept payout, what is owed | create an intent, Stripe's webhooks, capture, cancel, refund, pay out, reconcile, chargebacks | Stripe (calls and webhooks), booking (events both ways) |
| **payments: invoices, identity** | invoices and their number series; identity checks, connected accounts | issue, render; start and follow a check | Stripe |
| **catalog** (`catalog/catalog/routes.py`, `repository.py`, `moderation.py`, `jobs.py`, `handlers.py`) | listings with their windows and schedule, profiles, uploads, reports, decisions | publish, edit, roll the schedule on, keep and sweep uploads, hold, approve, report, take down, suspend, reinstate | events to booking, matching, notifications |
| **events** (`backend/libs/cappy_common/cappy_common/events.py`) | outbox and processed tables of every service | relay, consume, dispatch, prune | SNS, SQS |
| **guard, auth, idempotency** (`cappy_common`) | revoked sessions, rate hits, stored answers | revoke, count, replay an answer | every service |
| **gateway** | in-flight counts | proxy with timeouts and a bulkhead | every service |
| **matching** | a projection of listings and busy windows | offer a window, rank | catalog, booking |
| **notifications** | notices, preferences, devices | tell, mark read, register a phone, mail and push | consumes events, deletes sign-ins |
| **web: account and session** (`data/auth.ts`, `cognito.ts`, `repo.ts`; `Login`, `Onboarding`, `Profile`, `App`) | tokens of a tab, three keys of the browser's storage, the sign-in form | sign up, in and out, refresh, follow other tabs, delete the account, two-step sign-in of staff | Cognito, every service |
| **web: pages of a booking and its money** (`BookingDetail`, `BookingExtras`, `Evidence`, `PayStep`, `Conversation`, `AdminCases`, `Bookings`) | copies of what was read, one command under way, sheets | every action of the two sides and of staff | booking, payments |
| **web: pages of a listing** (`Listing`, `AddListing`, `Earn`, `Admin`, `Browse`, `Reviews`) | the search, a chosen window, a form with pictures, cached answers | search, request, edit, pause, remove, moderate | catalog, matching, booking |
| **web: around them** (`ui.tsx`, `sheets.ts`, `native.ts`, `Notifications`, `PushPrime`) | open sheets, the unread count, the phone's token | open, close, mark read, register | notifications |
| **infrastructure** | | Terraform and scripts | |

### What is hard, and what makes each part correct

* **Creating a booking is six steps in six sessions.** `create` looks up the
  key, counts what the caller has open, asks matching, checks the caller's
  standing, inserts under a lock and two constraints, and asks payments after the
  commit. Everybody else may act in between. Correct means: nobody's window is
  sold twice and one key makes one booking.
* **A booking is moved by two people, two sweeps and six kinds of event.**
  Correct means: an ended booking stays ended, a deadline exists exactly while
  somebody is waited for, a late answer does not count, extensions end with their
  booking and with the right money, a charged booking is never merely released,
  and no wait is for ever.
* **The money of a booking has three records:** booking's row, payments' row,
  and Stripe. Handlers call Stripe before they commit, events come in any order
  and more than once, a card dispute may begin at any time. Correct means:
  conserved, moved once, only for a booking that went ahead, as booking said, not
  to the owner while the bank disputes it, and told as it is on every page.
* **Delivery.** Relays of several replicas, a bus that duplicates, workers that
  die. Correct means: nothing lost after its commit, handlers effective once.
* **Several people decide one thing** (a dispute, a claim, a report, a held
  listing), each from a page read before. Correct means: one decision, by those
  who may, of what they saw.
* **A page sends what may have been done already.** Answers are lost, the form is
  edited and sent again. Correct means: a second copy only after a definite
  refusal, and nothing called done that is not.
* **A page shows what was true.** Correct means: what it offers is taken, what it
  says happened did, the price it shows is the price held, an account's data is
  never on another's screen, and what happened elsewhere arrives in the end.
* **Steps that are one for the person and several for the machine:** saving a
  schedule, keeping photos beside the sweep that deletes unused ones, two reviews
  that must come out together. Correct means: no state in between that lasts.

`PROJECT.json` lists these hazards line by line, with the properties that catch
each, and says of the ones no property covers why.

## 2. The modules

```
Lifecycle ─┬─ Booking ──(implements)── Calendar     Outbox ──(implements)── Delivery
           │    ├─ MCBooking                          ├─ MCOutbox
           │    └─ BookingProofs                      └─ OutboxProofs
           ├─ Settlement ─ Statement ─┬─ MCSettlement
           │                          └─ SettlementProofs
           └─ BookingPage ┐                         Session ─┬─ MCSession
               Checkout ──┼─ MCPages ─ PagesProofs           └─ SessionProofs
               Market ────┘
  Dispute, Claims, Attempt, Photos, Listings,
  ListingForm, Sheets, Browse ─ MCDesk ─ RequestProofs ─ DeskProofs
  Reviews, Conversation, Account, Devices, Totp, Bell ─ MCScreens ─ ScreensProofs
```

| Module | What it models | Correspondence |
| --- | --- | --- |
| `Lifecycle` | `state.py`: statuses, who may do what from where | tables as records; `CanAct` is `next_status`, `Applies` is `system_status` |
| `Booking` | the booking service's rows and every step that moves one | one action per session of `create`, one for `_transition`, one per sweep and handler; two for `on_authorised`, which reads the row before it locks it |
| `Calendar` | what the service promises about time: a slot is taken when free, then used or released | abstract; `CalendarKept` is the refinement, `SoldAs` the mapping |
| `Settlement` | the money of one booking, and who says what about it | one action per branch of `on_status_changed`, per webhook, per transaction of `create_intent` |
| `Statement` | what the pages say of that money: the lists and sums from booking's row, the page of a booking from payments' | operators over Settlement's state, one per line of text that depends on it |
| `Outbox` | table, relays, bus, queue, dead letters, workers, ledger | one action per step of `OutboxRelay._once`, `SnsPublisher.publish`, `SqsConsumer._one`, `Dispatcher._handle` |
| `Delivery` | what that promises: after the commit, once | abstract; `AppliedOnce` is the refinement |
| `Session` | the tabs of one browser: storage, tokens, refreshes, storage events, calls answered 401 | one action per `await` of `auth.ts` and `send` |
| `Attempt` | a form with an idempotency key, and the server's row of it | `keyFor`, `settle`; `replayed` and `remember` in the transaction of the thing made |
| `Market` | a listing with its holds, its owner on Earn, staff in the console | any number of edits under way, each in two steps (it reads the row unlocked and writes by what it read), the job that holds for the place likewise; one action per handler and per read of a page |
| `BookingPage` | the page of a booking as one side sees it, with a copy read before | each button, its sheet, its command and the answer; the server's rules from `Lifecycle` |
| `Checkout` | choosing a window and sending the request | cached quotes and starts, the offer tapped with the end it had, the confirm sheet, the key, the ID check, the card step |
| `Dispute` | offers, agreement, staff's proposals and approvals, escalation | one action per handler of `support.py` and per read of the two pages |
| `Claims` | a claim of a late return | filing, repeating, deciding by two of staff, what each is told |
| `Photos` | hand-over photos from the sheet to the evidence, beside the sweep of unused files | each request of the save, each transaction of catalog, the sweep in three steps |
| `Listings` | the windows of a listing: schedule, the job that rolls it, the form that edits both | the requests of a save one by one |
| `ListingForm` | the form up to its answer: errors, pictures going up, the draft | `validate`, `touched`, `addPhotos`, `patchPhoto` |
| `Sheets` | sheets over one page: scroll lock, focus, the stack | the effects of `Sheet` in the order React runs them |
| `Browse` | the search, its address, the history, each account's home district | the two effects of the search page, each with the values of its render |
| `Reviews` | two reviews of a booking, blind, and the catalog's copy of them | the transactions of both ratings, the sweep, catalog's handlers, the pages |
| `Conversation` | a thread, polled apart from its booking | masking by status, closing, blocking, the key of a message |
| `Account` | sign-up, sign-in, reset, onboarding, deletion | the steps of `Login.tsx` over Cognito's answers |
| `Devices` | the token of one phone and the accounts on it | registration, sign-out and its answers, errors included, the server's row, sign-outs elsewhere |
| `Totp` | staff turning on two-step sign-in in several tabs | Cognito's three calls, the server's cache of who has it |
| `Bell` | the unread count and the page that marks | polling, the timer, the marks and their failures |

**State of `Booking`.** `row` is the table (status, created, expires, refund, who
did not show). A booking is named by the request that inserted it; what is fixed
at creation is read from that request's `Body`. `pc` and `got` are a running
`create`: where it is, and the row it holds in memory. `inbox` is booking's
queue, a set: events are applied once, in any order (`Outbox` shows why once is
right). `seen` is the status `on_authorised` read before the lock. `pay`,
`banned` and `live` are payments and the catalog, as booking can tell.

**State of `Settlement`.** `status` and `refund` are booking's row; `queue` the
status changes payments has not handled; `inbox` payments' answers; `asks` the
calls of `create_intent` under way; `row` payments' row; `stripe` what Stripe has:
the intent, and the money that really moved. `Ends` gives every handler its two
endings: the commit, or a crash after the call to Stripe, which leaves the event
on the queue. `Sent` and `GivenBack` are Stripe's side of a repeat: the first
transfer or refund made is the only one (`provider.py` looks for it, or sends a
key).

**State of `Outbox`.** Events are numbers, the order of `created_at`; `relay` is
what each replica's relay holds (the rows its open transaction locked); `copies`
and `receives` are the queue's messages; `worker` what each consumer task does;
`processed` and `applied` the ledger and the handlers' own writes.

**State of the app's modules.** Each has three layers: the server's rows; what is
on its way (requests and answers, as sets or sequences, so that they cross, get
lost and come late); and the page, which holds copies (`seen`, `page`, `desk`,
`view`, `quotes`) that only a read renews. A command is taken by the rules of the
server's state, and offered by the rules of the copy.

Where a component is used by several modules, each takes what it needs: Booking
asks payments and matching as far as booking can tell, `BookingPage` has
`Lifecycle`'s rules without `Booking`'s requests. `MCDesk`, `MCPages` and
`MCScreens` put machines that share nothing side by side in one run: the first
state says which of them moves (`focus`). They EXTEND one machine, whose names
they keep, and instantiate the others.

A definition whose comment begins "Wrong on purpose" is no part of a
specification: it is a plausible mistake, kept to show that the property named
after it in `PROJECT.json` notices. Properties that no run checks stand in the
modules, too. They are of two kinds: true of the module run alone
(`PageCatchesUp`, `ShowsWhatIsChosen`, `OverdueGoesToStaff`, `OrphansGo`,
`RollsOn`, `UploadsEnd`, `PageComesToRest`, `FormComesToRest`), left out of the
runs for their length; and sentences of the repository that TLC refuted, listed
in section 5.

## 3. What the runs check

All bounds are constants given in the `.cfg` of the same name.

| Run | Instance | Shows |
| --- | --- | --- |
| `BookingRace` | two renters, overlapping windows of a listing that asks its owner, moderate policy, clock to 5 | `NoDoubleBooking`, `CardHeldFirst`, `DeadlinesHold`, `RefundSaysCharged`; `OnlyLateHoldRevives`: an ended booking comes back only by a late hold; `LapsedIsNotAnswered`; `CalendarKept`: `Calendar` is implemented |
| `BookingModeration` | one request twice under one key, of a listing booked instantly that staff may take down, its renter suspended and reinstated, blocks, clock to 1 | `OneBookingPerKey`; `ChargedIsNotJustReleased` |
| `BookingExtension` | a booking and its extension, strict policy, clock to 4, fair | `EndingSettlesAll`: an ending ends the extensions it finds, each with its own money; `NothingIsLeftOpen` |
| `SettleMoney` | price 3, owner's share 2, crashes, pauses, disputes, a debt of 1, fair | `MoneyConserved`, `NoPayoutUnderDispute`; `HalfDoneIsFinished`: what Stripe moved and the row does not show is still to be handled, with the amount moved; `MoneyFollowsBooking`: only what went ahead is charged, and settled as booked; `PagesTellTheMoney`; `EveryEventHandled` |
| `OutboxDelivers` | two relays, two workers, two events, one fault, fair | `ClaimsAreApart`, `SentIsSomewhere`; `AppliedOnce`: `Delivery` is implemented; `EveryEventArrives` |
| `SessionTabs` | two tabs, two accounts, two tokens, two acts of the person, fair | `ScreenFollowsAccount`; `TabsFollow`: all agree in the end |
| `Pages` | price 2, six moments around the rental, two lengths of a booking, two rates, two calls; two different readings of a row under edit | `PagesTyped`; `PageTellsTheTruth`: what a booking's page offers is taken and what it calls done was; `HeldAsShown`: what is held is as long as the price shown was for; `DownForGood`: what is down stays down and what comes on was looked at, but for edits that crossed |
| `Desk` | two texts, three keys; schedules over two days; two files; two pictures; two clerks; three sheets; two home districts; one of support and one lead, each with a limit of half the price | `DeskTyped`, `TwiceOnlyAfterRefusal`, `OneClaim`, `OneDecision`, `ScreenSettles`, `SavedMeansRemoved`, `NotSweptInUse`, `GoneStaysGone` |
| `Screens` | pages of two messages, two accounts (one of staff with two-step sign-in), two tabs, two notices, two marks, fair | `ScreensTyped`, `ClosedForGood`, `OnlyTheirs`, `WrittenBlind`, `NobodyWaits` |
| `BookingRevived`, `SettleUncharged`, `PhotosSwept` | small instances of the above | each a sentence of the repository that the code does not keep: section 5 |

**Why these bounds are enough to be interesting.** A race for a window takes two
requests; a third adds no kind of step. The clock lets each deadline lie before,
at and after each other: the card's (1), the answer's (2), the start (2 or 3),
the end, the auto-completion one later. A price of 3 with a share of 2 is the
smallest where a part refund is rounded. Two events, a batch of two and a chunk of
one is the smallest publication that can fail half-way. `MaxAttempts` 2 with one
fault lets a row fail and recover. `MaxCopies` 2 tells one copy from several. Two
tabs are one that acts and one that follows; two tokens, the one that was rotated
away and the one that replaced it. Three keys let a text be sent, sent unchanged
after a lost answer, changed, and sent anew. Two posts of a hand-over are the save
and its retry. Three sheets are the fewest with one between two others. Two acts of
the person on the search page let one come while the other's effects still run. Two
clerks read one claim before either decides it. Two notices and two marks let a
mark be overtaken. Two different readings of a row let an edit write by one that
another edit made stale; edits that read the same are one reading, which may be
written any number of times. But for the liveness properties, every property in
the table is proved for all values of the bounds (section 4). That is proved of the
models: what a model or a property leaves out, no theorem covers. Where a property
has exceptions they are in its statement, as variables that record when they apply:
`clash` in `Market` (two edits crossed), `loose` in `Devices` (a leaving cut short),
`revived` in `Settlement` (a booking that ended twice).

In `MCPages` two parts of `Market` move apart, the edits without sheets and
renters' requests, and the rest without edits; and in `Checkout` either the owner
reprices or others book. `PagesProofs` uses neither restriction: `OffTheMarket` is
of `Market`'s own specification, and the invariant behind `HeldIsShown` is kept by
every step of `Checkout`'s own.

`CHECK_DEADLOCK FALSE` everywhere: a system whose bookings have all ended, whose
clock has reached its bound and whose queues are empty has stopped, rightly. No
run takes longer than about three minutes.

**Fairness.** Only what the code keeps running is fair.

* The clock and the sweeps (`jobs.sweep` runs for ever under the task supervisor;
  `SKIP LOCKED` may skip a row but not always), the relays and consumers (`run` and
  `_poll` loop and survive their exceptions; the queue hands no message out for
  ever while it passes over another, which is strong fairness of `Receive`),
  `reconcile`, and the end of a started `create_intent`. In `Settlement` the
  fairness of a handler is that of its committing ending: crashes may happen, but
  not every time. In `Outbox` failures come from the budget `MaxFaults`, and
  `Redrive` is fair: a person answers the dead-letter alarm, as the runbook asks.
* In `Session`, of each tab: its refresh, its own steps (reading storage, hearing
  storage events), the calls under way and the sign-out under way. The browser
  runs the callbacks of a page that is open, and `fetch` ends by its timeout.
* In `MCScreens`, `Sure(i)`: the polls of the thread and of a booking still only
  requested (`Conversation`), the answers of the sign-in form, the page left after a
  deletion and the services' handling of it (`Account`), a registration under way
  and its landing (`Devices`), the cache that runs out, the answers of each
  tab (`Totp`), poll, read, timer, marks and their ends (`Bell`), the sweep, the close
  of the review window and catalog's hearing of what was published (`Reviews`; that
  the event arrives is `OutboxDelivers`). One machine moves in a run, so that a
  condition shared by several asks of each what it would ask alone.

No fairness is given to a person, the bank, or Stripe's card form.

## 4. What is proved

TLAPS proves for every value of the constants what the runs show for small ones.
Every safety property of a passing run, state or action, is a theorem, and so are
both refinements. `PROJECT.json`, "theorems", lists them.

### The services

* `BookingProofs` rests on `IInv`: `TypeOK` and the three invariants of
  `NeverDoubleBooked`, `DeadlinesCorrect` and `HeldBeforeAsked`; `FreshRow` (a
  request that has not inserted has no row, and the row a handler holds exists:
  without it the insert could overwrite a booking that lived and ended); and
  `CardInv` (a card result on the queue, or being handled, belongs to a card that
  payments holds: without it `CardHeldFirst` could be broken by a result nobody
  announced). No two bookings share a window because every step that makes one
  hold a window (`Insert`, `OnAuthorised`) tests the constraint in that step; all
  others leave `HOLDING` or stay in it. `KeyedOnce` needs only what the insert
  looks at. `RefundsSayCharged` adds `RefundInv`: a row that says anything of a
  refund has ended, after its card was held and with no result of it still to come.
  `ChargedStands`, `NotAnsweredLate`, `EndedIsFinal` and `EndingsSettle` are action
  properties from `IInv`; `KeepsCalendar` is the refinement.
* `SettlementProofs` has two invariants. `MoneyInv` says that, of a booking that
  ended once, every ending still on the queue is its last word with its refund
  (`LastWord`), a payout kept back is that of a completion without refund
  (`HeldWord`), and what moved is at most what that word says (`MovedWord`). Hence a
  repeat finds the same refund and the same part, and the rounded part of the rest
  is at most the rest (a lemma about `\div`, for all prices and shares).
  `HalfDoneFinishes` adds `PartInv`: a refund recorded has the owner's part of that
  very refund beside it; and it takes from `MoneyInv` and `Orders` that what moved
  without the row's knowing has its event still on the queue, or the payout kept.
  `MoneyFollows` and `PagesTellTheTruth` need the order of announcements:
  `ChargeInv` and `HoldInv` tie what payments has heard to what booking did,
  `Orders` says that what is still to be heard is on its way (of an acceptance its
  event, its charge or its refusal; of an ending the event that settles it), and
  `Moved` that each movement is none of what is owed or all of it.
* `OutboxProofs`: `OutboxInv` adds to the types that what a relay no longer has to
  send has reached the queue or beyond (`RelaysHold`), that queue, dead letters and
  ledger hold only committed events, that a worker handles an unhandled event alone
  and deletes only a handled one (`WorkersHold`), and that the ledger tells exactly
  what was applied (`LedgerTells`).

### The app

Each of `MCPages`, `MCDesk` and `MCScreens` has a theorem that it implements each of
its machines (`ThePages`, `TheDesk`, `TheScreens`: a step of it is, seen from any, a
step of that machine or none), so that what is proved of a machine holds of the
whole; `PagesAreTyped`, `DeskIsTyped` and `ScreensAreTyped` join the machines' types.

* `SessionProofs` (`ScreensFollow`): what a tab shows is nobody, who is signed in,
  or is about to be corrected — the last event the tab has still to hear names who
  is signed in (`Follows`); and a refresh that brought tokens was sent with one that
  was issued (`Tokens`).
* `PagesProofs`. `Market` (`OffTheMarket`): a dear listing that nothing holds was
  looked at, paused or not (`LookedInv`). Any number of edits is under way, and an
  edit that reads a hold and writes onto another price, or onto a check that was
  lifted, sets `clash`, which the property excepts; all other orders of edits, the
  job and staff keep it. `BookingPage` (`PageIsTold`): an
  answer on its way, and the one said last, were given for what no later step undoes
  (`TrueAnswers`), and a booking nobody answered has lapsed by its booked time.
  `Checkout` (`HeldIsShown`): what the page shows of a quote it was once answered, as
  was the quote for the length of an offer tapped (`ShownWasQuoted`); and a body whose
  window is as long as the hours picked was shown with the quote for them
  (`SentAsShown`). The other bodies, an offer tapped for another duration among them,
  the server refuses (`Priced`).
* `RequestProofs`. `Dispute` (`DecidedOnceAsItMust`): only staff propose what waits,
  and one offer is on the table at most; its hypotheses `Sizes` and `Apart` (amounts
  are naturals, the two sides are not of staff) are what `MCDesk`'s assumptions give,
  and `DeskDecides` discharges them. `Claims`: rows and notices tell one story
  (`Story`), and who was told of a decision was told what is recorded (`Told`).
  `Attempt`: texts of one wish that was not refused go out under one key (`OneKey`),
  a key has one body (`OneBody`) and one row (`OneRow`), and while an answer is
  awaited it is that of the last key (`Awaited`). `Listings`: what is still to be
  taken away is on its way, and once all of it went nothing of it is there
  (`TakenGoes`). `Photos`: a file the sweep has locked is unused, and the save is
  of the last post (`Along`, `KeyOfLast`).
* `DeskProofs`. `Browse`: the address and the search agree, or one of three things
  is under way — no effect has run yet (`Arriving`), another address was asked for and
  the search has not changed since (`Leading`), or the address is what the effects
  wrote last and the search what was asked for (`Following`). `Sheets`: each sheet
  but the lowest found the scrolling locked and the focus in the one below it, as
  long as they closed in order (`BottomSheet`, `AboveSheet`, `TopSheet`).
  `ListingForm`: the keys of the pictures in the grid are distinct and none is one
  of those taken out (`PictureGrid`, `TakenOut`); a posted picture is there. From
  these `DeskSettles` and `DeskKeepsGone`.
* `ScreensProofs`. `Reviews` (`Blind`): nobody knows the other's before both are out
  (`OutInv`, `BlindInv`; `PostsInv` is the pages' part of the types). `Conversation`: only the two statuses without messages close it,
  and nothing comes after them (`ShutForGood`). `Account`: whatever was sent from a
  form leads where one wanted to go (`LeadsBack`). `Devices`: the phone's row, and
  each registration on its way, is of who is signed in or of somebody whose
  leaving was cut short, by an error for an answer as by none (`LooseOrTheirs`). `Totp`: a code on its way is of a secret the app has
  (`CodesAreHeld`). `Bell`: types and `AnswersCount`.

**Assumptions used:** the named `ASSUME`s, which TLC evaluates in every run: amounts
and lengths are naturals, the price is positive (even, where halves of it are
shown), an owner's share is part of the price, an extension begins where its booking
ends and is asked by the same renter, bounds are positive, schedules are of days,
files are finitely many, support's limit is at most the leads', and nobody is two
of: a side, support, lead; the account "nobody" is none.

**Only model-checked:** the liveness properties `NothingIsLeftOpen`,
`EveryEventHandled`, `EveryEventArrives`, `TabsFollow` and `NobodyWaits`. They need
fairness, that is `ENABLED`, which is out of the prover's reach.

## 5. Where the code and the documents differ

Each run below checks one sentence of the repository, and TLC's trace is a way
the code does not do what it says. `PROJECT.json`, "findings", quotes them.

| Run | The sentence | What happens |
| --- | --- | --- |
| `BookingRevived` | a late authorisation does not revive a cancelled booking | `on_authorised` loads the row without a lock and then locks it with a `get` that does not refresh it |
| `SettleUncharged` | a no-show leaves the price taken | `cancelled` handled before `accepted` |
| `PhotosSwept` | kept evidence is never swept as unused (`catalog/routes.py:902`) | `keep_evidence` reads whose the files are, the sweep deletes them, `mark_used` finds none: 204, and nothing kept |

These sentences stand in the modules as operators no run checks. TLC refutes each:

| Module | Operator | The sentence |
| --- | --- | --- |
| `Settlement` | `DeclinedIsOff` | after a declined capture the booking is off: not once it has started, then it goes on unpaid |
| | `WonDisputeHoldsNothing` | out-of-order webhooks are harmless: a dispute opened after it was won holds the payout for ever |
| | `DebtTakenFirst` | what is owed is taken from the next payout: not from the owner's part of a cancellation |
| `Outbox` | `OnlyRefusedSetAside` | a row that keeps failing is set aside: so is the good one in its batch |
| `Statement` | `ReleasedIsReleased` | "Nothing: hold released" (`BookingDetail.tsx:811`, `docs/FEATURES.md:868`): it may still be held |
| `Market` | `ApprovedIsLive`, `ResumedIsLive`, `PausedIsTheirs` | approving puts it live (`Admin.tsx:412`), resuming makes it live (`Earn.tsx:462`), and any time: not what something else holds |
| | `DearWaits` | "it waits for a staff check like one" (`catalog/routes.py:697-698`): not when two edits overlap, the later one having read a hold |
| | `NoneAcceptedDown` | nobody accepts a request on a listing taken down (`moderation.py:311`): until booking hears of it |
| `BookingPage` | `CancelAsShown` | what cancelling now would refund (`repo.ts:641`): it was read before |
| `Checkout` | `PaysForSelected` | a new window is a new attempt (`Listing.tsx:194`): the card step of the one before comes back |
| `Dispute` | `ApprovedWithinLimits` | someone else, whose limit covers the refund (`support.py`) |
| `Photos` | `SavedOnce` | every create takes its key (`docs/FEATURES.md`): the server ignores this one's |
| `Attempt` | `OncePerWish` | a retry gets the first answer back: not when one copy is refused while another, still on its way, is made |
| `Listings` | `OnlyRemovedGo`, `StoppedIsGone` | the windows listed stay unless removed; a schedule's go when it is stopped |
| `Conversation` | `ThreadNewest` | the newest hundred (`repo.ts:831`): the server answers the oldest |
| | `ReadDropsDot` | reading drops the dot: messages read later than the mark stay unread |
| `Bell` | `OpeningMarks` | opening the list marks what is on it (`Notifications.tsx:10`): not what failed while the count stayed |
| `Browse` | `ArrivalIsRead` | an address not written by the page is only read: it may be written again at once |
| `Session` | `OfflineKeepsSession`, `BackOnlyBySigningIn` | offline is not signed out; nobody becomes somebody only by signing in |
| `Account` | `ProfileHasSignIn` | a profile has a sign-in: not one made again after a deletion whose first call failed |

More that the models show, each met while writing them:

*Booking.*

* `booking/booking/routes.py:254`: the second copy of a double tap may wait for
  the listing's lock and be told the window is taken, by its own first copy
  (`docs/FLOWS.md:670`).
* `booking/booking/support.py:1051`: an extension asked for while its booking is
  being cancelled is inserted after the cancellation looked for it
  (`docs/FLOWS.md:1058`). And an extension may be extended (`support.py:1039-1068`),
  while `_end_extensions` (`routes.py:413-432`) ends only direct ones: the
  extension of an extension stays, though "a cancelled or no-show parent ends it
  too" (`routes.py:414-416`).
* `booking/booking/routes.py:177`, `:197`: unpaid bookings are counted, and the
  suspension read, before the match, and the row is inserted after
  (`docs/resilience.md:49`, `docs/FLOWS.md:1981`).
* `booking/booking/handlers.py:152`: a reinstatement handled before its
  suspension leaves the person suspended in booking (`docs/FLOWS.md:1992`).
* A proposal still pending when the two sides agree can never be approved; every
  new offer postpones the escalation; `escalate_due` does not lock the booking; the
  toast of `offer()` tells the old deadline.
* Claims: a booking of a batch has no hours, so that its rate is 0 and every late
  return is "within the grace" (`support.py:911-926`); a paid extension does not
  count; the posts have no key, so that a repeat after a lost answer is refused.
* Reviews: a published review whose listing never existed is counted again when its
  event is redelivered; rating is offered after the days it is taken in.

*Payments.*

* `payments/payments/handlers.py:141`: a cancel handled before payments' row is
  committed is dropped, and the hold stays until it runs out
  (`docs/FLOWS.md:853`).
* `payments/payments/handlers.py:163`: after a crash between Stripe and the
  commit, another event or webhook may move the row before the redelivery, which
  then matches no branch (`payments/payments/handlers.py:13`).
* `payments/payments/handlers.py:84`: a repeated payout with other debts records
  another amount than Stripe sent (`payments/payments/tables.py:56`).
* `payments/payments/routes.py:555`: a dispute lost while a crash hides the
  transfer from the row neither reverses it nor records it as owed.
* Staff's page of a case may show more paid out than was sent; "charged back" has
  no label there (`AdminCases.tsx:61-71`); a cancelled booking with a refund of 0
  under the strict policy reads "nothing was charged" (`BookingDetail.tsx:529-535`;
  `docs/FLOWS.md:1191-1193`); "Earned means paid out" counts a payout still held.

*Catalog.*

* A file uploaded again keeps its old `created_at` (`repository.py:1010-1019`) and
  may be swept at once; the sweep deletes the file after its commit, when the next
  upload may already have put it again; a crash between `store.put` and
  `record_media` leaves a file nobody sweeps.
* `create_listing` reads the suspension unlocked; approving checks no version of
  what was looked at.
* `catalog/routes.py:673`: `PUT` reads the row unlocked. Two that read the hold for
  the place: the first to write makes the listing dear and leaves it to a check, the
  second lifts that hold with the one it read, and a dear listing is bookable that
  nobody looked at (`clash` in `Market`; `DearWaits` is refuted by this).

*The app.*

* A POST refused with 401 is sent again under the account the tab has by then. A
  sign-out everywhere without an access token ends this session only
  (`auth.ts:308`). A tab that follows from nobody to another account keeps its
  cached answers.
* Cancelling, told 409, reads the booking and says "Cancelled" though the other
  side's no-show did it. The loop that verifies an identity books after "Not yet".
* A failed save after its `PUT` deletes windows again and gets 404 for ever;
  `addSlots` repeated makes windows twice. A failed photo is left out of the
  listing silently; what is edited during a save is lost; a postal code of 13 to 16
  characters passes the form and not the server (`models.py:236`).
* Two-step sign-in: focus reads again and unmounts the setup; "off" is cached for
  300 seconds. Notifications: two flips of a channel may arrive in the other order.
* The e-mail stays editable during sign-up; a confirmed code whose sign-in failed
  is a dead end; a lost answer to "delete me" leads to onboarding again. A late
  `person.signed_out` drops a later session's phone; `native.ts:170-174` does not look
  at the answer, so that after a 5xx, or the 401 of a sign-out everywhere that revoked
  the token first (`auth.ts:311`), the phone forgets the token and the server keeps
  whose it is (until it hears of the sign-out, or the phone registers for another); a registration under way at
  sign-out lands after it; one that failed is not tried again in that run.

## 6. What the models leave out

* `Booking`: the redaction after a deleted profile, identity checks (whether one is
  owed is left open). Events are applied once; `Outbox` is why.
* `Settlement`: other bookings of the owner appear only as `debt`, which changes
  by itself; amounts of two currencies; invoices. An account of the owner is there
  or not. The constraint that can stop a revival is in `Booking`, not here, so that
  conservation is stated of bookings that ended once (`revived`), and
  `BookingRevived` is the run about the others. A lost webhook is possible for the
  card's hold (`Reconcile` makes it good), not for disputes.
* `Outbox`: `prune` and its retention periods (no clock); the receive count is
  kept per event, not per copy; the in-process bus of tests.
* The app: text, layout, maps, calendar files, the drawing of lists; each page has
  its own copy of the server's part it needs, with the others' steps as steps of the
  server. Stars, words and pictures are data.
* `MCPages`, `MCDesk`, `MCScreens` do not let their machines interleave: they share
  no state in the code either, but for the session (`Session`) and the booking's
  status, which each has with all its moves.
* `Checkout` and the others keep what a page cached for as long as the page is open;
  React Query drops unused answers after five minutes. In `Conversation` texts under
  way from a page that was left are a set, so that two of the same text are one, and
  the cached thread of a status the booking cannot come back to is forgotten. In
  `Devices` a `DELETE` of the token has its effect before the app hears or gives up.
  `Reviews` leaves out counts, averages and lists, functions of what was published.
* Availability and ranking in matching, the gateway, token checks and rate limits,
  invoices, mail: pure functions of their input, or one locked counter; see the
  components in `PROJECT.json`.

## 7. Plan

1. Chargebacks: several bookings of one owner with their debts, to replace
   `OtherBookings`; what is owed is recovered once and from payouts only.
2. An abstract dispute, settled once by both sides or by staff with the right to,
   and its refinement; a sealed exchange for `Reviews`.
3. Revocation with the replicas' caches; availability against a reference definition.

## 8. Running it

    tlc -workers 2 -config BookingRace.cfg MCBooking.tla
    tlapm BookingProofs.tla

| Configurations | Module |
| --- | --- |
| `BookingRace`, `BookingModeration`, `BookingExtension`, `BookingRevived` | `MCBooking` |
| `SettleMoney`, `SettleUncharged` | `MCSettlement` |
| `OutboxDelivers`, `SessionTabs` | `MCOutbox`, `MCSession` |
| `Pages`, `Desk`, `Screens` | `MCPages`, `MCDesk`, `MCScreens` |
| `PhotosSwept` | `Photos` |

`Desk` is the longest run, about three minutes. `tlapm` takes up to eight minutes
a module (`DeskProofs`, `RequestProofs`); it remembers what it proved.
