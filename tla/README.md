# Verification of the booking backend

A NestJS server (Prisma over PostgreSQL) that lets customers book an hour with a
professional of a business, pay for it through Wompi, talk to the business and be
reminded; and lets the business run its diary, its menu, its settings and its accounts.
The modules here model that core. They are checked with TLC on small instances and, where
*Proofs* below says so, proved with TLAPS for every instance.

## What makes this system hard

Handlers run concurrently in one or more processes and share nothing but the database.
Transactions run at PostgreSQL's default, READ COMMITTED: every statement sees what was
committed when it started, and nothing a handler has read is still known to be true when
it writes. Most writes are `update where id`, without a condition on what was read. Four
things hold this together: the exclusion constraint `appointments_no_overlap`, the unique
indexes, the foreign keys, and a few conditional updates. Wompi adds events that arrive
late, twice, in any order or never; the process may stop between two writes; and the clock
of the business' zone skips or repeats an hour.

So a module describes a handler as **a sequence of steps** with a record `req[r]`
that carries what it has read; a step is one read, or the last writing transaction.
Between two steps anything else may commit. Where the code promises something only to
those who were not overtaken, the model keeps a mark in the request (`behind`, `late`,
`stale`) that another request's commit sets, and the property excuses exactly the marked.

## Inventory

| Component | State | Operations | Hard because |
|---|---|---|---|
| Appointments (`appointments/`) | `appointments` | createPublic, createManual, update, cancelByToken, changeStatus | check then write, three writers of the status |
| Availability (`availability/`) | none | resolveSlot, getDaySlots, getDays, engine | reads with two connections; days, ranges, buffers and clock changes |
| Professionals, time off | `professionals`, `professional_services`, `working_hours`, `time_off` | update, remove, setServices, setWorkingHours, invite, resendInvitation, revokeAccess; create, remove | counted, then written; an account tied to a card |
| Services, categories | `services`, `categories` | CRUD with soft delete, the public menu | slugs looked for, then written; the menu read in two queries |
| Payments (`payments/`) | `payments`, `appointments.paymentStatus` and `status` | startCheckout, handleWebhook, verifyReturn, markRefunded | unreliable delivery, two ledgers, stale writes |
| Gateway keys (`payments/`) | `payment_provider_config` | saveConfig, getConfig, credentials | saves that merge with what they read; keys that change while a payment is open |
| Subscription | `businesses`, `subscription_payments`, a cache | checkout, verify, guard, nightly job | retries that count twice, lost updates, a cache of a minute |
| Auth | `refresh_tokens`, `password_reset_tokens`, `users` | login, refresh, logout, requestPasswordReset, resetPassword | rotation and revocation interleave; several writes without a transaction |
| Reminders, notifications | `reminder*SentAt`, `notifications` | ten-minute job, handlers of events | runs that overlap, crash between send and mark, events in memory |
| Customers, chat | `customers`, `conversations`, `messages` | findOrCreate, create, update, remove; receive, send, startWith, markRead, publicThread | uniqueness found out at commit; a counter kept beside the messages |
| Settings | `business_settings` | update, getSchedulingContext | a read, a merge and an upsert of a whole column |
| Registration (`platform/`) | a whole business | register, checkSlug | five inserts behind two reads; unique keys held until the commit |
| Dashboard, reports, search, access scopes | none | summaries, diary, cards, search | dates converted to instants and back; who may see what |
| Uploads, configuration, seeds, health, mail texts | | | file input and output, start-up, wording |

Interactions: bookings read professionals, services, time off and settings, and create their
customer; payments write the appointment's status (a third writer of it); every handler
emits events after its commit, which notifications turn into messages; removing a
professional closes its account; the guards decide who may call, and every modelled call
is one they let through, except for the guard of the subscription, which is modelled.

What makes each correct: *appointments* never overlap, never leave a final status, keep
the duration they were sold with, keep buffer and opening hours when the engine was asked;
*the list of hours* and the check of one hour agree; *professionals* are not removed under
their appointments and not left with an account that works; *time off* reports what it
covers; *slugs* are freed by what is removed, and the menu shows what is public once;
*payments* are PAID only with their money, never go back, agree with the appointment and
record what was approved, and their events are accepted; *subscription* counts each
payment once, adds all of it, and its guard tells the truth; *sessions* end when the
password changes, and one goes on from each login; *reminders* go out once and none is
skipped; *notices* reach whoever does not know yet; *chat* never announces more than there
is; *customers* keep their address; *settings* keep what nobody edited; *businesses* are
whole; *reports* tell one story.

## Modules

| Module | Models |
|---|---|
| `AppointmentRules` | statuses, transitions (`status.ts`), the statuses each query counts, the exclusion constraint |
| `Agenda` | abstract: appointments hold slots, one changes at a time, never over another |
| `Booking` | the diary: appointments, resolveSlot, and what professionals, time off and services write |
| `Payments` | online payments of one appointment, with Wompi as an external party |
| `Gateway` | the keys of the gateway, signatures, and the payments made with them |
| `Clock` | `time.ts`: instants and wall clocks of a zone whose offset changes |
| `Calendar` | `engine.ts` over several days and ranges; the writers of the weekly hours |
| `Reports` | the pages that only read: reports, dashboard, diary, cards, search |
| `Tables` | what the tables of all components share (`None`, the id of a new row) |
| `Sessions` | accounts, sessions, one-use links; the account of a professional |
| `Subscription` | what a business pays the platform, the guard and the nightly job |
| `Registration` | how a business comes to exist |
| `Contacts` | customers, their part of a booking, and their conversations |
| `Notices` | reminders, and who is told of each change |
| `Settings` | the four sections of the settings |
| `Catalogue` | services and categories, slugs, the public menu |
| `Shop` | one business, whole: the ten components above from `Clock` and `Gateway` on, side by side |
| `MCBooking`, `MCPayments`, `MCSubscription`, `MCCalendar` | instances of one module |
| `MCShop` | instances of `Shop`: see *Runs* |
| `BookingProofs`, `PaymentsProofs`, `SessionsProofs`, `SubscriptionProofs`, `RegistrationProofs`, `ContactsProofs`, `NoticesProofs` | theorems about one module |
| `ShopProofs` | theorems about `Shop`, with those about `Settings`, `Gateway`, `Catalogue`, `Clock`, `Calendar` and `Reports` |

Each module is one component with the tables it owns. `Booking` and `Payments` meet in the
appointment: the status each writes under the other's feet is a single step there
(`ReadForPayment` and `CommitStatus` in `Booking`, `ChangeStatus` in `Payments`).

`Shop` puts the other ten together. Each is an instance with variables of its own, a step of
the shop is a step of one of them, and `moving` holds those that take any: all of them in the
system, a chosen few where states are to be counted. The theorems of `ShopProofs` are about
every choice of `moving`. A part with a module of proofs is an instance of that module, so
that its theorems can be cited in `ShopProofs`.

### Booking

State: the tables (`appts`, `staff`, `offers`, `services`, `blocks`), the clock, the
requests in flight `req`, and two history variables: `forced` (rows whose hour was last
set with *allowOutsideHours*, which asks no engine) and `warned` (what a time off reply
has counted). A web booking is `BeginCreatePublic` (loadContext, which reads through the
client and so sees the committed catalogue), `Resolve` (the busy intervals of the
candidates, checkSlot, the least loaded professional), `CommitCreate` (the insert, which
the constraint admits or refuses). The panel's bookings and moves are the same chain with
their own rules; a move starts from a row read outside its transaction (`ReadForUpdate`).
`ReadForCancel`, `ReadForStatus` and `ReadForPayment` are three deciders of one later
write, `CommitStatus`. `CountUpcoming` and `RemoveProfessional`, `InsertBlock` and
`CountConflicts` are the two steps of their handlers. Handlers that are one transaction on
the catalogue are one action.

Abstractions: one business; one local day in steps of the grid with one range of opening
hours (several days, ranges and clock changes are `Calendar`'s); no customers, names,
prices or notes. `Resolve` is one step, while the code reads appointments, time off and
loads in three statements: a commit between them only changes which of two moments the
busy list shows, and the writing step comes after all of them anyway. `Abort` is a
transaction that times out or a process that stops. `RoomForAnother` and `MaxNow` are
bounds of the model and not of the code.

### Payments and Gateway

`Payments`: one appointment, several payments of it (`Refs`, `providerReference`), Wompi's
transactions (`gateway`), the events issued about them (an event repeats what was true
when it was issued, and is never taken back), and the handlers in flight. `ReceiveEvent`
and `FetchTransaction` are the two ways to learn about a transaction; both go on through
`apply`: `ReadPayment` (with its two early returns), `ReadAppointment`, `WriteOutcome`
(one transaction on both tables, refused when confirming would bring a row back over an
hour that was given away). `Outcome` compares the amount. `CreatePayment` and
`WriteRefund` are the writes of startCheckout and markRefunded. The second writes REFUNDED on
the appointment without looking at its other payments; the history variable `kept` holds
the paid ones whose money stayed when it did so (`OthersPaid`). `SetPaidByHand` and
`ChangeStatus` stand for the panel's writes of the two columns, as single steps (their own
interleavings belong to `Booking`); `Rebook` is another customer taking or leaving the
hour of a cancelled appointment. Every payment is of `Price`: a price that changes between
two checkouts is not modelled.

`Gateway` is what `Payments` takes for granted: which keys a checkout signs with and an
event is checked against. `ReadForSave` and `WriteConfig` are the merge of saveConfig with
the row it read; `CountRows` is the second query of credentials, which falls back on the
environment (`env`, one of `Envs`, chosen at the start); `Charge` and `CheckSignature` use
what it found. `stale` holds the payments charged before the last save, whose events the new
secret cannot check. As in envCredentials the environment must have the public key and the
secret that signs a checkout and may lack the others: without `WOMPI_EVENTS_SECRET`
customers are charged and every event is refused, which leaves those payments to the
customer's return. They are the ones `Unsigned` names. What a row switches on is complete.
Encryption of the stored keys is taken to give back what it was given.

### Clock, Calendar and Reports

Instants are numbers of ticks, several to a minute, so that an hour with seconds exists.
`zonedToUtc` asks for the offset twice, as the code does; that it is right but for skipped
and repeated hours is what `Exists` separates. `Calendar` has no handlers in flight: it
lets hours, opening hours, rows and the clock be anything the writers can make them
(`setWorkingHours`, `setOpening`, `Occupy`, `Tick`) and compares, in every such state, what
`Minutes`, `Slots`, `DayCount` and `checkSlot` say. `Inside` is the code's comparison with
the ranges effectiveRanges has merged. `Reports` does the same for tables of appointments
(`Write` makes any row) and the pages that read them, for every kind of user.

### Sessions, Subscription, Registration

`Sessions`: a password is named after the link it was chosen with, so that a session shows
which password let it in. `Issue` creates the token of a login or a refresh; `Rotate` is
the conditional revocation of the old one, whose loser goes on to `RevokeAll`. A token
counts as a client's (`answered`) only once the handler has replied. resetPassword is
`ReadLink`, `UseLink` (conditional), `WritePassword`, `RevokeAll`, without a transaction
around them; a crash is a request that never takes its next step. issueResetToken is
`MarkLinks` and `CreateLink`. invite, resendInvitation, revokeAccess and remove write the
account of a professional by what they have read of the card. An invitation makes an account
of any address that is free, so that two in flight may have two: the unique address refuses one
of two that are the same, and of two that differ both commit and the card keeps the second.
`contested` marks the accounts that were created while another invitation was.

`Subscription`: verify is `Fetch`, `ReadPayment`, and `ReadBusiness` with `WritePaid`, or
`WriteNote`. The guard reads and stores its answer (`GuardRead`, `GuardStore`), the nightly
job is `MarkExpired`, and `was` records when each answer was last true. Plans last a number
of ticks: the calendar of months (a month from the 31st) is not modelled. The guard's own
read is taken to last less than one tick, which is the unit of the cache's life.

`Registration`: `FindUser` and `FindBusiness` look, `Insert` writes one table after the other
in the order of the code; a key that another open transaction holds makes it wait
(`Waits`), `Commit` publishes all of it, `Stop` drops it. The starting menu counts as one
insert.

### Contacts, Notices, Settings, Catalogue

`Contacts`: `ReadContact` and `CommitBooking` are findOrCreate inside a booking; deleting a
customer is refused by the foreign key once it has a visit (`CountVisits`, `Delete`). The
counter of a conversation is written by `Receive`, `Send` and the two statements of
`MarkRead`/`CommitRead`; `ListThread` and `MarkThread` are publicThread, whose page receives
`ThreadLimit` messages (200 in the code) and marks all of them. The panel's own page of 300
messages only reads and is not modelled. Messages come in the order of `createdAt`.

`Notices`: a run of the job works its windows one after the other (`Query`, `Remind`, `Mark`)
and may still be at it when the next one starts; a crash loses runs and the events in
memory, and a query or an update that fails ends one run (`FailRun`). `Tell` is the handler
of one event, channel by channel.

`Settings`: `ReadForUpdate` reads all sections, merges a patch into one and validates it;
`Upsert` writes that column. A stored column may be absent, old or invalid, and `Parse`
reads defaults for it.

`Catalogue`: a slug is a sequence of numbers, the word and what was appended. `LookUp` is
one query of uniqueSlug; `Admits` is the index. The menu is `ReadMenu`, `ReadRest` and
`AnswerMenu`. Professionals find their slugs by the same function.

## Runs

Deadlock is not checked: the bounds on identifiers, the clock and transactions stop the
models where the system would go on.

| Run | Instance | Shows |
|---|---|---|
| `booking_race` | 2 requests of any kind, 2 appointments, 1 professional | `NoDoubleBooking`, `ImplementsAgenda` under every interleaving. Two is the smallest number with a race on a slot; the constraint is pairwise |
| `booking_serial` | 1 request at a time, 2 appointments, 2 services of 2 durations, a clock, time off | `TypeOK`, `NoOrphans`, `SnapshotCoherent`, `TerminalIsFinal`, `BufferKept`, `BlocksKept`: what the code keeps when no handler overtakes another |
| `payments_serial` | 1 handler at a time, 2 references, 2 transactions, a wrong amount, staff, aborts | `TypeOK`, `MoneyBehindPaid`, `LedgersAgree`, `PaymentIsFinal`, `PaidNotReopened` |
| `payments_live` | handlers that may abort, 2 transactions of one reference, staff cancel and the hour is taken | `ApprovedIsRecorded`, `PaidIsConfirmed`, also after a failure under the same reference and when confirming is refused |
| `shop_spring` | sessions, the subscription, people, reminders, slugs, and hours in spring | see the scenes below |
| `shop_autumn` | nine parts, with hours in autumn; the subscription is in spring only | see the scenes below |

In both runs of `MCShop` the initial state chooses one part that moves while the others stand
still (`Scenes` has sets of one part), so that a run is the sum of its scenes and no product
of them. Nothing is lost: the parts share no variables, and a property of a run is a
property of one part, or the same property of two. `TypeOK` is checked in autumn; of the
subscription, which moves in spring only, it is proved.

| Run, part | Instance | Question |
|---|---|---|
| spring, accounts | 2 requests, 1 account, 3 tokens, 1 link; login, refresh, logout, reset | `OneLivePerFamily`, `ResetClosesSessions` |
| autumn, accounts | 2 requests, the owner, a professional with 2 addresses, 2 links; invite, resend, revoke, remove, reset, login | `RemovedIsOut`, `NewestLinkOnly` |
| spring, subscription | 1 call of verify at a time, 2 payments, 2 plans, 2 transactions, 3 ticks, cache of 2 | `CountsOnce`, `PaidTimeKept`, `AnswerWasTrue` |
| autumn, registration | 2 registrations, 2 addresses and a reserved one, 2 emails | `Whole`, `NoCircle` |
| spring, contacts | 2 requests, 2 customers, 2 phones, 1 address, 2 visits | `AddressKept` |
| autumn, contacts | 2 requests, 1 customer, 3 messages, a page of 1 | `CounterNeverOverstates`, `ReadWasShown` |
| spring, notices | 1 appointment, 2 runs of the job, windows of 2 and 4, crashes, queries and updates that fail | `RemindedOnce`, `NoneSkipped` |
| autumn, notices | 1 appointment that is booked, moved, confirmed, cancelled, written about and paid | `NobodyForgotten` |
| autumn, settings | 2 updates, 2 sections of 2 fields, absent, old and invalid columns | `FieldsKept` |
| autumn, keys | 2 requests, 2 keys, 2 accounts, an environment with all keys or without the events secret | `EventsAccepted`, `FieldsKept`, `OneStory` (as `PanelAgrees`) |
| spring, menu | 2 requests, 2 services, 2 names one of which is the other with a number | `SlugsFreed` |
| autumn, menu | 2 requests, 1 service, 1 category turned off, on and deleted | `MenuAgrees` |
| spring, hours | days of 6 minutes with a minute skipped, 1 row that may be in the way, steps of 2 | `ListIsExact`, `WholeServiceWorked`, `DaysAgree` |
| autumn, hours | the same with a minute repeated, and 2 kinds of weekday | `ListIsExact` |
| autumn, reports | every table of 2 appointments, 2 professionals, 2 customers, 3 dates, every user | `OneStory` |

What holds only for one request at a time, or but for a case, fails otherwise. Where a
comment or a document of the repository promises the opposite most plainly, the failure is
a run of its own (`findings` in `PROJECT.json`):

| Run | What happens |
|---|---|
| `orphan_race` | a booking commits between the count and the removal of its professional |
| `terminal_race` | the second of two status writers leaves a final status |
| `stale_duration` | (1 request) a move is checked with one duration and written with another |
| `payment_regress` | a return that asked too early writes PENDING over PAID |
| `subscription_twice` | two calls of verify for one transaction extend the period twice |
| `off_list` | an hour with seconds on a minute of the list is accepted from the public page |

`NoOrphans`, `TerminalIsFinal`, `BufferKept`, `BlocksKept`, `SnapshotCoherent`,
`PaymentIsFinal`, `PaidNotReopened`, `CountsOnce` and `PaidTimeKept` are checked with one request
at a time: with any two they fail, as the code checks and then writes without a lock or a
condition. Which pairs of requests have to be kept apart for them is proved (see Proofs). `booking_serial` leaves edits of a service's duration to `stale_duration`: with
them `BufferKept` and `BlocksKept` fail in the same way as `HoursKept`. `LedgersAgree` is
about appointments nobody marks as paid by hand: the runs that check it leave out `"cash"`.

So a property that is checked with one request at a time says that nothing *but* an overlap
breaks it; the overlap itself is a run below, or the hypothesis of a theorem. `hazards` in
`PROJECT.json` says of each which of the two it is.

The excuses written into the other properties are cases the code does let happen, each
named by the write that was overtaken: a session that was being opened while a reset closed
the rest (`late`); a reset cut off before its last write; an invitation that overlapped the
removal of its professional (`late`), and of two invitations that overlapped each other the
account that lost the card to the other and works on after the removal (`contested`); a paid
payment whose money stayed while markRefunded took another one of the same appointment back
and wrote REFUNDED over both (`kept`: `docs/WOMPI.md` asks for refunds to be recorded "para que
las cuentas cuadren", which they then do not); two links issued at once; a save or an update written over
another that it had not read (`behind`); a booking that overtook an edit of its customer;
a service renamed while it was removed; a message written while the customer was opening the
thread, or beyond the part of it the page receives; reminders of a run lost with the
process or to a failure of the database; events of a payment charged before the keys changed,
or with an environment without the secret of events (`Unsigned`); a service whose category or
text changed while the menu was read; dates whose midnight the clock
of the zone skips or repeats (`OneStory`), and days with an hour whose service, with its
buffers, reaches over midnight (`DaysAgree`).

Symmetry (requests, appointments, references, transactions) is used in safety runs only;
of the runs of scenes `shop_autumn` uses it, for the addresses of the professional.

### Bounds

| Bound | Is | Enough because |
|---|---|---|
| `Requests` | 2, or 1 where said | every race here is between one handler's read and another's write; a third handler repeats one of the two |
| `Appts`, `Refs`, `Txs`, `Pays`, `Messages`, `Tokens`, `Links`, `Items` | 1 to 3 | properties are about one row or a pair; three tokens are a login and two that descend from it |
| `MaxNow`, `MaxTime` | 1 to 6 ticks | past an advance and a deadline; beyond the life of the cache and the second plan; past both windows of an appointment that is moved |
| `MaxTries` | 3 numbers | of three candidates one is always free with two services |
| `MaxRows` | 1 row in the way | `Minutes` and `checkSlot` ask each row alone, and take the union |
| `ThreadLimit` | 1 (200 in the code) | the smallest page with messages beyond it |
| `Batch` | 2 (200 in the code) | more than there are appointments, as `NoneSkipped` asks: what a batch leaves behind is in no later window and is never reminded |
| `Width`, `Hours` | 2; 2 and 4 | neighbouring windows touch, and two runs overlap |
| `DayMinutes`, `Marks`, `Week` | 6 (4 in reports), 3 marks, 1 or 2 | two ranges a day that touch or leave a break, services that end on a mark or beyond it |
| `Heard` | a message and an open payment | one event that is told and one that is not; `"paid"` and `"failed"` are told like the first |
| `Clients`, `Endpoints` | the handlers a scene uses | all handlers are used in some run |

### Fairness

Only `Payments` has liveness. Per transaction: strong fairness of receiving its event and
of each step of `apply` on its behalf. Strong, because a handler may be aborted and must
then be started by another delivery: this is Wompi repeating an event until it is
answered, which is outside the repository (`docs/WOMPI.md` relies on it), plus the
assumption that aborts do not strike at the same step for ever. Nothing is assumed of
customers, staff, the return from the gateway, or checkouts and refunds. The properties
except transactions Wompi voids, whose first event may be overtaken.

The other promises of something to come are stated as what must have happened by a moment
(`NoneSkipped`: when the run of its window is over; `NobodyForgotten`: when no event is on its
way), so that they need no fairness of jobs and processes that may stop.

## Proofs

| Theorem | Says |
|---|---|
| `BookingProofs!TypeCorrect` | `Spec => []TypeOK` |
| `BookingProofs!NeverDoubleBooked` | `Spec => []NoDoubleBooking` |
| `BookingProofs!Refinement` | `Spec => ImplementsAgenda`: `Booking` implements `Agenda` |
| `BookingProofs!NobodyIsOrphaned`, `SnapshotsHold`, `TerminalStays` | `RowsApart`: `NoOrphans`, `SnapshotCoherent`, `TerminalIsFinal` |
| `BookingProofs!BuffersHold`, `BlocksHold` | `RowsApart`, `DaysApart`, durations that stay: `BufferKept`; no aborts besides: `BlocksKept` |
| `PaymentsProofs!TypeCorrect`, `NeverPaidWithoutMoney` | `TypeOK`, `MoneyBehindPaid` |
| `PaymentsProofs!FinalStaysFinal` | `RefsApart`: `PaymentIsFinal` |
| `PaymentsProofs!AppointmentTellsItsPayments`, `PaidStaysPaid` | `RefsApart` (the first one), `AppointmentApart`, no cash: `LedgersAgree`, `PaidNotReopened` |
| `ShopProofs!TypeCorrect` | `TypeOK` of the ten parts |
| `OneSessionGoesOn`, `EarlierLinksClosed`, `OldPasswordLetsNobodyIn`, `RemovedStaysOut` | `OneLivePerFamily`, `NewestLinkOnly`, `ResetClosesSessions`, `RemovedIsOut` |
| `GuardTellsTheTruth` | `AnswerWasTrue` |
| `OnlyOneCounts`, `NoPaidTimeLost` | `PaymentsApart`: `CountsOnce`; `EndsApart`: `PaidTimeKept` |
| `BusinessesAreWhole`, `NobodyWaitsInACircle` | `Whole`, `NoCircle` |
| `NoAddressIsLost`, `CountersNeverOverstate`, `ReadOnlyWhatWasShown` | `AddressKept`, `CounterNeverOverstates`, `ReadWasShown` |
| `NobodyIsRemindedTwice`, `NobodyIsSkipped`, `NobodyIsForgotten` | `RemindedOnce`, `NoneSkipped`, `NobodyForgotten` |
| `OnlyTheEditedChanges`, `EventsAreAccepted` (for any set of environments) | `FieldsKept`, `EventsAccepted` |
| `SlugsAreFreed`, `MenuShowsWhatIsPublic` | `SlugsFreed`, `MenuAgrees` |
| `ListedIsAccepted` | `ListIsExact` |
| `WallClock` | `zonedToUtc` finds an instant that shows a date and a minute whenever there is one |
| `WorkedFromEndToEnd` | `WholeServiceWorked` |
| `SameHoursOnEveryPage` | no clock is put forward by more than a day: `DaysAgree` |
| `PagesAgree` | `OneStory` |

The theorems without a module are `ShopProofs`', for any set of parts that move.

Every theorem is for any number of requests in flight. Where nothing else is said it is for any
interleaving of them. The others are of the form `Spec /\ []Apart => []Inv`, where `Apart` says
of any two requests in flight that one is not about to write just what the other has read:

| `Apart` | No two requests where | Without it |
|---|---|---|
| `RowsApart` | both move, or both change the status of, one appointment; one removes a professional the other has found | `terminal_race`, `orphan_race` |
| `DaysApart` | both have found time free for one professional and not written; or one has, and the other has a block of that time to count | two bookings are written without the buffer between them, or one inside the block: the exclusion constraint (`NoDoubleBooking`, which needs no hypothesis) knows neither |
| `RefsApart` | both have found one payment open | `payment_regress` |
| `AppointmentApart` | one makes the appointment paid, the other has found it unpaid and will write that | the same read and write of `paymentStatus` |
| `PaymentsApart` | one records a payment of the subscription the other has found open | `subscription_twice` |
| `EndsApart` | both have read where the paid period ends | the same read and write of `currentPeriodEnd` |

So these races are the only ones that break the promises: with requests that share none of these
the code keeps them, whatever else runs, is cut off or comes late. A single request is apart from
all others (`OneIsApart`), which is the instance the runs check. The code has no lock that
would make the hypotheses true of themselves. Edits of a service stay excluded from `BuffersHold`
and `BlocksHold` (`stale_duration` shows why); aborts from `BlocksHold` only, as a time off that
was stored and not counted warns nobody.

Assumptions: those the modules declare (`ASSUME` in `Booking`, `Payments` and `Shop`, which assumes
the definition `Assumptions` of each of its parts). Times are naturals
and durations positive (the checks `services_positive` and `appointments_time_order` of the
migration); `NoAppt`, `None` and `Gone` are no rows and no ids.

The invariants, and why each is needed:

*Booking.* `TypeOK` is not inductive: a step that writes relies on what earlier steps of
the request put in `req[r]`. `IInv` adds `LegitRequests`: a request about to write has a
real service, professional, status and a positive length, and the row it updates exists
(rows are never deleted). Every step then writes at most one row that the constraint
admits (`WriteOrNothing`), which gives `NoDoubleBooking` and, mapping the rows that hold
their slot to slots, the step of `Agenda`.

*Booking, apart.* What a request has read is still so when it writes, as nothing
else writes what it read. `Sound` says so of statuses, durations and staff, and with it for all
requests (`Ordered`) a step keeps what it promises of its own request (`CreateOrderly` to
`CatalogOrderly`) and, under `RowsApart`, of the others (`OthersSound`). `Careful` says the same
of the slot that was found free (`OthersCareful`, under `DaysApart`), `Told` of the blocks whose
count is still to come, `SoldAsNow` that rows have the duration of their service; `AllCalm` puts
them together.

*Payments.* A request carries knowledge that may be old. `IInv` says what of it cannot
become false: its transaction belongs to its payment, and if it is going to write PAID the
whole price was approved there (`Covers`, which outlives a void); events tell the truth in
the same sense; transactions belong to payments that exist. `Grows` (nothing of that is
ever taken back) carries the knowledge over other requests' steps. Apart from others, `Alone` adds
that the payment read is still not final, or still is, and `Agreeing` that an appointment found
unpaid still is, with the three parts of `LedgersAgree` in `Ledgers`.

*Sessions.* A refresh holds a token that was handed out, and the new one descends from the same
login (`HoldsOld`, `HoldsNew`); a link about to be issued closes all earlier open ones
(`HoldsLinks`); a session being opened goes by the password in force or is marked as late
(`IsFresh`), which holds as a reset that has written the password still has its revocation to
come (`Pending`); a removal knows the account of the card (`KnowsAccount`), and any other account
opened for it lost its place while two invitations were in flight (`CardRow`).

*Subscription.* `Remembered`: an answer in the cache was true when it was stored, or later;
`Ended`: the end of a period that is not running has passed. Apart from
other calls, the payment a call read is still unpaid (`Unpaid`), a payment that moved the end is
PAID (`Granted`), and the end a call read has not moved (`Later`).

*Registration.* What a transaction has written is a prefix of its inserts (`Proper`), and no
unique key is held twice (`Apart`). With a prefix, whoever waits for a key of `users` holds
one of `businesses`, which is why nobody waits in a circle.

*Gateway.* Who is not behind has read what is there now (`UpToDate`), and a payment charged
since the last save was charged with the keys in use (`ChargedAsNow`), of the row or of any
environment that can sign a checkout.

*Settings.* What an update is about to write agrees with its section but for its own field,
unless it is behind (`Current`).

*Contacts.* A request knows what other requests cannot take away (`Requested`): whom it is about,
and that who has an appointment stays (`Named`); that a booking nobody overtook brings an
address only to a customer without (`Informed`); that what staff are about to mark was written
by that customer (`Own`); that the page was shown before it is marked (`Displayed`).
`Threaded` puts each message at one place of one conversation, and `Counted` bounds each counter
by the unread messages of its conversation. `CounterNeverOverstates` speaks of the *sum* of the
counters too, a fold over a set of any size: `ContactsProofs` takes the sum for a function on
subsets (`Adds`, `Total`) and proves what it needs of it from the smallest subset that would
fail, which has an element to take out.

*Notices.* `Scheduled`: a moment has one run, whose work lies in the window of the hours it is
at. The windows of one run do not meet those of another for the same hours, for every period
and every hours: arithmetic with quotients (`Quotient` and the lemmas after it). With it a
reminder that went out is done with (`Closed`), and one whose moment came is tried or still to be
come to (`Considered`). `Addressed`: an event on its way has somebody left to tell.

*Catalogue.* A row that is listed has a slug without the mark of a removal, and one that was
removed has the mark and its own id (`Numbered`), so that a removed row stands in nobody's way;
a writer has a slug fit for its row (`Prepared`); what was read of the menu is still so of the
services nobody touched, each at one position (`Faithful`, with `Holds` and `Lacks`).

*Clock and Calendar.* `WallClock` is about every change of the clock, forward or back and by
any amount, and every instant: the first guess may be wrong by the change, and the
second is right whenever some instant shows that date and minute (`GuessIsRight`). `ListIsExact` follows
for each minute by itself: `Minutes` and `checkSlot` ask the same of it once both convert the
minute to the same instant. What effectiveRanges makes of any number of ranges is a sequence
with a gap between any two that covers what the clipped hours cover (`Merged`): joining the range
that begins last keeps that (`JoinKeepsMerged`), the fold is an induction over subsets
(`FoldMerges`), and where there are gaps a service whose minutes are all covered lies in one range
(`CoveredFits`). `DaysAgree` needs the first moments of dates to be in order
(`MidnightsInOrder`), which is where a clock put forward by more than a day would make it fail.

*Reports.* No page keeps state: `OneStory` is a fact about every table that is typed. `MidnightCuts`
turns a query between two instants into one between two dates, where the midnights are
shown and shown once; then the rows of days, statuses, professionals and customers are parts of
one set (`DuringIsDated`), counts and earnings of the parts add up to those of the whole
(`SizesAddUp`, `RevenueAddsUp`, by `PartsAddUp` of `ContactsProofs` for the sum of any function), and what the
dashboard of each kind of user shows is one of the parts.

*The shop.* A step of the shop is a step of a part or leaves the variables of that part alone; the
lemmas `AccountsKeepTo` to `KeysKeepTo` say so once for each, and a theorem of a part, be it about an
invariant or about steps, is then one of the shop.

Only model-checked:

- the liveness of `Payments` (`ApprovedIsRecorded`, `PaidIsConfirmed`), and `ENABLED`, which the
  proof system does not reach.

Every other property of a passing run is stated by a theorem. The induction theorems of the
library take an operator as a parameter, which the provers cannot instantiate: where a
definition is a fold over a set (the counters, the earnings, the merged ranges), the
induction is done by hand, from the smallest subset that would fail.

No module declares a `RECURSIVE` operator.

## Not modelled

- Uploads, configuration and its validation, seeds, health: file input and output and
  start-up, with no state a handler shares.
- The wording of mails and the calendar files they carry, controllers and DTOs: the
  modelled handlers get what those let through.
- Access tokens: `jwt-auth.guard.ts` trusts one until it expires, whatever happens to the
  rows. The date of refresh tokens and links only decides a refusal.
- The pool of connections (a booking holds one and asks for another): a limit of the
  deployment, and the model would only restate its arithmetic.
- The calendar of months in `addPeriod`, prices that change between checkouts, the texts of professionals' cards and their public list, the
  order of the menu, the profile of the business, other channels of the chat than the web.
