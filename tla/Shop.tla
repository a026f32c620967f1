-------------------------------- MODULE Shop --------------------------------
(***************************************************************************)
(* One business, whole: its accounts and what it pays, how it came to be,  *)
(* its customers, notices, settings, menu, hours, reports and the keys of  *)
(* the gateway.  Each part is a component with tables of its own; the      *)
(* diary and the payments, which share theirs, are Booking and Payments.   *)
(*                                                                         *)
(* The parts take their steps side by side.  moving holds those that take  *)
(* any: all of them in the system, and few at a time where states are to   *)
(* be counted.  The parts with proofs in modules of their own are          *)
(* instances of those modules, so that their theorems can be used here.    *)
(***************************************************************************)
EXTENDS Integers

CONSTANTS
  Scenes,    \* sets of parts that may move together
  Requests,  \* handlers of one part that can run at the same time
  Handlers,  \* which handlers of a part are used
  \* accounts
  Users, Owner, Tokens, Links,
  \* subscription
  Checks, Pays, Txs, Plans, Length, Trial, CacheLife, MaxDay,
  \* registration
  Slugs, Reserved, Emails,
  \* contacts
  Customers, Phones, Addresses, Visits, Messages, ThreadLimit,
  \* notices
  Appts, Runs, Width, Hours, Starts, Batch, MaxTime, Heard,
  \* settings
  Sections, Fields, Good, Bad, Default, Missing,
  \* menu
  Items, Categories, Names, MaxTries,
  \* hours
  Minute, DayMinutes, Change, Before, After, Professionals, Dates, Week, Marks,
  Durations, Step, Buffer, MinAdvance, MaxAdvance, NoLimit, Intervals, MaxRows,
  Start, MaxNow,
  \* reports
  Bookings, Staff, Days, Prices, Times, Lasting, WeekDays,
  \* keys
  Secrets, Signing, Events, Values, Charges, Envs,
  None, Gone

VARIABLES
  moving,
  users, card, tokens, links, logins,
  today, status, end, pays, gateway, cache, reading, checks, granted, was,
  businesses, members, menus, attended, sessions, forms,
  customers, visits, unread, thread, messages, calls,
  clock, up, begun, notices, jobs, inbox, feed, told, tried, lost, owed, news,
  stored, updates,
  items, categories, writes,
  working, opening, rows, now,
  appts,
  env, config, charged, stale, refused, saves

accounts == <<users, card, tokens, links, logins>>
subscription == <<today, status, end, pays, gateway, cache, reading, checks, granted, was>>
registration == <<businesses, members, menus, attended, sessions, forms>>
contacts == <<customers, visits, unread, thread, messages, calls>>
telling == <<clock, up, begun, notices, jobs, inbox, feed, told, tried, lost, owed, news>>
settings == <<stored, updates>>
menu == <<items, categories, writes>>
hours == <<working, opening, rows, now>>
keys == <<env, config, charged, stale, refused, saves>>
vars == <<moving, accounts, subscription, registration, contacts, telling, settings,
          menu, hours, appts, keys>>

S == INSTANCE SessionsProofs WITH Clients <- Handlers["accounts"], req <- logins

P == INSTANCE SubscriptionProofs WITH
  Requests <- Checks, MaxTime <- MaxDay, now <- today, req <- checks

J == INSTANCE RegistrationProofs WITH users <- members, req <- forms

C == INSTANCE ContactsProofs WITH
  Emails <- Addresses, Clients <- Handlers["contacts"], req <- calls

N == INSTANCE NoticesProofs WITH
  Clients <- Handlers["notices"], now <- clock, rows <- notices

G == INSTANCE Settings WITH req <- updates

M == INSTANCE Catalogue WITH Clients <- Handlers["menu"], req <- writes

H == INSTANCE Calendar

R == INSTANCE Reports WITH
  Appts <- Bookings, Professionals <- Staff, Dates <- Days, Starts <- Times,
  Length <- Lasting

K == INSTANCE Gateway WITH Pays <- Charges, row <- config, req <- saves

Assumptions ==
  /\ S!Assumptions /\ P!Assumptions /\ J!Assumptions /\ C!Assumptions /\ N!Assumptions
  /\ G!Assumptions /\ M!Assumptions /\ H!Assumptions /\ R!Assumptions /\ K!Assumptions

ASSUME Assumed == Assumptions

\* A part that stands still and could begin in several ways begins in one.
AtRest ==
  /\ "settings" \notin moving => stored = [s \in Sections |-> None]
  /\ "menu" \notin moving => categories = [c \in Categories |-> "on"]
  /\ "keys" \notin moving => env = CHOOSE e \in Envs : TRUE

Init ==
  /\ moving \in Scenes
  /\ S!Init /\ P!Init /\ J!Init /\ C!Init /\ N!Init
  /\ G!Init /\ M!Init /\ H!Init /\ R!Init /\ K!Init
  /\ AtRest

InAccounts ==
  /\ "accounts" \in moving /\ S!Next
  /\ UNCHANGED <<moving, subscription, registration, contacts, telling, settings, menu,
                 hours, appts, keys>>
InSubscription ==
  /\ "subscription" \in moving /\ P!Next
  /\ UNCHANGED <<moving, accounts, registration, contacts, telling, settings, menu,
                 hours, appts, keys>>
InRegistration ==
  /\ "registration" \in moving /\ J!Next
  /\ UNCHANGED <<moving, accounts, subscription, contacts, telling, settings, menu,
                 hours, appts, keys>>
InContacts ==
  /\ "contacts" \in moving /\ C!Next
  /\ UNCHANGED <<moving, accounts, subscription, registration, telling, settings, menu,
                 hours, appts, keys>>
InNotices ==
  /\ "notices" \in moving /\ N!Next
  /\ UNCHANGED <<moving, accounts, subscription, registration, contacts, settings, menu,
                 hours, appts, keys>>
InSettings ==
  /\ "settings" \in moving /\ G!Next
  /\ UNCHANGED <<moving, accounts, subscription, registration, contacts, telling, menu,
                 hours, appts, keys>>
InMenu ==
  /\ "menu" \in moving /\ M!Next
  /\ UNCHANGED <<moving, accounts, subscription, registration, contacts, telling,
                 settings, hours, appts, keys>>
InHours ==
  /\ "hours" \in moving /\ H!Next
  /\ UNCHANGED <<moving, accounts, subscription, registration, contacts, telling,
                 settings, menu, appts, keys>>
InReports ==
  /\ "reports" \in moving /\ R!Next
  /\ UNCHANGED <<moving, accounts, subscription, registration, contacts, telling,
                 settings, menu, hours, keys>>
InKeys ==
  /\ "keys" \in moving /\ K!Next
  /\ UNCHANGED <<moving, accounts, subscription, registration, contacts, telling,
                 settings, menu, hours, appts>>

Next ==
  \/ InAccounts \/ InSubscription \/ InRegistration \/ InContacts \/ InNotices
  \/ InSettings \/ InMenu \/ InHours \/ InReports \/ InKeys

Spec == Init /\ [][Next]_vars

-----------------------------------------------------------------------------
(* Properties: those of the parts, which say what each is about.           *)

\* Every part keeps its tables in shape.
TypeOK ==
  /\ S!TypeOK /\ P!TypeOK /\ J!TypeOK /\ C!TypeOK /\ N!TypeOK
  /\ G!TypeOK /\ M!TypeOK /\ H!TypeOK /\ R!TypeOK /\ K!TypeOK

\* One session goes on from each login (Sessions).
OneLivePerFamily == S!OneLivePerFamily

\* A link that is issued closes the earlier ones (Sessions).
NewestLinkOnly == S!NewestLinkOnly

\* A reset closes the sessions of the old password (Sessions).
ResetClosesSessions == S!ResetClosesSessions

\* No account opened for a professional who is removed lets anybody in, but one
\* that was being opened meanwhile, or that lost the card to another (Sessions).
RemovedIsOut == S!RemovedIsOut

\* A payment moves the end of the period once (Subscription).
CountsOnce == P!CountsOnce

\* A payment adds its whole period (Subscription).
PaidTimeKept == P!PaidTimeKept

\* What the guard answers was true within the life of its cache (Subscription).
AnswerWasTrue == P!AnswerWasTrue

\* A business exists with all that belongs to it, or not at all (Registration).
Whole == J!Whole

\* Registrations never wait for each other in a circle (Registration).
NoCircle == J!NoCircle

\* A booking leaves the address of its customer alone (Contacts).
AddressKept == C!AddressKept

\* The panel announces no more messages than there are unread (Contacts).
CounterNeverOverstates == C!CounterNeverOverstates

\* What counts as read was shown (Contacts).
ReadWasShown == C!ReadWasShown

\* A reminder goes out once (Notices).
RemindedOnce == N!RemindedOnce

\* No appointment is skipped while the job runs (Notices).
NoneSkipped == N!NoneSkipped

\* Who has to know of a change is told (Notices).
NobodyForgotten == N!NobodyForgotten

\* A save changes what was edited (Settings, Gateway).
FieldsKept == G!FieldsKept /\ K!KeysKept

\* Events of payments charged since the last save of the keys are accepted, if
\* there is a secret to check them with (Gateway).
EventsAccepted == K!EventsAccepted

\* A removed service leaves its slug to others (Catalogue).
SlugsFreed == M!SlugsFreed

\* The menu shows what is public once (Catalogue).
MenuAgrees == M!MenuAgrees

\* The hours that are listed are those that are accepted (Calendar).
ListIsExact == "hours" \in moving => H!ListIsExact

\* Services lie in hours that are worked, from beginning to end (Calendar).
WholeServiceWorked == "hours" \in moving => H!WholeServiceWorked

\* A day has the same hours whichever page asks (Calendar).
DaysAgree == "hours" \in moving => H!DaysAgree

\* The pages of the panel agree (Reports, Gateway).
OneStory == ("reports" \in moving => R!OneStory) /\ K!PanelAgrees
=============================================================================
