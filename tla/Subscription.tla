---------------------------- MODULE Subscription ----------------------------
(***************************************************************************)
(* What a business pays the platform: subscription.service.ts, and the     *)
(* guard that closes the panel of one that does not.                       *)
(*                                                                         *)
(* A request r is a call of verify; req[r].step names what it does next:   *)
(*   payment  - read the payment of the transaction's reference            *)
(*   business - read where the paid period ends                            *)
(*   note, paid - the write                                                *)
(* Time advances in ticks, up to MaxTime.  Handlers may take any number of *)
(* them; only the read of the guard is taken to last less than one.        *)
(* Wompi is outside the repository: it settles or voids a transaction at   *)
(* any time, and is asked only when the owner comes back.                  *)
(***************************************************************************)
EXTENDS Naturals, FiniteSetsExt, Tables

CONSTANTS
  Requests,   \* calls of verify that can run at the same time
  Pays,       \* rows of subscription_payments
  Txs,        \* transaction identifiers of Wompi
  Plans,      \* SubscriptionPlan
  Length,     \* ticks a plan lasts
  Trial,      \* the tick the trial ends at
  CacheLife,  \* CACHE_MS in ticks
  MaxTime     \* bound on the clock

VARIABLES
  now,      \* the clock
  status,   \* business.subscriptionStatus
  end,      \* business.currentPeriodEnd, 0 when null
  pays,     \* the subscription_payments table
  gateway,  \* Wompi's transactions
  cache,    \* the guard's answer about this business
  reading,  \* answers the guard has read and not stored yet
  req,      \* the calls of verify in flight
  granted,  \* history: how many times a payment moved the end
  was       \* history: the last tick each answer of the guard was true

vars == <<now, status, end, pays, gateway, cache, reading, req, granted, was>>
business == <<status, end>>
guard == <<cache, reading>>

TransactionStatuses == {"PENDING", "PAID", "FAILED"}
Pay == [plan : Plans, status : TransactionStatuses]
Transaction == [ref : Pays, status : TransactionStatuses]

\* What the parameters must be.
Assumptions ==
  /\ Length \in [Plans -> Nat \ {0}]
  /\ Trial \in Nat /\ CacheLife \in Nat /\ MaxTime \in Nat
  /\ None \notin Pay \cup Transaction \cup Pays \cup TransactionStatuses
  /\ None \notin [blocked : BOOLEAN, at : Nat]

Idle == [step |-> "idle", ref |-> None, learnt |-> None, from |-> 0]
IsIdle(r) == req[r] = Idle
Advance(r, fields) == req' = [req EXCEPT ![r] = fields]
Reply(r) == req' = [req EXCEPT ![r] = Idle]

\* isBlocked: what the guard answers about a business.
IsBlocked(st, e, t) ==
  CASE st = "ACTIVE"   -> e < t
    [] st = "TRIALING" -> Trial < t
    [] OTHER           -> TRUE

Blocked == IsBlocked(status, end, now)

\* Every step keeps the history of the answer up to date.
Remember ==
  was' = [was EXCEPT ![IsBlocked(status', end', now')] = now']

Init ==
  /\ now = 0 /\ status = "TRIALING" /\ end = 0
  /\ pays = [p \in Pays |-> None] /\ gateway = [t \in Txs |-> None]
  /\ cache = None /\ reading = {}
  /\ req = [r \in Requests |-> Idle]
  /\ granted = [p \in Pays |-> 0]
  /\ was = [b \in BOOLEAN |-> 0]

addPeriod(from, plan) == from + Length[plan]
daysUntil(t) == IF t > now THEN t - now ELSE 0

\* get: the days the page of the subscription says are left.
daysLeft == daysUntil(IF status = "TRIALING" THEN Trial ELSE end)

-----------------------------------------------------------------------------
Checkout(p) ==
  /\ p \in NewId(pays)
  /\ \E plan \in Plans :
       pays' = [pays EXCEPT ![p] = [plan |-> plan, status |-> "PENDING"]]
  /\ UNCHANGED <<now, business, gateway, guard, req, granted>>

\* The owner pays at Wompi, which later approves, declines or voids.
PayOnline(t) ==
  /\ t \in NewId(gateway)
  /\ \E p \in Pays :
       /\ pays[p] # None
       /\ gateway' = [gateway EXCEPT ![t] = [ref |-> p, status |-> "PENDING"]]
  /\ UNCHANGED <<now, business, pays, guard, req, granted>>

Settle(t) ==
  /\ gateway[t] # None /\ gateway[t].status # "FAILED"
  /\ gateway' = [gateway EXCEPT
       ![t].status = IF @ = "PENDING" THEN "PAID" ELSE "FAILED"]
  /\ UNCHANGED <<now, business, pays, guard, req, granted>>

\* verify asks Wompi about the transaction it was given.
Fetch(r, t) ==
  /\ IsIdle(r) /\ gateway[t] # None
  /\ Advance(r, [Idle EXCEPT !.step = "payment",
                   !.ref = gateway[t].ref, !.learnt = gateway[t].status])
  /\ UNCHANGED <<now, business, pays, gateway, guard, granted>>

\* Mutant of AfterPayment: a paid payment is not an early return.
AfterPaymentAgain(p, learnt) == IF learnt = "PAID" THEN "business" ELSE "note"

AfterPayment(p, learnt) ==
  IF p.status = "PAID" THEN "idle"
  ELSE IF learnt = "PAID" THEN "business" ELSE "note"

ReadPayment(r) ==
  LET q == req[r]
      step == AfterPayment(pays[q.ref], q.learnt)
  IN /\ q.step = "payment"
     /\ Advance(r, IF step = "idle" THEN Idle ELSE [q EXCEPT !.step = step])
     /\ UNCHANGED <<now, business, pays, gateway, guard, granted>>

\* Mutant of WriteNote: the status is stored in Wompi's words.
WriteNoteRaw(r) ==
  /\ req[r].step = "note"
  /\ pays' = [pays EXCEPT ![req[r].ref].status =
       IF req[r].learnt = "FAILED" THEN "DECLINED" ELSE req[r].learnt]
  /\ Reply(r)
  /\ UNCHANGED <<now, business, gateway, guard, granted>>

WriteNote(r) ==
  /\ req[r].step = "note"
  /\ pays' = [pays EXCEPT ![req[r].ref].status = req[r].learnt]
  /\ Reply(r)
  /\ UNCHANGED <<now, business, gateway, guard, granted>>

\* Mutant of From: a renewal begins today.
FromToday == now

\* A renewal before the end begins at the end.
From == Max({end, now})

ReadBusiness(r) ==
  /\ req[r].step = "business"
  /\ Advance(r, [req[r] EXCEPT !.step = "paid", !.from = From])
  /\ UNCHANGED <<now, business, pays, gateway, guard, granted>>

WritePaid(r) ==
  LET p == req[r].ref IN
  /\ req[r].step = "paid"
  /\ pays' = [pays EXCEPT ![p].status = "PAID"]
  /\ status' = "ACTIVE" /\ end' = addPeriod(req[r].from, pays[p].plan)
  /\ granted' = [granted EXCEPT ![p] = IF end' # end THEN @ + 1 ELSE @]
  /\ Reply(r)
  /\ UNCHANGED <<now, gateway, guard>>

\* The nightly job, one conditional statement.
MarkExpired ==
  /\ \/ status = "TRIALING" /\ Trial < now
     \/ status = "ACTIVE" /\ end < now
  /\ status' = "PAST_DUE"
  /\ UNCHANGED <<now, end, pays, gateway, guard, req, granted>>

-----------------------------------------------------------------------------
(* The guard.                                                              *)

Fresh == cache # None /\ now < cache.at + CacheLife

\* Mutant of GuardRead: an answer from the cache makes it fresh again.
GuardReadSliding ==
  /\ \/ /\ Fresh
        /\ cache' = [cache EXCEPT !.at = now]
        /\ UNCHANGED reading
     \/ /\ ~ Fresh
        /\ reading' = reading \cup {Blocked}
        /\ UNCHANGED cache
  /\ UNCHANGED <<now, business, pays, gateway, req, granted>>

\* A request that writes, of a panel nothing fresh is stored about.
GuardRead ==
  /\ ~ Fresh
  /\ reading' = reading \cup {Blocked}
  /\ UNCHANGED <<now, business, pays, gateway, cache, req, granted>>

GuardStore ==
  /\ \E b \in reading :
       /\ cache' = [blocked |-> b, at |-> now]
       /\ reading' = reading \ {b}
  /\ UNCHANGED <<now, business, pays, gateway, req, granted>>

\* The process dies and comes back: nothing of it was stored.
Restart ==
  /\ cache' = None /\ reading' = {}
  /\ req' = [r \in Requests |-> Idle]
  /\ UNCHANGED <<now, business, pays, gateway, granted>>

Tick ==
  /\ now < MaxTime /\ reading = {}
  /\ now' = now + 1
  /\ UNCHANGED <<business, pays, gateway, guard, req, granted>>

Move ==
  \/ \E p \in Pays : Checkout(p)
  \/ \E t \in Txs : PayOnline(t) \/ Settle(t) \/ \E r \in Requests : Fetch(r, t)
  \/ \E r \in Requests :
       ReadPayment(r) \/ WriteNote(r) \/ ReadBusiness(r) \/ WritePaid(r)
  \/ MarkExpired \/ GuardRead \/ GuardStore \/ Restart \/ Tick

Next == Move /\ Remember

Spec == Init /\ [][Next]_vars
-----------------------------------------------------------------------------
(* Properties.                                                             *)

\* Tables, cache and requests have their shape.
TypeOK ==
  /\ now \in Nat /\ end \in Nat
  /\ status \in {"TRIALING", "ACTIVE", "PAST_DUE"}
  /\ pays \in [Pays -> Pay \cup {None}]
  /\ gateway \in [Txs -> Transaction \cup {None}]
  /\ cache \in [blocked : BOOLEAN, at : Nat] \cup {None} /\ reading \subseteq BOOLEAN
  /\ req \in [Requests ->
       [step : {"idle", "payment", "note", "business", "paid"},
        ref : Pays \cup {None}, learnt : TransactionStatuses \cup {None},
        from : Nat]]
  /\ granted \in [Pays -> Nat] /\ was \in [BOOLEAN -> Nat]

\* A payment moves the end of the period once, however often it is verified
\* and whatever Wompi says of its transactions in between.
CountsOnce == \A p \in Pays : granted[p] <= 1

\* The payment that is recorded adds the whole of its plan to the time the
\* business already had.
PaidTimeKept ==
  [][\A p \in Pays :
       pays[p] # None /\ pays[p].status # "PAID" /\ pays'[p].status = "PAID" =>
         end' >= addPeriod(end, pays[p].plan)]_vars

\* What the guard answers from its cache was true less than CacheLife ago,
\* payments, nights and restarts in between included; and no business is
\* blocked to which the page of its subscription gives days.
AnswerWasTrue ==
  /\ cache # None /\ now < cache.at + CacheLife =>
       now < was[cache.blocked] + CacheLife
  /\ Blocked => daysLeft = 0
=============================================================================
