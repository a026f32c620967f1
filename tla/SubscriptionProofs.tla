-------------------------- MODULE SubscriptionProofs --------------------------
(***************************************************************************)
(* Theorems about Subscription for every set of payments, transactions and *)
(* plans, however long periods, trial and cache last.  What is counted is  *)
(* proved for calls of verify that do not meet on a payment or on the end. *)
(***************************************************************************)
EXTENDS Subscription, TLAPS

\* Every transaction and every call of verify is about a payment that exists.
Referring ==
  /\ \A t \in Txs : gateway[t] # None => pays[gateway[t].ref] # None
  /\ \A r \in Requests :
       req[r].step # "idle" =>
         /\ req[r].ref \in Pays /\ pays[req[r].ref] # None
         /\ req[r].learnt \in TransactionStatuses

\* The end of a period that is not running has passed.
Ended ==
  /\ status = "TRIALING" => end = 0
  /\ status = "PAST_DUE" => end <= now

\* An answer in the cache was true when it was stored, or later.
Remembered ==
  /\ \A b \in BOOLEAN : was[b] <= now
  /\ was[Blocked] = now
  /\ \A b \in reading : was[b] = now
  /\ cache # None => cache.at <= now /\ cache.at <= was[cache.blocked]

IInv == TypeOK /\ Referring /\ Ended /\ Remembered

USE DEF IsIdle, Advance, Reply, business, guard

-----------------------------------------------------------------------------
(* What the clock and the answers do in every step.                        *)

LEMMA BlockedIsBoolean ==
  ASSUME NEW st, NEW e \in Nat, NEW t \in Nat
  PROVE  IsBlocked(st, e, t) \in BOOLEAN
<1>1. CASE st = "ACTIVE"
  <2>1. IsBlocked(st, e, t) = (e < t)
    BY <1>1 DEF IsBlocked
  <2> QED
    BY <2>1
<1>2. CASE st = "TRIALING"
  <2>1. IsBlocked(st, e, t) = (Trial < t)
    BY <1>2 DEF IsBlocked
  <2> QED
    BY <2>1
<1>3. CASE st # "ACTIVE" /\ st # "TRIALING"
  <2>1. IsBlocked(st, e, t) = TRUE
    BY <1>3 DEF IsBlocked
  <2> QED
    BY <2>1
<1> QED
  BY <1>1, <1>2, <1>3

\* The end of a renewal does not come before the present one.
LEMMA FromIsLater ==
  ASSUME TypeOK
  PROVE  From \in Nat /\ From >= end
<1>1. end \in Nat /\ now \in Nat
  BY DEF TypeOK
<1>2. \E x \in {end, now} : \A y \in {end, now} : x >= y
  BY <1>1
<1>3. From \in {end, now} /\ From >= end
  BY <1>2 DEF From, Max
<1> QED
  BY <1>1, <1>3

\* Every step dates the answer that is true after it, and forgets none.
LEMMA WasGrows ==
  ASSUME IInv, Remember, end' \in Nat, now' \in Nat, now' >= now
  PROVE  /\ was' \in [BOOLEAN -> Nat]
         /\ was'[Blocked'] = now' /\ Blocked' \in BOOLEAN
         /\ \A b \in BOOLEAN : was[b] <= was'[b] /\ was'[b] <= now'
<1>1. Blocked' \in BOOLEAN
  BY BlockedIsBoolean DEF Blocked
<1>2. was' = [was EXCEPT ![Blocked'] = now']
  BY DEF Remember, Blocked
<1>3. was \in [BOOLEAN -> Nat] /\ now \in Nat
  BY DEF IInv, TypeOK
<1>4. \A b \in BOOLEAN : was[b] <= now
  BY DEF IInv, Remembered
<1> QED
  BY <1>1, <1>2, <1>3, <1>4

\* An answer stored before stays true as late as it was.
LEMMA CacheStays ==
  ASSUME IInv, Remember, end' \in Nat, now' \in Nat, now' >= now,
         UNCHANGED cache
  PROVE  cache' # None => cache'.at <= now' /\ cache'.at <= was'[cache'.blocked]
<1> SUFFICES ASSUME cache # None
             PROVE  cache.at <= now' /\ cache.at <= was'[cache.blocked]
  OBVIOUS
<1>1. cache.at \in Nat /\ cache.blocked \in BOOLEAN
  BY DEF IInv, TypeOK
<1>2. cache.at <= now /\ cache.at <= was[cache.blocked]
  BY DEF IInv, Remembered
<1>3. was[cache.blocked] <= was'[cache.blocked]
  BY <1>1, WasGrows
<1>4. was[cache.blocked] \in Nat /\ was'[cache.blocked] \in Nat /\ now \in Nat
  BY <1>1, WasGrows DEF IInv, TypeOK
<1> QED
  BY <1>1, <1>2, <1>3, <1>4

\* Steps that leave the clock and the guard alone keep what is remembered.
LEMMA RememberKeeps ==
  ASSUME IInv, Remember, UNCHANGED <<now, cache, reading>>, end' \in Nat
  PROVE  Remembered'
<1>1. now \in Nat /\ now' >= now /\ now' \in Nat
  BY DEF IInv, TypeOK
<1>2. \A b \in reading' : was'[b] = now'
  <2> SUFFICES ASSUME NEW b \in reading PROVE was'[b] = now
    OBVIOUS
  <2>1. b \in BOOLEAN /\ was[b] = now
    BY DEF IInv, TypeOK, Remembered
  <2>2. was[b] <= was'[b] /\ was'[b] <= now /\ was'[b] \in Nat
    BY <1>1, <2>1, WasGrows
  <2> QED
    BY <1>1, <2>1, <2>2
<1> QED
  BY <1>1, <1>2, WasGrows, CacheStays DEF Remembered

-----------------------------------------------------------------------------
(* One lemma per action or group of actions.                               *)

LEMMA CheckoutKeeps ==
  ASSUME IInv, Assumptions, Remember, NEW p \in Pays, Checkout(p)
  PROVE  IInv'
<1>1. PICK plan \in Plans :
        pays' = [pays EXCEPT ![p] = [plan |-> plan, status |-> "PENDING"]]
  BY DEF Checkout
<1>2. UNCHANGED <<now, status, end, gateway, cache, reading, req, granted>>
  BY DEF Checkout
<1>3. [plan |-> plan, status |-> "PENDING"] \in Pay
  BY DEF Pay, TransactionStatuses
<1>4. TypeOK'
  BY <1>1, <1>2, <1>3, WasGrows DEF IInv, TypeOK
<1>5. \A x \in Pays : pays[x] # None => pays'[x] # None
  BY <1>1, <1>3 DEF IInv, TypeOK, Assumptions
<1>6. Referring'
  <2>1. \A t \in Txs : gateway[t] # None => gateway[t].ref \in Pays
    BY DEF IInv, TypeOK, Transaction
  <2> QED
    BY <1>2, <1>5, <2>1 DEF IInv, Referring
<1>7. Ended'
  BY <1>2 DEF IInv, Ended
<1>8. Remembered'
  BY <1>2, RememberKeeps DEF IInv, TypeOK
<1> QED
  BY <1>4, <1>6, <1>7, <1>8 DEF IInv

LEMMA PayOnlineKeeps ==
  ASSUME IInv, Assumptions, Remember, NEW t \in Txs, PayOnline(t)
  PROVE  IInv'
<1>1. PICK p \in Pays :
        /\ pays[p] # None
        /\ gateway' = [gateway EXCEPT ![t] = [ref |-> p, status |-> "PENDING"]]
  BY DEF PayOnline
<1>2. UNCHANGED <<now, status, end, pays, cache, reading, req, granted>>
  BY DEF PayOnline
<1>3. [ref |-> p, status |-> "PENDING"] \in Transaction
  BY DEF Transaction, TransactionStatuses
<1>4. TypeOK'
  BY <1>1, <1>2, <1>3, WasGrows DEF IInv, TypeOK
<1>5. Referring'
  BY <1>1, <1>2 DEF IInv, Referring, TypeOK
<1>6. Ended'
  BY <1>2 DEF IInv, Ended
<1>7. Remembered'
  BY <1>2, RememberKeeps DEF IInv, TypeOK
<1> QED
  BY <1>4, <1>5, <1>6, <1>7 DEF IInv

LEMMA SettleKeeps ==
  ASSUME IInv, Assumptions, Remember, NEW t \in Txs, Settle(t)
  PROVE  IInv'
<1> DEFINE g == [gateway[t] EXCEPT
                   !.status = IF @ = "PENDING" THEN "PAID" ELSE "FAILED"]
<1>1. gateway' = [gateway EXCEPT ![t] = g] /\ gateway[t] # None
  BY DEF Settle
<1>2. UNCHANGED <<now, status, end, pays, cache, reading, req, granted>>
  BY DEF Settle
<1>3. gateway[t] \in Transaction
  BY <1>1 DEF IInv, TypeOK
<1>4. g \in Transaction /\ g.ref = gateway[t].ref
  BY <1>3 DEF Transaction, TransactionStatuses
<1> HIDE DEF g
<1>5. TypeOK'
  BY <1>1, <1>2, <1>4, WasGrows DEF IInv, TypeOK
<1>6. Referring'
  BY <1>1, <1>2, <1>4 DEF IInv, Referring, TypeOK
<1>7. Ended'
  BY <1>2 DEF IInv, Ended
<1>8. Remembered'
  BY <1>2, RememberKeeps DEF IInv, TypeOK
<1> QED
  BY <1>5, <1>6, <1>7, <1>8 DEF IInv

\* Steps of verify that only take it further, or end it.
LEMMA FurtherKeeps ==
  ASSUME IInv, Assumptions, Remember, NEW r \in Requests, NEW q,
         Advance(r, q), UNCHANGED <<now, business, pays, gateway, guard, granted>>,
         \/ q = Idle
         \/ /\ q \in [step : {"payment", "note", "business", "paid"}, ref : Pays,
                      learnt : TransactionStatuses, from : Nat]
            /\ pays[q.ref] # None
  PROVE  IInv'
<1>1. q \in [step : {"idle", "payment", "note", "business", "paid"},
             ref : Pays \cup {None}, learnt : TransactionStatuses \cup {None},
             from : Nat]
  BY DEF Idle
<1>2. TypeOK'
  BY <1>1, WasGrows DEF IInv, TypeOK
<1>3. q.step # "idle" =>
        q.ref \in Pays /\ pays[q.ref] # None /\ q.learnt \in TransactionStatuses
  BY DEF Idle
<1>4. Referring'
  BY <1>3 DEF IInv, Referring, TypeOK
<1>5. Ended'
  BY DEF IInv, Ended
<1>6. Remembered'
  BY RememberKeeps DEF IInv, TypeOK
<1> QED
  BY <1>2, <1>4, <1>5, <1>6 DEF IInv

LEMMA FetchKeeps ==
  ASSUME IInv, Assumptions, Remember, NEW r \in Requests, NEW t \in Txs, Fetch(r, t)
  PROVE  IInv'
<1> DEFINE q == [Idle EXCEPT !.step = "payment",
                   !.ref = gateway[t].ref, !.learnt = gateway[t].status]
<1>1. gateway[t] \in Transaction /\ pays[gateway[t].ref] # None
  BY DEF Fetch, IInv, TypeOK, Referring
<1>2. /\ q \in [step : {"payment", "note", "business", "paid"}, ref : Pays,
                learnt : TransactionStatuses, from : Nat]
      /\ pays[q.ref] # None
  BY <1>1 DEF Idle, Transaction
<1>3. /\ Advance(r, q)
      /\ UNCHANGED <<now, business, pays, gateway, guard, granted>>
  BY DEF Fetch
<1> HIDE DEF q
<1> QED
  BY <1>2, <1>3, FurtherKeeps

LEMMA ReadPaymentKeeps ==
  ASSUME IInv, Assumptions, Remember, NEW r \in Requests, ReadPayment(r)
  PROVE  IInv'
<1> DEFINE step == AfterPayment(pays[req[r].ref], req[r].learnt)
<1> DEFINE q == IF step = "idle" THEN Idle ELSE [req[r] EXCEPT !.step = step]
<1>1. step \in {"idle", "note", "business"}
  BY DEF AfterPayment
<1>2. /\ req[r].ref \in Pays /\ pays[req[r].ref] # None
      /\ req[r].learnt \in TransactionStatuses
  BY DEF ReadPayment, IInv, Referring
<1>3. req[r] \in [step : {"idle", "payment", "note", "business", "paid"},
                  ref : Pays \cup {None},
                  learnt : TransactionStatuses \cup {None}, from : Nat]
  BY DEF IInv, TypeOK
<1> HIDE DEF step
<1>4. \/ q = Idle
      \/ /\ q \in [step : {"payment", "note", "business", "paid"}, ref : Pays,
                   learnt : TransactionStatuses, from : Nat]
         /\ pays[q.ref] # None
  BY <1>1, <1>2, <1>3
<1>5. /\ Advance(r, q)
      /\ UNCHANGED <<now, business, pays, gateway, guard, granted>>
  BY DEF ReadPayment, step
<1> HIDE DEF q
<1> QED
  BY <1>4, <1>5, FurtherKeeps

LEMMA ReadBusinessKeeps ==
  ASSUME IInv, Assumptions, Remember, NEW r \in Requests, ReadBusiness(r)
  PROVE  IInv'
<1> DEFINE q == [req[r] EXCEPT !.step = "paid", !.from = From]
<1>1. From \in Nat
  BY FromIsLater DEF IInv
<1>2. /\ req[r].ref \in Pays /\ pays[req[r].ref] # None
      /\ req[r].learnt \in TransactionStatuses
  BY DEF ReadBusiness, IInv, Referring
<1>3. req[r] \in [step : {"idle", "payment", "note", "business", "paid"},
                  ref : Pays \cup {None},
                  learnt : TransactionStatuses \cup {None}, from : Nat]
  BY DEF IInv, TypeOK
<1>4. /\ q \in [step : {"payment", "note", "business", "paid"}, ref : Pays,
                learnt : TransactionStatuses, from : Nat]
      /\ pays[q.ref] # None
  BY <1>1, <1>2, <1>3
<1>5. /\ Advance(r, q)
      /\ UNCHANGED <<now, business, pays, gateway, guard, granted>>
  BY DEF ReadBusiness
<1> HIDE DEF q
<1> QED
  BY <1>4, <1>5, FurtherKeeps

\* A row of payments that is written stays a row, and its call ends.
LEMMA WrittenKeeps ==
  ASSUME IInv, Assumptions, Remember, NEW r \in Requests, NEW p \in Pays,
         NEW row \in Pay, end' \in Nat, granted' \in [Pays -> Nat],
         status' \in {"TRIALING", "ACTIVE", "PAST_DUE"},
         pays' = [pays EXCEPT ![p] = row], Reply(r),
         UNCHANGED <<now, gateway, cache, reading>>
  PROVE  TypeOK' /\ Referring'
<1>1. now \in Nat /\ now >= now /\ row # None
  BY DEF IInv, TypeOK, Assumptions
<1>2. TypeOK'
  BY <1>1, WasGrows DEF IInv, TypeOK, Idle
<1>3. \A x \in Pays : pays[x] # None => pays'[x] # None
  BY <1>1 DEF IInv, TypeOK
<1>4. \A t \in Txs : gateway[t] # None => gateway[t].ref \in Pays
  BY DEF IInv, TypeOK, Transaction
<1>5. Referring'
  BY <1>3, <1>4 DEF IInv, Referring, TypeOK, Idle
<1> QED
  BY <1>2, <1>5

LEMMA WriteNoteKeeps ==
  ASSUME IInv, Assumptions, Remember, NEW r \in Requests, WriteNote(r)
  PROVE  IInv'
<1> DEFINE p == req[r].ref
<1> DEFINE row == [pays[p] EXCEPT !.status = req[r].learnt]
<1>1. p \in Pays /\ pays[p] # None /\ req[r].learnt \in TransactionStatuses
  BY DEF WriteNote, IInv, Referring
<1>2. pays[p] \in Pay
  BY <1>1 DEF IInv, TypeOK
<1>3. row \in Pay
  BY <1>1, <1>2 DEF Pay
<1>4. pays' = [pays EXCEPT ![p] = row] /\ req' = [req EXCEPT ![r] = Idle]
  BY DEF WriteNote
<1>5. UNCHANGED <<now, status, end, gateway, cache, reading, granted>>
  BY DEF WriteNote
<1> HIDE DEF row
<1> QED
  BY <1>1, <1>3, <1>4, <1>5, WrittenKeeps, RememberKeeps DEF IInv, TypeOK, Ended

LEMMA WritePaidKeeps ==
  ASSUME IInv, Assumptions, Remember, NEW r \in Requests, WritePaid(r)
  PROVE  IInv'
<1> DEFINE p == req[r].ref
<1> DEFINE row == [pays[p] EXCEPT !.status = "PAID"]
<1>1. p \in Pays /\ pays[p] # None
  BY DEF WritePaid, IInv, Referring
<1>2. pays[p] \in Pay
  BY <1>1 DEF IInv, TypeOK
<1>3. row \in Pay
  BY <1>2 DEF Pay, TransactionStatuses
<1>4. pays' = [pays EXCEPT ![p] = row] /\ req' = [req EXCEPT ![r] = Idle]
  BY DEF WritePaid
<1>5. UNCHANGED <<now, gateway, cache, reading>> /\ status' = "ACTIVE"
  BY DEF WritePaid
<1>6. end' \in Nat
  <2>1. req[r].from \in Nat /\ Length[pays[p].plan] \in Nat
    BY <1>2 DEF IInv, TypeOK, Pay, Assumptions
  <2> QED
    BY <2>1 DEF WritePaid, addPeriod
<1>7. granted' \in [Pays -> Nat]
  <2>1. granted' = [granted EXCEPT ![p] = IF end' # end THEN granted[p] + 1
                                                         ELSE granted[p]]
    BY DEF WritePaid
  <2>2. granted \in [Pays -> Nat]
    BY DEF IInv, TypeOK
  <2> QED
    BY <1>1, <2>1, <2>2
<1> HIDE DEF row
<1>8. TypeOK' /\ Referring'
  BY <1>1, <1>3, <1>4, <1>5, <1>6, <1>7, WrittenKeeps
<1>9. Ended'
  BY <1>5 DEF Ended
<1>10. Remembered'
  BY <1>5, <1>6, RememberKeeps
<1> QED
  BY <1>8, <1>9, <1>10 DEF IInv

LEMMA MarkExpiredKeeps ==
  ASSUME IInv, Assumptions, Remember, MarkExpired
  PROVE  IInv'
<1>1. /\ UNCHANGED <<now, end, pays, gateway, cache, reading, req, granted>>
      /\ status' = "PAST_DUE"
  BY DEF MarkExpired
<1>2. now \in Nat /\ end \in Nat
  BY DEF IInv, TypeOK
<1>3. TypeOK'
  BY <1>1, WasGrows DEF IInv, TypeOK
<1>4. Referring'
  BY <1>1 DEF IInv, Referring
<1>5. Ended'
  BY <1>1, <1>2 DEF MarkExpired, IInv, Ended
<1>6. Remembered'
  BY <1>1, <1>2, RememberKeeps
<1> QED
  BY <1>3, <1>4, <1>5, <1>6 DEF IInv

LEMMA GuardReadKeeps ==
  ASSUME IInv, Assumptions, Remember, GuardRead
  PROVE  IInv'
<1>1. /\ UNCHANGED <<now, status, end, pays, gateway, cache, req, granted>>
      /\ reading' = reading \cup {Blocked}
  BY DEF GuardRead
<1>2. now \in Nat /\ end \in Nat /\ now >= now
  BY DEF IInv, TypeOK
<1>3. Blocked \in BOOLEAN /\ Blocked' = Blocked
  BY <1>1, <1>2, BlockedIsBoolean DEF Blocked
<1>4. TypeOK'
  BY <1>1, <1>2, <1>3, WasGrows DEF IInv, TypeOK
<1>5. Referring'
  BY <1>1 DEF IInv, Referring
<1>6. Ended'
  BY <1>1 DEF IInv, Ended
<1>7. \A b \in reading' : was'[b] = now'
  <2>1. was'[Blocked] = now
    BY <1>1, <1>2, <1>3, WasGrows
  <2>2. \A b \in reading : was'[b] = now
    <3> SUFFICES ASSUME NEW b \in reading PROVE was'[b] = now
      OBVIOUS
    <3>1. b \in BOOLEAN /\ was[b] = now
      BY DEF IInv, TypeOK, Remembered
    <3>2. was[b] <= was'[b] /\ was'[b] <= now /\ was'[b] \in Nat
      BY <1>1, <1>2, <3>1, WasGrows
    <3> QED
      BY <1>2, <3>1, <3>2
  <2> QED
    BY <1>1, <2>1, <2>2
<1>8. Remembered'
  BY <1>1, <1>2, <1>7, WasGrows, CacheStays DEF Remembered
<1> QED
  BY <1>4, <1>5, <1>6, <1>8 DEF IInv

LEMMA GuardStoreKeeps ==
  ASSUME IInv, Assumptions, Remember, GuardStore
  PROVE  IInv'
<1>1. PICK b \in reading : /\ cache' = [blocked |-> b, at |-> now]
                           /\ reading' = reading \ {b}
  BY DEF GuardStore
<1>2. UNCHANGED <<now, status, end, pays, gateway, req, granted>>
  BY DEF GuardStore
<1>3. now \in Nat /\ end \in Nat /\ now >= now /\ b \in BOOLEAN
  BY DEF IInv, TypeOK
<1>4. TypeOK'
  BY <1>1, <1>2, <1>3, WasGrows DEF IInv, TypeOK
<1>5. Referring'
  BY <1>2 DEF IInv, Referring
<1>6. Ended'
  BY <1>2 DEF IInv, Ended
<1>7. \A x \in reading : was'[x] = now
  <2> SUFFICES ASSUME NEW x \in reading PROVE was'[x] = now
    OBVIOUS
  <2>1. x \in BOOLEAN /\ was[x] = now
    BY DEF IInv, TypeOK, Remembered
  <2>2. was[x] <= was'[x] /\ was'[x] <= now /\ was'[x] \in Nat
    BY <1>2, <1>3, <2>1, WasGrows
  <2> QED
    BY <1>3, <2>1, <2>2
<1>8. \A x \in BOOLEAN : was'[x] <= now'
  BY <1>2, <1>3, WasGrows
<1>9. was'[Blocked'] = now'
  BY <1>2, <1>3, WasGrows
<1>10. cache'.at <= now' /\ cache'.at <= was'[cache'.blocked]
  BY <1>1, <1>2, <1>3, <1>7
<1>11. Remembered'
  BY <1>1, <1>2, <1>7, <1>8, <1>9, <1>10 DEF Remembered
<1> QED
  BY <1>4, <1>5, <1>6, <1>11 DEF IInv

LEMMA RestartKeeps ==
  ASSUME IInv, Assumptions, Remember, Restart
  PROVE  IInv'
<1>1. /\ UNCHANGED <<now, status, end, pays, gateway, granted>>
      /\ cache' = None /\ reading' = {} /\ req' = [r \in Requests |-> Idle]
  BY DEF Restart
<1>2. now \in Nat /\ end \in Nat /\ now >= now
  BY DEF IInv, TypeOK
<1>3. TypeOK'
  BY <1>1, <1>2, WasGrows DEF IInv, TypeOK, Idle
<1>4. Referring'
  BY <1>1 DEF IInv, Referring, Idle
<1>5. Ended'
  BY <1>1 DEF IInv, Ended
<1>6. Remembered'
  BY <1>1, <1>2, WasGrows DEF Remembered
<1> QED
  BY <1>3, <1>4, <1>5, <1>6 DEF IInv

LEMMA TickKeeps ==
  ASSUME IInv, Assumptions, Remember, Tick
  PROVE  IInv'
<1>1. /\ UNCHANGED <<status, end, pays, gateway, cache, reading, req, granted>>
      /\ now' = now + 1 /\ reading = {}
  BY DEF Tick
<1>2. now \in Nat /\ end \in Nat /\ now' \in Nat /\ now' >= now
  BY <1>1 DEF IInv, TypeOK
<1>3. TypeOK'
  BY <1>1, <1>2, WasGrows DEF IInv, TypeOK
<1>4. Referring'
  BY <1>1 DEF IInv, Referring
<1>5. Ended'
  BY <1>1, <1>2 DEF IInv, Ended
<1>6. Remembered'
  BY <1>1, <1>2, WasGrows, CacheStays DEF Remembered
<1> QED
  BY <1>3, <1>4, <1>5, <1>6 DEF IInv

-----------------------------------------------------------------------------
(* The theorems.                                                           *)

LEMMA Initial == ASSUME Assumptions, Init PROVE IInv
<1>1. TypeOK
  BY DEF Init, TypeOK, Idle
<1>2. Referring
  BY DEF Init, Referring, Idle
<1>3. Ended
  BY DEF Init, Ended
<1>4. Blocked \in BOOLEAN
  BY <1>1, BlockedIsBoolean DEF TypeOK, Blocked
<1>5. Remembered
  BY <1>4 DEF Init, Remembered
<1> QED
  BY <1>1, <1>2, <1>3, <1>5 DEF IInv

LEMMA Inductive == ASSUME Assumptions, IInv, [Next]_vars PROVE IInv'
<1>1. CASE UNCHANGED vars
  <2>1. Blocked' = Blocked
    BY <1>1 DEF vars, Blocked
  <2> QED
    BY <1>1, <2>1 DEF vars, IInv, TypeOK, Referring, Ended, Remembered
<1>2. CASE Next
  <2> USE <1>2 DEF Next
  <2>1. ASSUME NEW p \in Pays, Checkout(p) PROVE IInv'
    BY <2>1, CheckoutKeeps
  <2>2. ASSUME NEW t \in Txs, PayOnline(t) PROVE IInv'
    BY <2>2, PayOnlineKeeps
  <2>3. ASSUME NEW t \in Txs, Settle(t) PROVE IInv'
    BY <2>3, SettleKeeps
  <2>4. ASSUME NEW t \in Txs, NEW r \in Requests, Fetch(r, t) PROVE IInv'
    BY <2>4, FetchKeeps
  <2>5. ASSUME NEW r \in Requests, ReadPayment(r) PROVE IInv'
    BY <2>5, ReadPaymentKeeps
  <2>6. ASSUME NEW r \in Requests, WriteNote(r) PROVE IInv'
    BY <2>6, WriteNoteKeeps
  <2>7. ASSUME NEW r \in Requests, ReadBusiness(r) PROVE IInv'
    BY <2>7, ReadBusinessKeeps
  <2>8. ASSUME NEW r \in Requests, WritePaid(r) PROVE IInv'
    BY <2>8, WritePaidKeeps
  <2> QED
    BY <2>1, <2>2, <2>3, <2>4, <2>5, <2>6, <2>7, <2>8, MarkExpiredKeeps,
       GuardReadKeeps, GuardStoreKeeps, RestartKeeps, TickKeeps DEF Move
<1> QED
  BY <1>1, <1>2

\* Tables, cache and requests keep their shape, for any number of calls of
\* verify, payments, transactions and plans.
THEOREM TypeCorrect == ASSUME Assumptions PROVE Spec => []TypeOK
<1>1. Init => IInv
  BY Initial
<1>2. IInv /\ [Next]_vars => IInv'
  BY Inductive
<1>3. IInv => TypeOK
  BY DEF IInv
<1> QED
  BY <1>1, <1>2, <1>3, PTL DEF Spec

LEMMA Answered == ASSUME Assumptions, IInv PROVE AnswerWasTrue
<1>1. ASSUME cache # None, now < cache.at + CacheLife
      PROVE  now < was[cache.blocked] + CacheLife
  <2>1. cache.at \in Nat /\ was[cache.blocked] \in Nat /\ cache.at <= was[cache.blocked]
    BY <1>1 DEF IInv, TypeOK, Remembered
  <2> QED
    BY <1>1, <2>1 DEF IInv, TypeOK, Assumptions
<1>2. ASSUME Blocked PROVE daysLeft = 0
  <2>1. now \in Nat /\ end \in Nat /\ Trial \in Nat
    BY DEF IInv, TypeOK, Assumptions
  <2>2. CASE status = "ACTIVE"
    <3>1. end < now
      BY <1>2, <2>2 DEF Blocked, IsBlocked
    <3> QED
      BY <2>1, <2>2, <3>1 DEF daysLeft, daysUntil
  <2>3. CASE status = "TRIALING"
    <3>1. Trial < now
      BY <1>2, <2>3 DEF Blocked, IsBlocked
    <3> QED
      BY <2>1, <2>3, <3>1 DEF daysLeft, daysUntil
  <2>4. CASE status = "PAST_DUE"
    BY <2>1, <2>4 DEF IInv, Ended, daysLeft, daysUntil
  <2> QED
    BY <2>2, <2>3, <2>4 DEF IInv, TypeOK
<1> QED
  BY <1>1, <1>2 DEF AnswerWasTrue

\* The answer the guard gives from its cache was true less than CacheLife ago,
\* whatever was paid, expired or restarted meanwhile, and a business that has
\* days left is not blocked.
THEOREM GuardTellsTheTruth == ASSUME Assumptions PROVE Spec => []AnswerWasTrue
<1>1. Init => IInv
  BY Initial
<1>2. IInv /\ [Next]_vars => IInv'
  BY Inductive
<1>3. IInv => AnswerWasTrue
  BY Answered
<1> QED
  BY <1>1, <1>2, <1>3, PTL DEF Spec

-----------------------------------------------------------------------------
(* Calls of verify that do not meet.  A payment moves the end of the period *)
(* only when it becomes PAID; a call that is about to write knows a payment *)
(* that still is not, and an end that has not moved, as long as no other    *)
(* call is writing just that.                                               *)

\* A call about to record a payment that another one has found open.
SharesPayment(q, o) ==
  /\ q.step = "paid" /\ o.step \in {"note", "business", "paid"}
  /\ q.ref = o.ref

\* Two calls that have both read where the period ends, to extend it.
SharesEnd(q, o) == q.step = "paid" /\ o.step = "paid"

PaymentsApart == \A r, s \in Requests : r # s => ~ SharesPayment(req[r], req[s])
EndsApart == \A r, s \in Requests : r # s => ~ SharesEnd(req[r], req[s])

\* A single call meets nobody.
LEMMA OneIsApart ==
  ASSUME NEW r, Requests = {r} PROVE PaymentsApart /\ EndsApart
BY DEF PaymentsApart, EndsApart

Granted ==
  \A p \in Pays :
    \/ granted[p] = 0
    \/ granted[p] = 1 /\ pays[p] # None /\ pays[p].status = "PAID"

Unpaid(r) ==
  req[r].step \in {"note", "business", "paid"} => pays[req[r].ref].status # "PAID"
Learnt(r) == req[r].step = "note" => req[r].learnt # "PAID"
Later(r) == req[r].step = "paid" => req[r].from >= end

Counts == Granted /\ \A r \in Requests : Unpaid(r) /\ Learnt(r)
Extends == \A r \in Requests : Learnt(r) /\ Later(r)

\* Steps that write neither the payments nor the end, and leave every call
\* where it was or end it.
Quiet ==
  /\ UNCHANGED <<end, granted, pays>>
  /\ \A r \in Requests : req'[r] = req[r] \/ req'[r] = Idle

LEMMA QuietSteps ==
  ASSUME IInv,
         \/ UNCHANGED vars
         \/ \E t \in Txs : PayOnline(t) \/ Settle(t)
         \/ MarkExpired \/ GuardRead \/ GuardStore \/ Restart \/ Tick
  PROVE  Quiet
BY DEF vars, PayOnline, Settle, MarkExpired, GuardRead, GuardStore, Restart, Tick,
       Quiet

\* What the steps of one call do to it, and that they leave the others alone.
LEMMA CallSteps ==
  ASSUME IInv, NEW r \in Requests,
         \/ \E t \in Txs : Fetch(r, t)
         \/ ReadPayment(r) \/ WriteNote(r) \/ ReadBusiness(r) \/ WritePaid(r)
  PROVE  \A s \in Requests \ {r} : req'[s] = req[s]
BY DEF Fetch, ReadPayment, WriteNote, ReadBusiness, WritePaid, Advance, Reply,
       IInv, TypeOK

LEMMA ReadSteps ==
  ASSUME IInv, NEW r \in Requests,
         (\E t \in Txs : Fetch(r, t)) \/ ReadPayment(r) \/ ReadBusiness(r)
  PROVE  /\ UNCHANGED <<pays, end, granted>>
         /\ Unpaid(r) => Unpaid(r)'
         /\ Learnt(r)' /\ Later(r)'
<1> USE DEF Reply, Advance
<1>a. req \in [Requests -> [step : {"idle", "payment", "note", "business", "paid"},
                            ref : Pays \cup {None},
                            learnt : TransactionStatuses \cup {None}, from : Nat]]
  BY DEF IInv, TypeOK
<1>1. ASSUME NEW t \in Txs, Fetch(r, t)
      PROVE  req'[r].step = "payment" /\ UNCHANGED <<pays, end, granted>>
  BY <1>1, <1>a DEF Fetch, Idle
<1>2. CASE ReadPayment(r)
  <2> DEFINE p == pays[req[r].ref]
             step == AfterPayment(p, req[r].learnt)
  <2>1. \/ step = "idle"
        \/ step \in {"note", "business"} /\ p.status # "PAID"
    BY DEF AfterPayment
  <2>2. step = "note" => req[r].learnt # "PAID"
    BY DEF AfterPayment
  <2>3. /\ req'[r] = IF step = "idle" THEN Idle ELSE [req[r] EXCEPT !.step = step]
        /\ UNCHANGED <<pays, end, granted>>
    BY <1>2, <1>a DEF ReadPayment
  <2> HIDE DEF step
  <2>4. CASE step = "idle"
    BY <2>3, <2>4 DEF Unpaid, Learnt, Later, Idle
  <2>5. CASE step # "idle"
    <3>1. /\ req'[r].step = step /\ step \in {"note", "business"}
          /\ req'[r].ref = req[r].ref /\ req'[r].learnt = req[r].learnt
      BY <1>a, <2>1, <2>3, <2>5
    <3> QED
      BY <2>1, <2>2, <2>3, <2>5, <3>1 DEF Unpaid, Learnt, Later
  <2> QED
    BY <2>4, <2>5
<1>3. CASE ReadBusiness(r)
  <2>1. /\ req'[r] = [req[r] EXCEPT !.step = "paid", !.from = From]
        /\ UNCHANGED <<pays, end, granted>> /\ req[r].step = "business"
    BY <1>3, <1>a DEF ReadBusiness
  <2>2. /\ req'[r].ref = req[r].ref /\ req'[r].from = From
        /\ req'[r].step = "paid"
    BY <1>a, <2>1
  <2>3. From >= end
    BY FromIsLater DEF IInv
  <2> QED
    BY <2>1, <2>2, <2>3 DEF Unpaid, Learnt, Later
<1> QED
  BY <1>1, <1>2, <1>3 DEF Unpaid, Learnt, Later

\* The payment a call writes: the note keeps it open, the other one closes it.
LEMMA NoteWrites ==
  ASSUME IInv, NEW r \in Requests, Learnt(r), WriteNote(r)
  PROVE  /\ req'[r] = Idle /\ UNCHANGED <<end, granted>>
         /\ req[r].ref \in Pays /\ pays'[req[r].ref].status # "PAID"
         /\ \A x \in Pays \ {req[r].ref} : pays'[x] = pays[x]
<1> USE DEF Reply, Advance
<1> DEFINE p == req[r].ref
           row == [pays[p] EXCEPT !.status = req[r].learnt]
<1>1. p \in Pays /\ pays[p] # None /\ req[r].learnt # "PAID"
  BY DEF WriteNote, IInv, Referring, Learnt
<1>2. pays[p] \in Pay
  BY <1>1 DEF IInv, TypeOK
<1>3. row.status # "PAID"
  BY <1>1, <1>2 DEF Pay
<1>4. pays' = [pays EXCEPT ![p] = row] /\ UNCHANGED <<end, granted>>
  BY DEF WriteNote
<1>5. req'[r] = Idle
  BY DEF WriteNote, IInv, TypeOK
<1> HIDE DEF row
<1> QED
  BY <1>1, <1>3, <1>4, <1>5 DEF IInv, TypeOK

LEMMA PaidWrites ==
  ASSUME Assumptions, IInv, NEW r \in Requests, WritePaid(r)
  PROVE  /\ req'[r] = Idle /\ req[r].step = "paid"
         /\ req[r].ref \in Pays /\ pays'[req[r].ref] # None
         /\ pays'[req[r].ref].status = "PAID"
         /\ granted'[req[r].ref] \in {granted[req[r].ref], granted[req[r].ref] + 1}
         /\ \A x \in Pays \ {req[r].ref} :
              pays'[x] = pays[x] /\ granted'[x] = granted[x]
<1> USE DEF Reply, Advance
<1> DEFINE p == req[r].ref
           row == [pays[p] EXCEPT !.status = "PAID"]
<1>1. p \in Pays /\ pays[p] # None /\ req[r].step = "paid"
  BY DEF WritePaid, IInv, Referring
<1>2. pays[p] \in Pay
  BY <1>1 DEF IInv, TypeOK
<1>3. row.status = "PAID" /\ row \in Pay
  BY <1>2 DEF Pay, TransactionStatuses
<1>4. /\ pays' = [pays EXCEPT ![p] = row]
      /\ granted' = [granted EXCEPT ![p] = IF end' # end THEN granted[p] + 1
                                                         ELSE granted[p]]
  BY DEF WritePaid
<1>5. row # None
  BY <1>3 DEF Assumptions
<1>6. req'[r] = Idle
  BY DEF WritePaid, IInv, TypeOK
<1> HIDE DEF row
<1> QED
  BY <1>1, <1>3, <1>4, <1>5, <1>6 DEF IInv, TypeOK

LEMMA CheckoutAdds ==
  ASSUME Assumptions, IInv, NEW p \in Pays, Checkout(p)
  PROVE  /\ UNCHANGED <<end, req, granted>>
         /\ pays[p] = None /\ pays'[p].status = "PENDING"
         /\ \A x \in Pays \ {p} : pays'[x] = pays[x]
BY DEF Checkout, NewId, IInv, TypeOK

LEMMA CountsKept ==
  ASSUME Assumptions, IInv, Counts, PaymentsApart, [Next]_vars
  PROVE  Counts'
<1>1. CASE Quiet
  BY <1>1 DEF Quiet, Counts, Granted, Unpaid, Learnt, Idle
<1>2. ASSUME NEW p \in Pays, Checkout(p) PROVE Counts'
  <2>1. \A r \in Requests : req[r].step # "idle" =>
          req[r].ref \in Pays /\ req[r].ref # p
    BY <1>2, CheckoutAdds DEF IInv, Referring
  <2> QED
    BY <1>2, <2>1, CheckoutAdds DEF Counts, Granted, Unpaid, Learnt
<1>3. ASSUME NEW r \in Requests,
             (\E t \in Txs : Fetch(r, t)) \/ ReadPayment(r) \/ ReadBusiness(r)
      PROVE  Counts'
  <2>1. UNCHANGED <<pays, granted>> /\ Unpaid(r)' /\ Learnt(r)'
    BY <1>3, ReadSteps DEF Counts
  <2>2. \A s \in Requests \ {r} : req'[s] = req[s]
    BY <1>3, CallSteps
  <2>3. \A s \in Requests \ {r} : Unpaid(s)' /\ Learnt(s)'
    BY <2>1, <2>2 DEF Counts, Unpaid, Learnt
  <2> QED
    BY <2>1, <2>3 DEF Counts, Granted
<1>4. ASSUME NEW r \in Requests, WriteNote(r) PROVE Counts'
  <2> DEFINE p == req[r].ref
  <2>1. Learnt(r) /\ Unpaid(r) /\ req[r].step = "note"
    BY <1>4 DEF Counts, WriteNote
  <2>2. /\ req'[r] = Idle /\ UNCHANGED granted /\ p \in Pays
        /\ pays'[p].status # "PAID"
        /\ \A x \in Pays \ {p} : pays'[x] = pays[x]
    BY <1>4, <2>1, NoteWrites
  <2>3. granted[p] = 0
    BY <2>1, <2>2 DEF Counts, Granted, Unpaid
  <2>4. Granted'
    BY <2>2, <2>3 DEF Counts, Granted
  <2>5. ASSUME NEW s \in Requests \ {r} PROVE Unpaid(s)' /\ Learnt(s)'
    <3>1. req'[s] = req[s] /\ Unpaid(s) /\ Learnt(s)
      BY <1>4, CallSteps DEF Counts
    <3>2. req[s].step # "idle" => req[s].ref \in Pays
      BY DEF IInv, Referring
    <3> QED
      BY <2>2, <3>1, <3>2 DEF Unpaid, Learnt
  <2>6. Unpaid(r)' /\ Learnt(r)'
    BY <2>2 DEF Unpaid, Learnt, Idle
  <2> QED
    BY <2>4, <2>5, <2>6 DEF Counts
<1>5. ASSUME NEW r \in Requests, WritePaid(r) PROVE Counts'
  <2> DEFINE p == req[r].ref
  <2>1. /\ req'[r] = Idle /\ req[r].step = "paid" /\ p \in Pays
        /\ pays'[p] # None /\ pays'[p].status = "PAID"
        /\ granted'[p] \in {granted[p], granted[p] + 1}
        /\ \A x \in Pays \ {p} : pays'[x] = pays[x] /\ granted'[x] = granted[x]
    BY <1>5, PaidWrites
  <2>2. granted[p] = 0
    BY <2>1 DEF Counts, Granted, Unpaid
  <2>3. granted'[p] \in {0, 1}
    BY <2>1, <2>2
  <2>4. Granted'
    BY <2>1, <2>3 DEF Counts, Granted
  <2>5. ASSUME NEW s \in Requests \ {r} PROVE Unpaid(s)' /\ Learnt(s)'
    <3>1. req'[s] = req[s] /\ Unpaid(s) /\ Learnt(s)
      BY <1>5, CallSteps DEF Counts
    <3>2. ~ SharesPayment(req[r], req[s])
      BY DEF PaymentsApart
    <3>3. req[s].step # "idle" => req[s].ref \in Pays
      BY DEF IInv, Referring
    <3> QED
      BY <2>1, <3>1, <3>2, <3>3 DEF Unpaid, Learnt, SharesPayment
  <2>6. Unpaid(r)' /\ Learnt(r)'
    BY <2>1 DEF Unpaid, Learnt, Idle
  <2> QED
    BY <2>4, <2>5, <2>6 DEF Counts
<1> QED
  BY <1>1, <1>2, <1>3, <1>4, <1>5, QuietSteps DEF Next, Move

LEMMA ExtendsKept ==
  ASSUME Assumptions, IInv, Extends, EndsApart, [Next]_vars
  PROVE  Extends'
<1>1. CASE Quiet
  BY <1>1 DEF Quiet, Extends, Learnt, Later, Idle
<1>2. ASSUME NEW p \in Pays, Checkout(p) PROVE Extends'
  BY <1>2, CheckoutAdds DEF Extends, Learnt, Later
<1>3. ASSUME NEW r \in Requests,
             (\E t \in Txs : Fetch(r, t)) \/ ReadPayment(r) \/ ReadBusiness(r)
      PROVE  Extends'
  <2>1. UNCHANGED end /\ Learnt(r)' /\ Later(r)'
    BY <1>3, ReadSteps
  <2>2. \A s \in Requests \ {r} : req'[s] = req[s]
    BY <1>3, CallSteps
  <2> QED
    BY <2>1, <2>2 DEF Extends, Learnt, Later
<1>4. ASSUME NEW r \in Requests, WriteNote(r) PROVE Extends'
  <2>1. Learnt(r)
    BY DEF Extends
  <2>2. req'[r] = Idle /\ UNCHANGED end
    BY <1>4, <2>1, NoteWrites
  <2>3. \A s \in Requests \ {r} : req'[s] = req[s]
    BY <1>4, CallSteps
  <2> QED
    BY <2>2, <2>3 DEF Extends, Learnt, Later, Idle
<1>5. ASSUME NEW r \in Requests, WritePaid(r) PROVE Extends'
  <2>1. req'[r] = Idle /\ req[r].step = "paid"
    BY <1>5, PaidWrites
  <2>2. \A s \in Requests \ {r} : req'[s] = req[s] /\ req[s].step # "paid"
    BY <1>5, <2>1, CallSteps DEF EndsApart, SharesEnd
  <2> QED
    BY <2>1, <2>2 DEF Extends, Learnt, Later, Idle
<1> QED
  BY <1>1, <1>2, <1>3, <1>4, <1>5, QuietSteps DEF Next, Move

LEMMA CallsBegin == Init => Counts /\ Extends
BY DEF Init, Counts, Extends, Granted, Unpaid, Learnt, Later, Idle

\* A payment moves the end of the period at most once, however often verify is
\* called about it and whatever Wompi says in between, as long as no call is
\* about to record a payment that another one has found open.
THEOREM OnlyOneCounts ==
  ASSUME Assumptions
  PROVE  Spec /\ []PaymentsApart => []CountsOnce
<1>1. Init => IInv
  BY Initial
<1>2. IInv /\ [Next]_vars => IInv'
  BY Inductive
<1>3. IInv /\ Counts /\ PaymentsApart /\ [Next]_vars => Counts'
  BY CountsKept
<1>4. IInv /\ Counts => CountsOnce
  BY DEF Counts, Granted, CountsOnce, IInv, TypeOK
<1> QED
  BY <1>1, <1>2, <1>3, <1>4, CallsBegin, PTL DEF Spec

\* The payment that is recorded adds the whole of its plan to the time the
\* business already had, as long as no two calls have read where it ends.
THEOREM NoPaidTimeLost ==
  ASSUME Assumptions
  PROVE  Spec /\ []EndsApart => PaidTimeKept
<1> DEFINE Added ==
      \A p \in Pays :
        pays[p] # None /\ pays[p].status # "PAID" /\ pays'[p].status = "PAID" =>
          end' >= addPeriod(end, pays[p].plan)
<1>1. Init => IInv
  BY Initial
<1>2. IInv /\ [Next]_vars => IInv'
  BY Inductive
<1>3. IInv /\ Extends /\ EndsApart /\ [Next]_vars => Extends'
  BY ExtendsKept
<1>4. IInv /\ Extends /\ [Next]_vars => [Added]_vars
  <2> SUFFICES ASSUME IInv, Extends, Next, NEW p \in Pays,
                      pays[p] # None, pays[p].status # "PAID",
                      pays'[p].status = "PAID"
               PROVE  end' >= addPeriod(end, pays[p].plan)
    BY Zenon
  <2>1. pays' # pays
    OBVIOUS
  <2>2. ASSUME NEW r \in Requests, WritePaid(r)
        PROVE  end' >= addPeriod(end, pays[p].plan)
    <3>1. /\ req[r].from >= end
          /\ end' = req[r].from + Length[pays[req[r].ref].plan]
      BY <2>2 DEF WritePaid, Extends, Later, addPeriod
    <3>2. p = req[r].ref
      BY <2>2, PaidWrites
    <3>3. end \in Nat /\ req[r].from \in Nat /\ pays[p].plan \in Plans
      BY DEF IInv, TypeOK, Pay
    <3>4. Length[pays[p].plan] \in Nat
      BY <3>3 DEF Assumptions
    <3> QED
      BY <3>1, <3>2, <3>3, <3>4 DEF addPeriod
  <2>3. ASSUME NEW r \in Requests, WriteNote(r) PROVE FALSE
    <3>1. Learnt(r)
      BY DEF Extends
    <3> QED
      BY <2>3, <3>1, NoteWrites
  <2>4. ASSUME NEW q \in Pays, Checkout(q) PROVE FALSE
    BY <2>4, CheckoutAdds
  <2>5. ASSUME NEW r \in Requests,
               (\E t \in Txs : Fetch(r, t)) \/ ReadPayment(r) \/ ReadBusiness(r)
        PROVE  FALSE
    BY <2>1, <2>5, ReadSteps
  <2>6. CASE Quiet
    BY <2>1, <2>6 DEF Quiet
  <2> QED
    BY <2>2, <2>3, <2>4, <2>5, <2>6, QuietSteps DEF Next, Move
<1>5. Spec /\ []EndsApart => [][Added]_vars
  <2> HIDE DEF Added
  <2> QED
    BY <1>1, <1>2, <1>3, <1>4, CallsBegin, PTL DEF Spec
<1> QED
  BY <1>5 DEF PaidTimeKept
=============================================================================
