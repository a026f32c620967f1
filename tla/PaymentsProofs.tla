--------------------------- MODULE PaymentsProofs ---------------------------
(***************************************************************************)
(* Theorems about Payments for every set of requests, references,          *)
(* transactions and amounts.                                               *)
(***************************************************************************)
EXTENDS Payments, TLAPS

\* Transaction t belongs to reference p.
Belongs(t, p) == gateway[t] # None /\ gateway[t].ref = p

\* What a request in flight has established: its payment exists, and what it
\* is going to write of a transaction is, or has been, true at Wompi.
Legit(q) ==
  /\ q.step \in {"payment", "appointment"} => q.op = "apply"
  /\ q.op # "none" => q.ref \in Refs
  /\ q.op \in {"refund", "apply"} => q.ref \in Created
  /\ q.op = "apply" => /\ q.tx \in Txs /\ q.to \in {"PENDING", "PAID", "FAILED"}
                       /\ Belongs(q.tx, q.ref)
                       /\ q.to = "PAID" => Covers(q.tx, q.ref)
LegitRequests == \A r \in Requests : Legit(req[r])

\* What Wompi tells of transaction t is, or has been, true.
Truthful(t, content) ==
  /\ content.ref \in Created /\ Belongs(t, content.ref)
  /\ Outcome(content) = "PAID" => Covers(t, content.ref)
TruthfulEvents == \A e \in events : Truthful(e.tx, e.content)

RefsExist == \A t \in Txs : gateway[t] # None => gateway[t].ref \in Created

IInv ==
  /\ TypeOK /\ LegitRequests /\ TruthfulEvents /\ RefsExist /\ MoneyBehindPaid

\* Wompi's transactions and the payments are never deleted, and money that
\* has been taken has been taken for good.
Grows ==
  /\ Created \subseteq Created'
  /\ \A t \in Txs, p \in Refs : /\ Belongs(t, p) => Belongs(t, p)'
                                /\ Covers(t, p) => Covers(t, p)'

USE DEF IsIdle, Advance, Reply, appointment, wompi

-----------------------------------------------------------------------------
(* Requests.                                                               *)

\* The empty request is well formed and is about no payment.
LEMMA IdleLegit == Idle \in Request /\ Legit(Idle)
BY DEF Idle, Request, Legit

\* Replacing one request by a legitimate one, while the tables grow, keeps
\* the requests legitimate.
LEMMA RequestStep ==
  ASSUME IInv, Grows, NEW r \in Requests, NEW q \in Request, Legit(q),
         req' = [req EXCEPT ![r] = q]
  PROVE  req' \in [Requests -> Request] /\ LegitRequests'
<1>1. \A x \in Requests : req'[x] \in Request /\ (req'[x] = q \/ req'[x] = req[x])
  BY DEF IInv, TypeOK
<1>2. \A x \in Requests : Legit(req'[x])
  BY <1>1 DEF IInv, LegitRequests
<1>3. \A x \in Requests : Legit(req[x])'
  BY <1>1, <1>2 DEF Legit, Grows, Request
<1> QED
  BY <1>1, <1>3 DEF IInv, TypeOK, LegitRequests

\* Nothing is lost while the tables stand still.
LEMMA QuietGrows == UNCHANGED <<payments, gateway>> => Grows
BY DEF Grows, Created, Belongs, Covers

\* The rest of the invariant outlives every step that leaves the tables of
\* payments, transactions and events alone.
LEMMA QuietTables ==
  ASSUME IInv, UNCHANGED <<payments, wompi>>
  PROVE  TruthfulEvents' /\ RefsExist' /\ MoneyBehindPaid'
BY DEF IInv, TruthfulEvents, Truthful, RefsExist, MoneyBehindPaid, Created,
       Belongs, Covers, Outcome

\* A step that only replaces one request by a legitimate one.
LEMMA ReadStep ==
  ASSUME IInv, NEW r \in Requests, NEW q \in Request, Legit(q),
         req' = [req EXCEPT ![r] = q], UNCHANGED <<appointment, payments, wompi>>
  PROVE  IInv'
<1>1. req' \in [Requests -> Request] /\ LegitRequests'
  BY RequestStep, QuietGrows
<1>2. TypeOK'
  BY <1>1 DEF IInv, TypeOK
<1> QED
  BY <1>1, <1>2, QuietTables DEF IInv

\* A step that only writes the appointment, and not over another one.
LEMMA AppointmentStep ==
  ASSUME IInv, status' \in Statuses, paid' \in PaymentStatuses,
         taken' \in BOOLEAN, taken' => ~ HoldsSlot(status'),
         UNCHANGED <<payments, kept, wompi, req>>
  PROVE  IInv'
<1>1. LegitRequests'
  BY DEF IInv, LegitRequests, Legit, Created, Belongs, Covers
<1>2. TypeOK'
  BY DEF IInv, TypeOK
<1> QED
  BY <1>1, <1>2, QuietTables DEF IInv

-----------------------------------------------------------------------------
(* Wompi.                                                                  *)

\* A new transaction of an existing reference.
LEMMA PayStep ==
  ASSUME IInv, NEW t \in Txs, Pay(t)
  PROVE  IInv'
<1>1. PICK p \in Created, m \in Amounts :
        gateway' = [gateway EXCEPT
                      ![t] = [ref |-> p, amount |-> m, status |-> "PENDING"]]
  BY DEF Pay
<1>2. gateway[t] = None /\ UNCHANGED <<appointment, payments, events, req>>
  BY DEF Pay
<1>3. Created' = Created /\ p \in Refs
  BY <1>2 DEF Created
<1>4. gateway' \in [Txs -> Transaction \cup {None}]
  BY <1>1, <1>3 DEF IInv, TypeOK, Transaction
<1>5. \A u \in Txs \ {t} : gateway'[u] = gateway[u]
  BY <1>1 DEF IInv, TypeOK
<1>6. Grows
  BY <1>2, <1>3, <1>5 DEF Grows, Belongs, Covers
<1>7. TypeOK'
  BY <1>2, <1>4 DEF IInv, TypeOK
<1>8. LegitRequests'
  BY <1>2, <1>6 DEF IInv, TypeOK, LegitRequests, Legit, Grows, Request
<1>9. TruthfulEvents'
  BY <1>2, <1>6 DEF IInv, TypeOK, TruthfulEvents, Truthful, Grows, Transaction,
                    Outcome
<1>10. RefsExist'
  BY <1>1, <1>3, <1>5 DEF IInv, TypeOK, RefsExist
<1>11. MoneyBehindPaid'
  BY <1>2, <1>3, <1>6 DEF IInv, TypeOK, MoneyBehindPaid, Grows, Created
<1> QED
  BY <1>7, <1>8, <1>9, <1>10, <1>11 DEF IInv

\* A transaction is settled, and its event tells the truth.
LEMMA SettleStep ==
  ASSUME IInv, NEW t \in Txs, Settle(t)
  PROVE  IInv'
<1>1. PICK st \in {"APPROVED", "DECLINED", "VOIDED"} :
        /\ <<gateway[t].status, st>> \in
             {<<"PENDING", "APPROVED">>, <<"PENDING", "DECLINED">>,
              <<"APPROVED", "VOIDED">>}
        /\ gateway' = [gateway EXCEPT ![t].status = st]
        /\ events' = events \cup
             {[tx |-> t, content |-> [gateway[t] EXCEPT !.status = st]]}
  BY DEF Settle
<1> DEFINE new == [gateway[t] EXCEPT !.status = st]
<1>2. gateway[t] # None /\ UNCHANGED <<appointment, payments, req>>
  BY DEF Settle
<1>3. Created' = Created
  BY <1>2 DEF Created
<1>4. gateway[t] \in Transaction /\ new \in Transaction
  BY <1>1, <1>2 DEF IInv, TypeOK, Transaction
<1>5. /\ gateway'[t] = new
      /\ new.ref = gateway[t].ref /\ new.amount = gateway[t].amount
      /\ new.status = st /\ new # None
      /\ \A u \in Txs \ {t} : gateway'[u] = gateway[u]
  BY <1>1, <1>2, <1>4, NoneAssumption DEF IInv, TypeOK, Transaction
<1>6. /\ gateway' \in [Txs -> Transaction \cup {None}]
      /\ events' \subseteq [tx : Txs, content : Transaction]
  BY <1>1, <1>4, <1>5 DEF IInv, TypeOK
<1>7. Grows
  BY <1>1, <1>3, <1>5 DEF Grows, Belongs, Covers
<1>8. TypeOK'
  BY <1>2, <1>6 DEF IInv, TypeOK
<1>9. LegitRequests'
  BY <1>2, <1>7 DEF IInv, TypeOK, LegitRequests, Legit, Grows, Request
<1>10. TruthfulEvents'
  <2>1. \A e \in events : Truthful(e.tx, e.content)'
    BY <1>7 DEF IInv, TypeOK, TruthfulEvents, Truthful, Grows, Transaction, Outcome
  <2>2. Truthful(t, new)'
    BY <1>2, <1>3, <1>4, <1>5
       DEF IInv, RefsExist, Truthful, Belongs, Covers, Outcome
  <2> QED
    BY <1>1, <2>1, <2>2 DEF TruthfulEvents
<1>11. RefsExist'
  BY <1>2, <1>3, <1>5 DEF IInv, TypeOK, RefsExist
<1>12. MoneyBehindPaid'
  BY <1>2, <1>3, <1>7 DEF IInv, TypeOK, MoneyBehindPaid, Grows, Created
<1> QED
  BY <1>8, <1>9, <1>10, <1>11, <1>12 DEF IInv

-----------------------------------------------------------------------------
(* The payments table.                                                     *)

\* Writing one row, with money behind it if it says PAID, keeps the rest.
LEMMA PutPayment ==
  ASSUME IInv, NEW r \in Requests, NEW p \in Refs, NEW row \in Payment,
         row.status = "PAID" => row.tx \in Txs /\ Covers(row.tx, p),
         payments' = [payments EXCEPT ![p] = row],
         req' = [req EXCEPT ![r] = Idle],
         status' \in Statuses, paid' \in PaymentStatuses, taken' = taken,
         taken => ~ HoldsSlot(status'),
         kept' \subseteq Refs, UNCHANGED wompi
  PROVE  IInv'
<1>1. /\ payments' \in [Refs -> Payment \cup {None}]
      /\ payments'[p] = row /\ row # None
      /\ \A x \in Refs \ {p} : payments'[x] = payments[x]
  BY NoneAssumption DEF IInv, TypeOK
<1>2. Created' = Created \cup {p}
  BY <1>1 DEF Created
<1>3. Grows
  BY <1>2 DEF Grows, Belongs, Covers
<1>4. req' \in [Requests -> Request] /\ LegitRequests'
  BY <1>3, RequestStep, IdleLegit
<1>5. TypeOK'
  BY <1>1, <1>4 DEF IInv, TypeOK
<1>6. TruthfulEvents' /\ RefsExist'
  BY <1>2 DEF IInv, TruthfulEvents, Truthful, RefsExist, Belongs, Covers, Outcome
<1>7. MoneyBehindPaid'
  BY <1>1, <1>2 DEF IInv, MoneyBehindPaid, Created, Covers
<1> QED
  BY <1>4, <1>5, <1>6, <1>7 DEF IInv

\* startCheckout inserts a payment that is pending.
LEMMA CreatePaymentStep ==
  ASSUME IInv, NEW r \in Requests, CreatePayment(r)
  PROVE  IInv'
<1> DEFINE row == [status |-> "PENDING", tx |-> None]
<1>1. req[r].ref \in Refs /\ row \in Payment /\ row.status # "PAID"
  BY DEF CreatePayment, IInv, LegitRequests, Legit, Payment, TransactionStatuses
<1>2. paid' \in PaymentStatuses /\ status' \in Statuses
  BY DEF CreatePayment, IInv, TypeOK, PaymentStatuses
<1>3. (taken => ~ HoldsSlot(status')) /\ kept' \subseteq Refs
  BY DEF CreatePayment, IInv, TypeOK
<1> QED
  BY <1>1, <1>2, <1>3, PutPayment DEF CreatePayment

\* apply writes what it learnt about a transaction of that reference.
LEMMA WriteOutcomeStep ==
  ASSUME IInv, NEW r \in Requests, WriteOutcome(r)
  PROVE  IInv'
<1> DEFINE q == req[r]
           row == [status |-> q.to, tx |-> q.tx]
<1>1. q \in Request /\ Legit(q) /\ q.op = "apply"
  BY DEF WriteOutcome, IInv, TypeOK, LegitRequests
<1>2. /\ row \in Payment /\ q.ref \in Refs
      /\ row.status = "PAID" => row.tx \in Txs /\ Covers(row.tx, q.ref)
  BY <1>1 DEF Legit, Payment, TransactionStatuses
<1>3. NextPaid(q) \in PaymentStatuses /\ NextStatus(q) \in Statuses
  BY DEF NextPaid, NextStatus, PaymentStatuses, Statuses, IInv, TypeOK
<1>4. CASE Admitted(q) /\ payments' = [payments EXCEPT ![q.ref] = row]
           /\ paid' = NextPaid(q) /\ status' = NextStatus(q)
  <2>1. taken => ~ HoldsSlot(status')
    BY <1>4 DEF Admitted, IInv, TypeOK
  <2>2. kept' \subseteq Refs
    BY DEF WriteOutcome, IInv, TypeOK
  <2> QED
    BY <1>2, <1>3, <1>4, <2>1, <2>2, PutPayment DEF WriteOutcome
<1>5. CASE UNCHANGED <<payments, paid, status>>
  BY <1>5, ReadStep, IdleLegit DEF WriteOutcome
<1> QED
  BY <1>4, <1>5 DEF WriteOutcome

\* A refund turns the row it read as PAID into a refunded one.
LEMMA WriteRefundStep ==
  ASSUME IInv, NEW r \in Requests, WriteRefund(r)
  PROVE  IInv'
<1> DEFINE p == req[r].ref
           row == [payments[p] EXCEPT !.status = "REFUNDED"]
<1>1. p \in Created /\ p \in Refs
  BY DEF WriteRefund, IInv, LegitRequests, Legit, Created
<1>2. row \in Payment /\ row.status # "PAID"
  BY <1>1 DEF IInv, TypeOK, Created, Payment, TransactionStatuses
<1>3. payments' = [payments EXCEPT ![p] = row]
  BY DEF WriteRefund
<1>4. paid' \in PaymentStatuses /\ status' \in Statuses
  BY DEF WriteRefund, IInv, TypeOK, PaymentStatuses
<1>5. (taken => ~ HoldsSlot(status')) /\ kept' \subseteq Refs
  BY DEF WriteRefund, OthersPaid, Created, IInv, TypeOK
<1> QED
  BY <1>1, <1>2, <1>3, <1>4, <1>5, PutPayment DEF WriteRefund

-----------------------------------------------------------------------------
(* Reading.                                                                *)

\* An event or an answer of Wompi makes a legitimate request.
LEMMA LearnStep ==
  ASSUME IInv, NEW r \in Requests, NEW t \in Txs, NEW content \in Transaction,
         Truthful(t, content), Learn(r, t, content)
  PROVE  IInv'
<1> DEFINE q == [Idle EXCEPT !.op = "apply", !.step = "payment",
                   !.ref = content.ref, !.tx = t, !.to = Outcome(content)]
<1>1. Outcome(content) \in {"PENDING", "PAID", "FAILED"}
  BY DEF Outcome
<1>2. q \in Request
  BY <1>1 DEF Idle, Request, Transaction, TransactionStatuses
<1>3. Legit(q)
  BY <1>1 DEF Idle, Legit, Truthful, Transaction
<1> QED
  BY <1>2, <1>3, ReadStep DEF Learn

\* A row of transactions is true of itself.
LEMMA GatewayTruthful ==
  ASSUME IInv, NEW t \in Txs, gateway[t] # None
  PROVE  gateway[t] \in Transaction /\ Truthful(t, gateway[t])
BY DEF IInv, TypeOK, RefsExist, Truthful, Belongs, Covers, Outcome

\* The reads of apply carry the request on, or end it.
LEMMA ApplyReads ==
  ASSUME IInv, NEW r \in Requests, ReadPayment(r) \/ ReadAppointment(r)
  PROVE  IInv'
<1> DEFINE q == req[r]
           next == [q EXCEPT !.step = "appointment"]
           seen == [q EXCEPT !.step = "write", !.seenStatus = status,
                             !.seenPaid = paid]
<1>1. q \in Request /\ Legit(q)
  BY DEF IInv, TypeOK, LegitRequests
<1>2. UNCHANGED <<appointment, payments, wompi>>
  BY DEF ReadPayment, ReadAppointment
<1>3. CASE ReadPayment(r) /\ req' = [req EXCEPT ![r] = next]
  <2>1. next \in Request
    BY <1>1 DEF Request
  <2>2. Legit(next)
    BY <1>1, <1>3 DEF Legit, Request, ReadPayment
  <2> QED
    BY <1>2, <1>3, <2>1, <2>2, ReadStep
<1>4. CASE ReadAppointment(r)
  <2>1. seen \in Request
    BY <1>1 DEF Request, IInv, TypeOK
  <2>2. Legit(seen)
    BY <1>1 DEF Legit, Request
  <2> QED
    BY <1>2, <1>4, <2>1, <2>2, ReadStep DEF ReadAppointment
<1>5. CASE req' = [req EXCEPT ![r] = Idle]
  BY <1>2, <1>5, ReadStep, IdleLegit
<1> QED
  BY <1>3, <1>4, <1>5 DEF ReadPayment

\* A checkout and a refund begin about a reference that exists in the code's
\* sense: a fresh one, and one of the table.
LEMMA BeginStep ==
  ASSUME IInv, NEW r \in Requests, ReadForCheckout(r) \/ ReadForRefund(r)
  PROVE  IInv'
<1>1. PICK op \in {"checkout", "refund"}, p \in Refs :
        /\ op = "refund" => p \in Created
        /\ req' = [req EXCEPT ![r] = [Idle EXCEPT !.op = op, !.step = "write",
                                                  !.ref = p]]
  BY DEF ReadForCheckout, ReadForRefund, Created
<1> DEFINE q == [Idle EXCEPT !.op = op, !.step = "write", !.ref = p]
<1>2. q \in Request
  BY DEF Idle, Request
<1>3. Legit(q)
  BY <1>1 DEF Idle, Legit
<1>4. UNCHANGED <<appointment, payments, wompi>>
  BY DEF ReadForCheckout, ReadForRefund
<1> QED
  BY <1>1, <1>2, <1>3, <1>4, ReadStep

-----------------------------------------------------------------------------
(* The appointment.                                                        *)

\* Staff and other customers never leave an hour taken twice: no transition
\* leaves CANCELLED or NO_SHOW.
LEMMA OutsideStep ==
  ASSUME IInv, SetPaidByHand \/ ChangeStatus \/ Rebook
  PROVE  IInv'
<1>1. CASE SetPaidByHand
  BY <1>1, AppointmentStep DEF SetPaidByHand, IInv, TypeOK, PaymentStatuses
<1>2. CASE ChangeStatus
  <2>1. PICK to \in Statuses : CanTransition(status, to) /\ status' = to
    BY <1>2 DEF ChangeStatus
  <2>2. HoldsSlot(status)
    BY <2>1 DEF IInv, TypeOK, CanTransition, TRANSITIONS, HoldsSlot, Statuses
  <2> QED
    BY <1>2, <2>1, <2>2, AppointmentStep DEF ChangeStatus, IInv, TypeOK
<1>3. CASE Rebook
  BY <1>3, AppointmentStep DEF Rebook, IInv, TypeOK
<1> QED
  BY <1>1, <1>2, <1>3

-----------------------------------------------------------------------------
(* The theorems.                                                           *)

\* The inductive invariant: what every request in flight and every event has
\* established is still true when it is used.
THEOREM Invariance == Spec => []IInv
<1>1. Init => IInv
  BY NoneAssumption, IdleLegit
     DEF Init, IInv, TypeOK, LegitRequests, Legit, Idle, TruthfulEvents, RefsExist,
         MoneyBehindPaid, Created, Statuses, PaymentStatuses
<1>2. IInv /\ [Next]_vars => IInv'
  <2> SUFFICES ASSUME IInv, [Next]_vars PROVE IInv'
    OBVIOUS
  <2>1. ASSUME NEW t \in Txs, Pay(t) \/ Settle(t) PROVE IInv'
    BY <2>1, PayStep, SettleStep
  <2>2. ASSUME NEW r \in Requests, FetchTransaction(r) PROVE IInv'
    BY <2>2, GatewayTruthful, LearnStep DEF FetchTransaction
  <2>3. ASSUME NEW r \in Requests, NEW t \in Txs, ReceiveEvent(r, t) PROVE IInv'
    <3>1. PICK e \in events : e.tx = t /\ Learn(r, t, e.content)
      BY <2>3 DEF ReceiveEvent
    <3>2. e.content \in Transaction /\ Truthful(t, e.content)
      BY <3>1 DEF IInv, TypeOK, TruthfulEvents
    <3> QED
      BY <3>1, <3>2, LearnStep
  <2>4. ASSUME NEW r \in Requests, Abort(r) PROVE IInv'
    BY <2>4, ReadStep, IdleLegit DEF Abort
  <2>5. CASE UNCHANGED vars
    BY <2>5, AppointmentStep DEF vars, IInv, TypeOK
  <2> QED
    BY <2>1, <2>2, <2>3, <2>4, <2>5, CreatePaymentStep, WriteOutcomeStep,
       WriteRefundStep, ApplyReads, BeginStep, OutsideStep DEF Next
<1> QED
  BY <1>1, <1>2, PTL DEF Spec

\* The tables and the requests keep their shape, and an appointment that was
\* given up never comes back over the one that took its hour, whatever
\* payments arrive late.
THEOREM TypeCorrect == Spec => []TypeOK
<1>1. IInv => TypeOK
  BY DEF IInv
<1> QED
  BY <1>1, Invariance, PTL

\* No order of webhooks, returns, refunds, aborted requests and writes of
\* stale knowledge makes a payment PAID without its money.
THEOREM NeverPaidWithoutMoney == Spec => []MoneyBehindPaid
<1>1. IInv => MoneyBehindPaid
  BY DEF IInv
<1> QED
  BY <1>1, Invariance, PTL

-----------------------------------------------------------------------------
(* Handlers that do not meet.  Any number of them may run together, as     *)
(* long as no other one is writing just what a handler has read.           *)

\* Two handlers that have both found one payment open, and will write it.
SharesRef(q, o) ==
  /\ q.op = "apply" /\ q.step # "payment"
  /\ o.op = "apply" /\ o.step # "payment" /\ q.ref = o.ref

\* One is about to make the appointment paid, another has found it unpaid.
SharesAppointment(q, o) ==
  /\ q.op = "apply" /\ q.step = "write" /\ q.to = "PAID"
  /\ \/ o.op = "checkout"
     \/ o.op = "apply" /\ o.step = "write" /\ o.to = "FAILED"

RefsApart == \A r, s \in Requests : r # s => ~ SharesRef(req[r], req[s])
AppointmentApart ==
  \A r, s \in Requests : r # s => ~ SharesAppointment(req[r], req[s])

\* A single handler meets nobody.
LEMMA OneIsApart ==
  ASSUME NEW r, Requests = {r} PROVE RefsApart /\ AppointmentApart
BY DEF RefsApart, AppointmentApart

StatusOf(p) == payments[p].status

\* Between its steps, nothing contradicts what a handler has read of its
\* payment: apply goes on about one that is not final, and a refund about one
\* that is.
Alone(r) ==
  /\ req[r].op = "apply" /\ req[r].step # "payment" =>
       StatusOf(req[r].ref) \notin Final
  /\ req[r].op = "refund" => StatusOf(req[r].ref) \in Final

AllAlone == \A r \in Requests : Alone(r)

\* Nor what it has read of the appointment.
Agreeing(r) ==
  /\ req[r].op = "checkout" => paid # "PAID"
  /\ /\ req[r].op = "apply" /\ req[r].step = "write" /\ req[r].to = "FAILED"
     /\ req[r].seenPaid # "PAID"
     => paid # "PAID"

\* LedgersAgree, and what the handlers have read of the appointment.
Ledgers ==
  /\ paid \in {"PAID", "REFUNDED"} => \E p \in Created : StatusOf(p) = paid
  /\ Created # {} /\ (\A p \in Created : StatusOf(p) = "REFUNDED") =>
       paid = "REFUNDED"
  /\ \A p \in Created \ kept : StatusOf(p) = "PAID" => paid = "PAID"

AllAgreeing == \A r \in Requests : Agreeing(r)

\* The steps by which a handler goes on without writing the tables.
Reads(r) ==
  \/ ReadForCheckout(r) \/ ReadForRefund(r) \/ FetchTransaction(r)
  \/ \E t \in Txs : ReceiveEvent(r, t)
  \/ ReadPayment(r) \/ ReadAppointment(r) \/ Abort(r)

Writes(r) == CreatePayment(r) \/ WriteOutcome(r) \/ WriteRefund(r)

LEMMA ReadsWriteNothing ==
  ASSUME IInv, NEW r \in Requests, Reads(r)
  PROVE  /\ UNCHANGED <<appointment, payments>>
         /\ \A s \in Requests \ {r} : req'[s] = req[s]
BY DEF Reads, ReadForCheckout, ReadForRefund, FetchTransaction, ReceiveEvent, Learn,
       ReadPayment, ReadAppointment, Abort, IInv, TypeOK

LEMMA AloneReads ==
  ASSUME IInv, NEW r \in Requests, Alone(r), Reads(r)
  PROVE  Alone(r)'
<1> USE DEF Reads
<1>1. UNCHANGED <<appointment, payments>>
  BY ReadsWriteNothing
<1>2. req \in [Requests -> Request]
  BY DEF IInv, TypeOK
<1>3. ASSUME ReadForCheckout(r) \/ Abort(r) PROVE req'[r].op \in {"checkout", "none"}
  <2>1. CASE ReadForCheckout(r)
    <3>1. PICK p \in Refs : req' = [req EXCEPT ![r] =
            [Idle EXCEPT !.op = "checkout", !.step = "write", !.ref = p]]
      BY <2>1 DEF ReadForCheckout
    <3> QED
      BY <1>2, <3>1 DEF Idle
  <2>2. CASE Abort(r)
    BY <1>2, <2>2 DEF Abort, Idle
  <2> QED
    BY <1>3, <2>1, <2>2
<1>4. ASSUME ReadForRefund(r)
      PROVE  req'[r].op = "refund" /\ StatusOf(req'[r].ref) \in Final
  BY <1>2, <1>4 DEF ReadForRefund, Idle, StatusOf, Final
<1>5. ASSUME NEW t \in Txs, NEW content, Learn(r, t, content)
      PROVE  req'[r].op = "apply" /\ req'[r].step = "payment"
  BY <1>2, <1>5 DEF Learn, Idle
<1>6. ASSUME ReadPayment(r)
      PROVE  \/ req'[r] = Idle
             \/ /\ req'[r] = [req[r] EXCEPT !.step = "appointment"]
                /\ StatusOf(req[r].ref) \notin Final
  BY <1>2, <1>6 DEF ReadPayment, StatusOf
<1>7. ASSUME ReadAppointment(r)
      PROVE  /\ req'[r].op = "apply" /\ req[r].op = "apply"
             /\ req[r].step = "appointment" /\ req'[r].ref = req[r].ref
  BY <1>2, <1>7 DEF ReadAppointment, IInv, LegitRequests, Legit, Request
<1> QED
  <2>1. CASE ReadForCheckout(r) \/ Abort(r)
    BY <1>3, <2>1 DEF Alone
  <2>2. CASE ReadForRefund(r)
    BY <1>1, <1>4, <2>2 DEF Alone, StatusOf
  <2>3. CASE FetchTransaction(r) \/ \E t \in Txs : ReceiveEvent(r, t)
    BY <1>5, <2>3 DEF Alone, FetchTransaction, ReceiveEvent
  <2>4. CASE ReadPayment(r)
    <3>1. req[r].op = "apply" /\ req[r] \in Request
      BY <1>2, <2>4 DEF ReadPayment, IInv, LegitRequests, Legit
    <3>2. CASE req'[r] = Idle
      BY <3>2 DEF Alone, Idle
    <3>3. CASE /\ req'[r] = [req[r] EXCEPT !.step = "appointment"]
               /\ StatusOf(req[r].ref) \notin Final
      <4>1. req'[r].op = "apply" /\ req'[r].ref = req[r].ref
        BY <3>1, <3>3 DEF Request
      <4> QED
        BY <1>1, <3>3, <4>1 DEF Alone, StatusOf
    <3> QED
      BY <1>6, <2>4, <3>2, <3>3
  <2>5. CASE ReadAppointment(r)
    BY <1>1, <1>7, <2>5 DEF Alone, StatusOf
  <2> QED
    BY <2>1, <2>2, <2>3, <2>4, <2>5

\* One row of payments is written, and no other.
Written(p, st) ==
  /\ p \in Refs /\ payments'[p].status = st
  /\ payments'[p] # None
  /\ \A x \in Refs \ {p} : payments'[x] = payments[x]

\* What the writing step of a handler does to the payments.
LEMMA CreateWrites ==
  ASSUME IInv, NEW r \in Requests, CreatePayment(r)
  PROVE  /\ req'[r] = Idle /\ req[r].ref \notin Created
         /\ Written(req[r].ref, "PENDING")
<1> DEFINE row == [status |-> "PENDING", tx |-> None]
<1>1. req[r].ref \in Refs /\ row \in Payment
  BY DEF IInv, LegitRequests, Legit, CreatePayment, Payment, TransactionStatuses
<1>2. payments' = [payments EXCEPT ![req[r].ref] = row]
  BY DEF CreatePayment
<1> QED
  BY <1>1, <1>2, NoneAssumption DEF CreatePayment, IInv, TypeOK, Written, StatusOf

LEMMA OutcomeWrites ==
  ASSUME IInv, NEW r \in Requests, Alone(r), WriteOutcome(r)
  PROVE  /\ req'[r] = Idle /\ StatusOf(req[r].ref) \notin Final
         /\ req[r].ref \in Created
         /\ \/ UNCHANGED <<payments, paid>>
            \/ Written(req[r].ref, req[r].to) /\ paid' = NextPaid(req[r])
<1> DEFINE row == [status |-> req[r].to, tx |-> req[r].tx]
<1>1. /\ req[r].op = "apply" /\ req[r].step = "write"
      /\ req[r].ref \in Created /\ req[r].ref \in Refs
  BY DEF WriteOutcome, IInv, LegitRequests, Legit
<1>2. row \in Payment
  BY <1>1 DEF IInv, LegitRequests, Legit, Payment, TransactionStatuses
<1>3. \/ UNCHANGED <<payments, paid>>
      \/ /\ payments' = [payments EXCEPT ![req[r].ref] = row]
         /\ paid' = NextPaid(req[r])
  BY DEF WriteOutcome
<1>4. StatusOf(req[r].ref) \notin Final
  BY <1>1 DEF Alone
<1>5. req'[r] = Idle
  BY DEF WriteOutcome, IInv, TypeOK
<1>6. ASSUME payments' = [payments EXCEPT ![req[r].ref] = row]
      PROVE  Written(req[r].ref, req[r].to)
  BY <1>1, <1>2, <1>6, NoneAssumption DEF IInv, TypeOK, Written, StatusOf
<1> QED
  BY <1>1, <1>3, <1>4, <1>5, <1>6

LEMMA RefundWrites ==
  ASSUME IInv, NEW r \in Requests, Alone(r), WriteRefund(r)
  PROVE  /\ req'[r] = Idle /\ StatusOf(req[r].ref) \in Final
         /\ req[r].ref \in Created /\ Written(req[r].ref, "REFUNDED")
<1> DEFINE p == req[r].ref
           row == [payments[p] EXCEPT !.status = "REFUNDED"]
<1>1. p \in Created /\ p \in Refs
  BY DEF WriteRefund, IInv, LegitRequests, Legit, Created
<1>2. row \in Payment /\ row.status = "REFUNDED"
  BY <1>1 DEF IInv, TypeOK, Created, Payment, TransactionStatuses
<1>3. payments' = [payments EXCEPT ![p] = row] /\ req[r].op = "refund"
  BY DEF WriteRefund
<1>4. StatusOf(p) \in Final /\ req'[r] = Idle
  BY <1>3 DEF Alone, WriteRefund, IInv, TypeOK
<1> HIDE DEF row
<1> QED
  BY <1>1, <1>2, <1>3, <1>4, NoneAssumption DEF IInv, TypeOK, Written, StatusOf

\* The other handlers' payments, when one of them writes.
LEMMA OthersAlone ==
  ASSUME IInv, NEW r \in Requests, NEW s \in Requests, r # s,
         Alone(r), Alone(s), RefsApart, Writes(r)
  PROVE  Alone(s)'
<1> DEFINE p == req[r].ref
<1>1. req'[s] = req[s]
  BY DEF Writes, CreatePayment, WriteOutcome, WriteRefund, IInv, TypeOK
<1>2. /\ req[s].op \in {"refund", "apply"} =>
           req[s].ref \in Created /\ req[s].ref \in Refs
      /\ ~ SharesRef(req[r], req[s])
  BY DEF IInv, LegitRequests, Legit, RefsApart
<1>3. CASE UNCHANGED payments
  BY <1>1, <1>3 DEF Alone, StatusOf
<1>4. ASSUME NEW st, Written(p, st), req[s].ref # p PROVE Alone(s)'
  BY <1>1, <1>2, <1>4 DEF Alone, Written, StatusOf
<1>5. CASE CreatePayment(r)
  <2>1. p \notin Created /\ Written(p, "PENDING")
    BY <1>5, CreateWrites
  <2> QED
    BY <1>1, <1>2, <1>4, <2>1 DEF Alone
<1>6. CASE WriteOutcome(r) /\ ~ UNCHANGED payments
  <2>1. StatusOf(p) \notin Final /\ Written(p, req[r].to)
    BY <1>6, OutcomeWrites
  <2>2. CASE req[s].ref = p
    BY <1>1, <1>2, <1>6, <2>1, <2>2 DEF Alone, SharesRef, WriteOutcome
  <2> QED
    BY <1>4, <2>1, <2>2
<1>7. CASE WriteRefund(r)
  <2>1. StatusOf(p) \in Final /\ Written(p, "REFUNDED")
    BY <1>7, RefundWrites
  <2>2. CASE req[s].ref = p
    <3>1. payments'[p].status \in Final
      BY <2>1 DEF Written, Final
    <3> QED
      BY <1>1, <2>1, <2>2, <3>1 DEF Alone, StatusOf
  <2> QED
    BY <1>4, <2>1, <2>2
<1> QED
  BY <1>3, <1>5, <1>6, <1>7 DEF Writes

LEMMA AloneKept ==
  ASSUME IInv, AllAlone, RefsApart, [Next]_vars
  PROVE  AllAlone'
<1>1. CASE \/ UNCHANGED vars \/ SetPaidByHand \/ ChangeStatus \/ Rebook
           \/ \E t \in Txs : Pay(t) \/ Settle(t)
  BY <1>1 DEF vars, SetPaidByHand, ChangeStatus, Rebook, Pay, Settle, AllAlone,
              Alone, StatusOf
<1>2. ASSUME NEW r \in Requests, Writes(r) PROVE AllAlone'
  <2>1. req'[r] = Idle /\ Alone(r)
    BY <1>2, CreateWrites, OutcomeWrites, RefundWrites DEF Writes, AllAlone
  <2>2. Alone(r)'
    BY <2>1 DEF Alone, Idle
  <2> QED
    BY <1>2, <2>1, <2>2, OthersAlone DEF AllAlone
<1>3. ASSUME NEW r \in Requests, Reads(r) PROVE AllAlone'
  <2>1. Alone(r)'
    BY <1>3, AloneReads DEF AllAlone
  <2>2. ASSUME NEW s \in Requests \ {r} PROVE Alone(s)'
    BY <1>3, ReadsWriteNothing DEF AllAlone, Alone, StatusOf
  <2> QED
    BY <2>1, <2>2 DEF AllAlone
<1> QED
  BY <1>1, <1>2, <1>3 DEF Next, Reads, Writes

LEMMA AloneBegins == Init => AllAlone
BY DEF Init, AllAlone, Alone, Idle

\* An approved payment can only become refunded and a refunded one stays so:
\* repeated, late and reordered events, and handlers that are cut off,
\* included, as long as no two handlers have found one payment open.
THEOREM FinalStaysFinal == Spec /\ []RefsApart => PaymentIsFinal
<1> DEFINE Stays ==
      \A p \in Created :
        /\ payments[p].status = "PAID" =>
             payments'[p].status \in {"PAID", "REFUNDED"}
        /\ payments[p].status = "REFUNDED" => payments'[p].status = "REFUNDED"
<1>1. IInv /\ AllAlone /\ RefsApart /\ [Next]_vars => AllAlone'
  BY AloneKept
<1>2. IInv /\ AllAlone /\ [Next]_vars => [Stays]_vars
  <2> SUFFICES ASSUME IInv, AllAlone, Next PROVE Stays
    OBVIOUS
  <2>1. CASE UNCHANGED payments
    BY <2>1
  <2>2. ASSUME NEW r \in Requests, CreatePayment(r) PROVE Stays
    BY <2>2, CreateWrites DEF Written, Created, StatusOf
  <2>3. ASSUME NEW r \in Requests, WriteOutcome(r) PROVE Stays
    BY <2>1, <2>3, OutcomeWrites DEF AllAlone, Written, Created, StatusOf, Final
  <2>4. ASSUME NEW r \in Requests, WriteRefund(r) PROVE Stays
    BY <2>4, RefundWrites DEF AllAlone, Written, Created, StatusOf
  <2>5. ASSUME NEW r \in Requests, Reads(r) PROVE Stays
    BY <2>1, <2>5, ReadsWriteNothing
  <2> HIDE DEF Stays
  <2> QED
    BY <2>1, <2>2, <2>3, <2>4, <2>5
       DEF Next, Reads, Pay, Settle, SetPaidByHand, ChangeStatus, Rebook
<1>3. Spec /\ []RefsApart => [][Stays]_vars
  <2> HIDE DEF Stays
  <2> QED
    BY <1>1, <1>2, AloneBegins, Invariance, PTL DEF Spec
<1> QED
  BY <1>3 DEF PaymentIsFinal

\* What a handler reads of the appointment holds then.
LEMMA AgreeingReads ==
  ASSUME IInv, NEW r \in Requests, Agreeing(r), Reads(r)
  PROVE  Agreeing(r)'
<1> USE DEF Reads
<1>1. UNCHANGED <<appointment, payments>>
  BY ReadsWriteNothing
<1>3. req \in [Requests -> Request]
  BY DEF IInv, TypeOK
<1>4. /\ req'[r].op = "checkout" => paid # "PAID"
      /\ req'[r].op = "apply" /\ req'[r].step = "write" => req'[r].seenPaid = paid
  <2>1. CASE ReadForCheckout(r) \/ ReadForRefund(r)
    <3>1. PICK op \in {"checkout", "refund"}, p \in Refs :
            req' = [req EXCEPT ![r] =
              [Idle EXCEPT !.op = op, !.step = "write", !.ref = p]]
      BY <2>1 DEF ReadForCheckout, ReadForRefund, Created
    <3>2. req'[r].op = op
      BY <1>3, <3>1 DEF Idle
    <3>3. op = "checkout" => paid # "PAID"
      <4>1. CASE ReadForCheckout(r)
        BY <4>1 DEF ReadForCheckout
      <4>2. CASE ReadForRefund(r)
        <5>1. PICK x \in Refs : req' = [req EXCEPT ![r] =
                [Idle EXCEPT !.op = "refund", !.step = "write", !.ref = x]]
          BY <4>2 DEF ReadForRefund, Created
        <5>2. req'[r].op = "refund"
          BY <1>3, <5>1 DEF Idle
        <5> QED
          BY <3>2, <5>2
      <4> QED
        BY <2>1, <4>1, <4>2
    <3> QED
      BY <3>2, <3>3
  <2>2. CASE FetchTransaction(r) \/ \E t \in Txs : ReceiveEvent(r, t)
    <3>1. ASSUME NEW t \in Txs, NEW content, Learn(r, t, content)
          PROVE  req'[r].op = "apply" /\ req'[r].step = "payment"
      BY <1>3, <3>1 DEF Learn, Idle
    <3> QED
      BY <2>2, <3>1 DEF FetchTransaction, ReceiveEvent
  <2>3. CASE ReadPayment(r)
    <3>1. req[r].op = "apply"
      BY <2>3 DEF ReadPayment, IInv, LegitRequests, Legit
    <3> QED
      BY <1>3, <2>3, <3>1 DEF ReadPayment, Idle, Request
  <2>4. CASE ReadAppointment(r)
    <3>1. req[r].op = "apply"
      BY <2>4 DEF ReadAppointment, IInv, LegitRequests, Legit
    <3> QED
      BY <1>3, <2>4, <3>1 DEF ReadAppointment, Request
  <2>5. CASE Abort(r)
    BY <1>3, <2>5 DEF Abort, Idle
  <2> QED
    BY <2>1, <2>2, <2>3, <2>4, <2>5
<1> QED
  BY <1>1, <1>4 DEF Agreeing, appointment

\* What a handler writes keeps the two ledgers in agreement.
LEMMA LedgersWritten ==
  ASSUME IInv, NEW r \in Requests, Alone(r), Agreeing(r), Ledgers, Writes(r)
  PROVE  Ledgers'
<1> DEFINE p == req[r].ref
<1>1. ASSUME NEW st, Written(p, st)
      PROVE  /\ Created' = Created \cup {p}
             /\ payments'[p].status = st
             /\ \A x \in Created \ {p} : payments'[x].status = StatusOf(x)
  BY <1>1 DEF Written, Created, StatusOf
<1>3. CASE CreatePayment(r)
  <2>1. paid # "PAID" /\ paid' = "PENDING" /\ p \notin Created /\ kept' = kept
    BY <1>3 DEF CreatePayment, Agreeing
  <2>2. Written(p, "PENDING")
    BY <1>3, CreateWrites
  <2> QED
    BY <1>1, <2>1, <2>2 DEF Ledgers, StatusOf
<1>4. CASE WriteOutcome(r)
  <2>0. kept' = kept
    BY <1>4 DEF WriteOutcome
  <2>1. CASE UNCHANGED <<payments, paid>>
    BY <2>0, <2>1 DEF Ledgers, StatusOf, Created
  <2>2. CASE Written(p, req[r].to) /\ paid' = NextPaid(req[r])
    <3>1. /\ req[r].to \in {"PENDING", "PAID", "FAILED"}
          /\ req[r].to = "FAILED" /\ req[r].seenPaid # "PAID" => paid # "PAID"
      BY <1>4 DEF WriteOutcome, IInv, LegitRequests, Legit, Agreeing
    <3>2. StatusOf(p) \notin {"PAID", "REFUNDED"} /\ p \in Created
      BY <1>4, OutcomeWrites DEF Final
    <3>3. \/ req[r].to = "PAID" /\ paid' = "PAID"
          \/ req[r].to # "PAID" /\ paid' = paid
          \/ req[r].to # "PAID" /\ paid # "PAID" /\ paid' = "FAILED"
      BY <2>2, <3>1 DEF NextPaid
    <3> QED
      BY <1>1, <2>0, <2>2, <3>1, <3>2, <3>3 DEF Ledgers, StatusOf
  <2> QED
    BY <1>4, <2>1, <2>2, OutcomeWrites
<1>5. CASE WriteRefund(r)
  <2>1. Written(p, "REFUNDED") /\ paid' = "REFUNDED"
    BY <1>5, RefundWrites DEF WriteRefund
  <2>2. \A x \in Created \ {p} : StatusOf(x) = "PAID" => x \in kept'
    BY <1>5 DEF WriteRefund, OthersPaid, StatusOf
  <2> QED
    BY <1>1, <2>1, <2>2 DEF Ledgers, StatusOf
<1> QED
  BY <1>3, <1>4, <1>5 DEF Writes

\* Only an outcome makes an appointment paid that was not.
LEMMA OnlyOutcomesPay ==
  ASSUME NEW r \in Requests, Writes(r), paid # "PAID", paid' = "PAID"
  PROVE  req[r].op = "apply" /\ req[r].step = "write" /\ req[r].to = "PAID"
<1>1. WriteOutcome(r) /\ paid' = NextPaid(req[r])
  BY DEF Writes, CreatePayment, WriteOutcome, WriteRefund
<1>2. NextPaid(req[r]) = "PAID"
  BY <1>1
<1> QED
  BY <1>1, <1>2 DEF WriteOutcome, NextPaid

LEMMA AgreeingKept ==
  ASSUME IInv, "cash" \notin Clients, AllAgreeing, AppointmentApart, [Next]_vars
  PROVE  AllAgreeing'
<1>1. CASE \/ UNCHANGED vars \/ ChangeStatus \/ Rebook
           \/ \E t \in Txs : Pay(t) \/ Settle(t)
  BY <1>1 DEF vars, ChangeStatus, Rebook, Pay, Settle, AllAgreeing, Agreeing
<1>2. ASSUME NEW r \in Requests, Reads(r) PROVE AllAgreeing'
  <2>1. Agreeing(r)'
    BY <1>2, AgreeingReads DEF AllAgreeing
  <2>2. ASSUME NEW s \in Requests \ {r} PROVE Agreeing(s)'
    BY <1>2, ReadsWriteNothing DEF AllAgreeing, Agreeing, appointment
  <2> QED
    BY <2>1, <2>2 DEF AllAgreeing
<1>3. ASSUME NEW r \in Requests, Writes(r) PROVE AllAgreeing'
  <2>1. req'[r] = Idle /\ \A s \in Requests \ {r} : req'[s] = req[s]
    BY <1>3 DEF Writes, CreatePayment, WriteOutcome, WriteRefund, IInv, TypeOK
  <2>2. Agreeing(r)'
    BY <2>1 DEF Agreeing, Idle
  <2>3. ASSUME NEW s \in Requests \ {r} PROVE Agreeing(s)'
    <3>1. Agreeing(s) /\ req'[s] = req[s] /\ ~ SharesAppointment(req[r], req[s])
      BY <2>1 DEF AllAgreeing, AppointmentApart
    <3>2. CASE paid' = "PAID" /\ paid # "PAID"
      BY <1>3, <3>1, <3>2, OnlyOutcomesPay DEF Agreeing, SharesAppointment
    <3>3. CASE ~ (paid' = "PAID" /\ paid # "PAID")
      BY <3>1, <3>3 DEF Agreeing
    <3> QED
      BY <3>2, <3>3
  <2> QED
    BY <2>2, <2>3 DEF AllAgreeing
<1> QED
  BY <1>1, <1>2, <1>3 DEF Next, Reads, Writes, SetPaidByHand

LEMMA LedgersKept ==
  ASSUME IInv, "cash" \notin Clients, AllAlone, AllAgreeing, Ledgers, [Next]_vars
  PROVE  Ledgers'
<1>1. CASE \/ UNCHANGED vars \/ ChangeStatus \/ Rebook
           \/ \E t \in Txs : Pay(t) \/ Settle(t)
  BY <1>1 DEF vars, ChangeStatus, Rebook, Pay, Settle, Ledgers, StatusOf, Created
<1>2. ASSUME NEW r \in Requests, Reads(r) PROVE Ledgers'
  BY <1>2, ReadsWriteNothing DEF Ledgers, StatusOf, Created, appointment
<1>3. ASSUME NEW r \in Requests, Writes(r) PROVE Ledgers'
  BY <1>3, LedgersWritten DEF AllAlone, AllAgreeing
<1> QED
  BY <1>1, <1>2, <1>3 DEF Next, Reads, Writes, SetPaidByHand

LEMMA LedgersBegin == Init => AllAgreeing /\ Ledgers
BY DEF Init, AllAgreeing, Agreeing, Ledgers, Created, Idle

\* The appointment is paid or refunded only as one of its payments is,
\* refunded if all of them are, and paid while one of them is, whatever was
\* aborted, repeated or late; when nobody pays in cash and no handler makes
\* it paid that another one has found unpaid.  The payments in kept are
\* excepted: paid ones whose money stayed when markRefunded took another one
\* of the same appointment back.
THEOREM AppointmentTellsItsPayments ==
  ASSUME "cash" \notin Clients
  PROVE  Spec /\ []RefsApart /\ []AppointmentApart => []LedgersAgree
<1>1. IInv /\ AllAlone /\ RefsApart /\ [Next]_vars => AllAlone'
  BY AloneKept
<1>2. IInv /\ AllAgreeing /\ AppointmentApart /\ [Next]_vars => AllAgreeing'
  BY AgreeingKept
<1>3. IInv /\ AllAlone /\ AllAgreeing /\ Ledgers /\ [Next]_vars => Ledgers'
  BY LedgersKept
<1>4. Ledgers => LedgersAgree
  BY DEF Ledgers, LedgersAgree, StatusOf
<1> QED
  BY <1>1, <1>2, <1>3, <1>4, AloneBegins, LedgersBegin, Invariance, PTL DEF Spec

\* Nor is an appointment that is paid set to be paid again.
THEOREM PaidStaysPaid ==
  ASSUME "cash" \notin Clients
  PROVE  Spec /\ []AppointmentApart => PaidNotReopened
<1>1. IInv /\ AllAgreeing /\ AppointmentApart /\ [Next]_vars => AllAgreeing'
  BY AgreeingKept
<1>2. IInv /\ AllAgreeing /\ [Next]_vars => [paid = "PAID" => paid' # "PENDING"]_vars
  <2> SUFFICES ASSUME IInv, AllAgreeing, Next, paid = "PAID"
               PROVE  paid' # "PENDING"
    OBVIOUS
  <2>1. ASSUME NEW r \in Requests, CreatePayment(r) PROVE FALSE
    BY <2>1 DEF CreatePayment, AllAgreeing, Agreeing
  <2>2. ASSUME NEW r \in Requests, WriteOutcome(r) PROVE paid' # "PENDING"
    <3>1. paid' = paid \/ paid' = NextPaid(req[r])
      BY <2>2 DEF WriteOutcome
    <3>2. NextPaid(req[r]) \in {"PAID", "FAILED", paid}
      BY DEF NextPaid
    <3> QED
      BY <3>1, <3>2
  <2>3. ASSUME NEW r \in Requests, WriteRefund(r) PROVE paid' # "PENDING"
    BY <2>3 DEF WriteRefund
  <2>4. ASSUME NEW r \in Requests, Reads(r) PROVE paid' # "PENDING"
    BY <2>4, ReadsWriteNothing DEF appointment
  <2> QED
    BY <2>1, <2>2, <2>3, <2>4
       DEF Next, Reads, Pay, Settle, SetPaidByHand, ChangeStatus, Rebook, appointment
<1> QED
  BY <1>1, <1>2, LedgersBegin, Invariance, PTL DEF Spec, PaidNotReopened
=============================================================================
