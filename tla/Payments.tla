------------------------------ MODULE Payments ------------------------------
(***************************************************************************)
(* The online payments of one appointment: payments.service.ts, the events *)
(* Wompi sends and what the customer's return makes the server ask.        *)
(*                                                                         *)
(* A request r is a handler in flight, a sequence of reads and one final   *)
(* transaction, as in Booking.  req[r].step names what r does next:        *)
(*   payment     - read the payment of the reference (then apply begins)   *)
(*   appointment - apply reads the appointment                             *)
(*   write       - the transaction                                         *)
(* Wompi is outside the repository: its transactions are settled at any    *)
(* time, and the event of a settled one is delivered any number of times,  *)
(* in any order, or never.                                                 *)
(***************************************************************************)
EXTENDS AppointmentRules

CONSTANTS
  Requests,   \* handlers that can run at the same time
  Refs,       \* payment references; one row of payments each
  Txs,        \* transaction identifiers of Wompi
  Amounts,    \* amounts and currencies Wompi may report
  Price,      \* the one the payment was created with
  Required,   \* booking.paymentMode = REQUIRED
  Clients,    \* which of the handlers are used
  None

ASSUME PriceAssumption == Price \in Amounts
ASSUME RequiredAssumption == Required \in BOOLEAN

VARIABLES
  status,    \* appointment.status
  paid,      \* appointment.paymentStatus
  taken,     \* another appointment holds the hour of this one
  payments,  \* the payments table
  kept,      \* history: payments whose money stayed when another was refunded
  gateway,   \* Wompi's transactions
  events,    \* the webhook events Wompi has issued
  req        \* the requests in flight

vars == <<status, paid, taken, payments, kept, gateway, events, req>>
appointment == <<status, paid, taken, kept>>
wompi == <<gateway, events>>

PaymentStatuses == {"UNPAID", "PENDING", "PAID", "FAILED", "REFUNDED"}
TransactionStatuses == {"PENDING", "PAID", "FAILED", "REFUNDED"}
Payment == [status : TransactionStatuses, tx : Txs \cup {None}]
Transaction ==
  [ref : Refs, amount : Amounts,
   status : {"PENDING", "APPROVED", "DECLINED", "VOIDED"}]

ASSUME NoneAssumption == None \notin Payment \cup Transaction \cup Txs

Idle == [op |-> "none", step |-> "idle", ref |-> None, tx |-> None,
         to |-> None, seenStatus |-> None, seenPaid |-> None]

Created == {p \in Refs : payments[p] # None}
IsIdle(r) == req[r] = Idle
Advance(r, fields) == req' = [req EXCEPT ![r] = fields]
Reply(r) == req' = [req EXCEPT ![r] = Idle]

Init ==
  /\ status \in {"PENDING", "CONFIRMED"} /\ paid = "UNPAID" /\ taken = FALSE
  /\ payments = [p \in Refs |-> None] /\ kept = {}
  /\ gateway = [t \in Txs |-> None] /\ events = {}
  /\ req = [r \in Requests |-> Idle]

-----------------------------------------------------------------------------
(* Wompi.                                                                  *)

\* The customer pays at the checkout of a reference.
Pay(t) ==
  /\ gateway[t] = None
  /\ \E p \in Created, m \in Amounts :
       gateway' = [gateway EXCEPT
                     ![t] = [ref |-> p, amount |-> m, status |-> "PENDING"]]
  /\ UNCHANGED <<appointment, payments, events, req>>

\* A transaction is settled or voided, and an event is issued about it.
Settle(t) ==
  /\ gateway[t] # None
  /\ \E st \in {"APPROVED", "DECLINED", "VOIDED"} :
       /\ <<gateway[t].status, st>> \in
            {<<"PENDING", "APPROVED">>, <<"PENDING", "DECLINED">>,
             <<"APPROVED", "VOIDED">>}
       /\ gateway' = [gateway EXCEPT ![t].status = st]
       /\ events' = events \cup
            {[tx |-> t, content |-> [gateway[t] EXCEPT !.status = st]]}
  /\ UNCHANGED <<appointment, payments, req>>

-----------------------------------------------------------------------------
(* Starting a payment: startCheckout.                                      *)

\* Mutant of ReadForCheckout: a paid appointment can be paid again.
ReadForCheckoutAgain(r) ==
  /\ "checkout" \in Clients /\ IsIdle(r)
  /\ status \in {"PENDING", "CONFIRMED"}
  /\ \E p \in Refs \ Created :
       Advance(r, [Idle EXCEPT !.op = "checkout", !.step = "write", !.ref = p])
  /\ UNCHANGED <<appointment, payments, wompi>>

ReadForCheckout(r) ==
  /\ "checkout" \in Clients /\ IsIdle(r)
  /\ paid # "PAID" /\ status \in {"PENDING", "CONFIRMED"}
  /\ \E p \in Refs \ Created :
       Advance(r, [Idle EXCEPT !.op = "checkout", !.step = "write", !.ref = p])
  /\ UNCHANGED <<appointment, payments, wompi>>

\* A reference is random: two requests never create the same one.
CreatePayment(r) ==
  /\ req[r].op = "checkout"
  /\ req[r].ref \notin Created
  /\ payments' = [payments EXCEPT
                    ![req[r].ref] = [status |-> "PENDING", tx |-> None]]
  /\ paid' = "PENDING"
  /\ Reply(r)
  /\ UNCHANGED <<status, taken, kept, wompi>>

-----------------------------------------------------------------------------
(* Learning what became of a transaction: handleWebhook and verifyReturn,  *)
(* then apply.                                                             *)

\* Mutant of Outcome: the amount is not compared.
OutcomeAnyAmount(t) ==
  CASE t.status = "APPROVED" -> "PAID"
    [] t.status = "PENDING"  -> "PENDING"
    [] OTHER                 -> "FAILED"

\* STATUS of the Wompi provider, and the amount check that opens apply.
Outcome(t) ==
  CASE t.status = "APPROVED" -> IF t.amount = Price THEN "PAID" ELSE "FAILED"
    [] t.status = "PENDING"  -> "PENDING"
    [] OTHER                 -> "FAILED"

Learn(r, t, content) ==
  /\ IsIdle(r)
  /\ Advance(r, [Idle EXCEPT !.op = "apply", !.step = "payment",
                   !.ref = content.ref, !.tx = t, !.to = Outcome(content)])
  /\ UNCHANGED <<appointment, payments, wompi>>

\* handleWebhook: an event arrives, as it was when it was issued.
ReceiveEvent(r, t) ==
  \E e \in events : e.tx = t /\ Learn(r, t, e.content)

\* verifyReturn: the customer is back and Wompi is asked about the transaction.
FetchTransaction(r) ==
  \E t \in Txs : "return" \in Clients /\ gateway[t] # None /\ Learn(r, t, gateway[t])

\* Mutant of Final: a failed payment stays failed.
FinalWithFailed == {"PAID", "REFUNDED", "FAILED"}

\* Mutant of Final: a refunded payment can be paid again.
FinalPaidOnly == {"PAID"}

\* The payment statuses apply leaves alone.
Final == {"PAID", "REFUNDED"}

\* apply returns early on a repeated event and on a final payment.
ReadPayment(r) ==
  LET q == req[r]
      p == payments[q.ref]
      nothingToDo == <<p.status, p.tx>> = <<q.to, q.tx>> \/ p.status \in Final
  IN /\ q.step = "payment"
     /\ \/ nothingToDo /\ Reply(r)
        \/ ~ nothingToDo /\ Advance(r, [q EXCEPT !.step = "appointment"])
     /\ UNCHANGED <<appointment, payments, wompi>>

ReadAppointment(r) ==
  /\ req[r].step = "appointment"
  /\ Advance(r, [req[r] EXCEPT !.step = "write",
                   !.seenStatus = status, !.seenPaid = paid])
  /\ UNCHANGED <<appointment, payments, wompi>>

\* What apply writes in the appointment, from what it read of it.
NextPaid(q) ==
  CASE q.to = "PAID" -> "PAID"
    [] q.to = "FAILED" /\ q.seenPaid # "PAID" -> "FAILED"
    [] OTHER -> paid

\* Mutant of NextStatus: a mandatory payment does not confirm.
NextStatusUnconfirmed(q) == status

NextStatus(q) ==
  IF Required /\ q.to = "PAID" /\ q.seenStatus = "PENDING"
    THEN "CONFIRMED" ELSE status

\* Mutant of Admitted: no exclusion constraint.
AdmittedAnyway(q) == TRUE

\* The exclusion constraint refuses to bring back a row whose hour is taken,
\* and the payment is then not recorded either.
Admitted(q) == ~ (taken /\ HoldsSlot(NextStatus(q)) /\ ~ HoldsSlot(status))

\* Mutant of WriteOutcome: the appointment is written outside the transaction.
WriteOutcomeHalf(r) ==
  LET q == req[r] IN
  /\ q.op = "apply" /\ q.step = "write"
  /\ payments' = [payments EXCEPT ![q.ref] = [status |-> q.to, tx |-> q.tx]]
  /\ Reply(r)
  /\ UNCHANGED <<appointment, wompi>>

WriteOutcome(r) ==
  LET q == req[r] IN
  /\ q.op = "apply" /\ q.step = "write"
  /\ \/ /\ Admitted(q)
        /\ payments' = [payments EXCEPT ![q.ref] = [status |-> q.to, tx |-> q.tx]]
        /\ paid' = NextPaid(q) /\ status' = NextStatus(q)
     \/ ~ Admitted(q) /\ UNCHANGED <<payments, paid, status>>
  /\ Reply(r)
  /\ UNCHANGED <<taken, kept, wompi>>

-----------------------------------------------------------------------------
(* Refunds, and what else writes the appointment.                          *)

\* markRefunded reads the payment: only an approved one is refunded.
ReadForRefund(r) ==
  /\ "refund" \in Clients /\ IsIdle(r)
  /\ \E p \in Created :
       /\ payments[p].status = "PAID"
       /\ Advance(r, [Idle EXCEPT !.op = "refund", !.step = "write", !.ref = p])
  /\ UNCHANGED <<appointment, payments, wompi>>

\* The other payments of the appointment that are PAID.
OthersPaid(p) == {x \in Created \ {p} : payments[x].status = "PAID"}

\* The appointment is refunded with it, whatever else was paid for it: kept.
WriteRefund(r) ==
  /\ req[r].op = "refund"
  /\ payments' = [payments EXCEPT ![req[r].ref].status = "REFUNDED"]
  /\ paid' = "REFUNDED"
  /\ kept' = kept \cup OthersPaid(req[r].ref)
  /\ Reply(r)
  /\ UNCHANGED <<status, taken, wompi>>

\* Staff record a payment in person, or take it back: appointments.update.
SetPaidByHand ==
  /\ "cash" \in Clients
  /\ paid' \in {"UNPAID", "PAID"}
  /\ UNCHANGED <<status, taken, payments, kept, wompi, req>>

\* Booking's status writers, each as one step.
ChangeStatus ==
  /\ "staff" \in Clients
  /\ \E to \in Statuses :
       /\ CanTransition(status, to)
       /\ status' = to
  /\ UNCHANGED <<paid, taken, payments, kept, wompi, req>>

\* Somebody books the hour this appointment has given back, or leaves it.
Rebook ==
  /\ ~ HoldsSlot(status)
  /\ taken' = ~ taken
  /\ UNCHANGED <<status, paid, payments, kept, wompi, req>>

Abort(r) ==
  /\ "abort" \in Clients /\ ~ IsIdle(r)
  /\ Reply(r)
  /\ UNCHANGED <<appointment, payments, wompi>>

Next ==
  \/ \E t \in Txs : Pay(t) \/ Settle(t)
  \/ \E r \in Requests :
       \/ ReadForCheckout(r) \/ CreatePayment(r)
       \/ FetchTransaction(r) \/ \E t \in Txs : ReceiveEvent(r, t)
       \/ ReadPayment(r) \/ ReadAppointment(r) \/ WriteOutcome(r)
       \/ ReadForRefund(r) \/ WriteRefund(r)
       \/ Abort(r)
  \/ SetPaidByHand \/ ChangeStatus \/ Rebook

Spec == Init /\ [][Next]_vars

\* Wompi repeats an event until it is answered, and a handler that runs again
\* and again is not cut off at the same step every time.
Delivered(t, A(_)) == \E r \in Requests : req[r].tx = t /\ A(r)
Fairness ==
  \A t \in Txs :
    /\ SF_vars(\E r \in Requests : ReceiveEvent(r, t))
    /\ SF_vars(Delivered(t, ReadPayment))
    /\ SF_vars(Delivered(t, ReadAppointment))
    /\ SF_vars(Delivered(t, WriteOutcome))

FairSpec == Spec /\ Fairness
-----------------------------------------------------------------------------
(* Properties.                                                             *)

Request ==
  [op : {"none", "checkout", "apply", "refund"},
   step : {"idle", "payment", "appointment", "write"},
   ref : Refs \cup {None}, tx : Txs \cup {None},
   to : TransactionStatuses \cup {None},
   seenStatus : Statuses \cup {None}, seenPaid : PaymentStatuses \cup {None}]

\* Tables, events and requests have their shape, and the appointment never
\* holds an hour that was given to another one.
TypeOK ==
  /\ status \in Statuses /\ paid \in PaymentStatuses /\ taken \in BOOLEAN
  /\ payments \in [Refs -> Payment \cup {None}] /\ kept \subseteq Refs
  /\ gateway \in [Txs -> Transaction \cup {None}]
  /\ events \subseteq [tx : Txs, content : Transaction]
  /\ req \in [Requests -> Request]
  /\ taken => ~ HoldsSlot(status)

\* A transaction in which the whole price of a reference has been paid, even
\* if it was voided afterwards.
Covers(t, p) ==
  /\ gateway[t] # None
  /\ gateway[t].ref = p /\ gateway[t].amount = Price
  /\ gateway[t].status \in {"APPROVED", "VOIDED"}

\* A payment is PAID only with the money of its own reference, in full, at
\* Wompi, in the very transaction the row names: late, repeated and reordered
\* events, and requests that write what they learnt long ago, included.
MoneyBehindPaid ==
  \A p \in Created :
    payments[p].status = "PAID" =>
      \E t \in Txs : payments[p].tx = t /\ Covers(t, p)

\* An approved payment can only become refunded, and a refunded one stays so.
PaymentIsFinal ==
  [][\A p \in Created :
       /\ payments[p].status = "PAID" =>
            payments'[p].status \in {"PAID", "REFUNDED"}
       /\ payments[p].status = "REFUNDED" => payments'[p].status = "REFUNDED"]_vars

\* An appointment that is paid is not set to be paid again.
PaidNotReopened == [][paid = "PAID" => paid' # "PENDING"]_vars

\* The appointment tells what its payments tell, when nobody pays in cash: it
\* is paid or refunded only as one of them is, refunded if all of them are,
\* and paid while one of them is; all but the payments in kept.  Of two paid
\* ones markRefunded takes one back and calls the appointment refunded, so
\* that it no longer tells of the money of the other.  One that is paid
\* after a refund is told again.
LedgersAgree ==
  LET rows == {payments[p].status : p \in Created} IN
  /\ paid \in {"PAID", "REFUNDED"} => paid \in rows
  /\ rows = {"REFUNDED"} => paid = "REFUNDED"
  /\ \A p \in Created \ kept : payments[p].status = "PAID" => paid = "PAID"

Approved(t) ==
  /\ gateway[t] # None
  /\ gateway[t].status = "APPROVED" /\ gateway[t].amount = Price

\* What Wompi has approved is recorded in the end, whatever failed before it
\* under the same reference, unless Wompi voids it.
ApprovedIsRecorded ==
  \A t \in Txs :
    Approved(t) ~>
      \/ ~ Approved(t)
      \/ payments[gateway[t].ref].status \in {"PAID", "REFUNDED"}

\* Where paying is mandatory, an approved payment in the end takes the
\* appointment out of PENDING.
PaidIsConfirmed ==
  \A t \in Txs : Required /\ Approved(t) ~> ~ Approved(t) \/ status # "PENDING"
=============================================================================
