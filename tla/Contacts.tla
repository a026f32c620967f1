------------------------------ MODULE Contacts ------------------------------
(***************************************************************************)
(* The customers of a business and what is written to and by them:         *)
(* customers.service.ts and chat.service.ts, with the part of a booking    *)
(* that finds or creates its customer.                                     *)
(*                                                                         *)
(* A request r is a handler in flight; req[r].step names what it does next:*)
(*   book            - write the customer and the appointment              *)
(*   create, edit, delete - the write of the panel's handler               *)
(*   receive, send   - the transaction that adds a message                 *)
(*   thread          - upsert the conversation staff begin                 *)
(*   zero            - the second statement of markRead, and its commit    *)
(*   mark            - mark as read the thread a customer has opened       *)
(***************************************************************************)
EXTENDS Naturals, SequencesExt, Tables

CONSTANTS
  Requests,     \* handlers that can run at the same time
  Customers,    \* rows of customers
  Phones,
  Emails,
  Visits,       \* rows of appointments
  Messages,     \* rows of messages
  ThreadLimit,  \* how many messages publicThread returns
  Clients,      \* which of the handlers are used
  Gone          \* a row that was deleted

VARIABLES
  customers,  \* the customers table
  visits,     \* the customer of each appointment
  unread,     \* conversation.unreadForBusiness of each customer, None without one
  thread,     \* the messages of each conversation by createdAt
  messages,   \* the messages table
  req         \* the requests in flight

vars == <<customers, visits, unread, thread, messages, req>>
people == <<customers, visits>>
chat == <<unread, thread, messages>>

Customer == [phone : Phones, email : Emails \cup {None}]
Message ==
  [sender : {"CUSTOMER", "STAFF"}, read : BOOLEAN, shown : BOOLEAN, late : BOOLEAN]
Request ==
  [step : {"idle", "book", "create", "edit", "delete", "receive", "send", "thread",
           "zero", "mark"},
   cust : Customers \cup {None}, phone : Phones \cup {None}, email : Emails \cup {None},
   seen : SUBSET Messages, behind : BOOLEAN]

\* What the parameters must be.
Assumptions ==
  /\ ThreadLimit \in Nat /\ None # Gone
  /\ IsFiniteSet(Customers) /\ IsFiniteSet(Messages)
  /\ {None, Gone} \cap (Customer \cup Message \cup Customers \cup Emails \cup Messages) = {}

Idle == [step |-> "idle", cust |-> None, phone |-> None, email |-> None,
         seen |-> {}, behind |-> FALSE]

IsIdle(r) == req[r] = Idle
Begin(r, client, fields) ==
  /\ client \in Clients /\ IsIdle(r)
  /\ req' = [req EXCEPT ![r] = fields]
Advance(r, fields) == req' = [req EXCEPT ![r] = fields]
Reply(r) == req' = [req EXCEPT ![r] = Idle]

\* The answer of a request that wrote customer c: bookings that read it before
\* are from now on behind.
Overtake(r, c) ==
  req' = [s \in Requests |->
    IF s = r THEN Idle
    ELSE IF req[s].step = "book" /\ req[s].cust = c
      THEN [req[s] EXCEPT !.behind = TRUE] ELSE req[s]]

Exists(c) == customers[c] \notin {None, Gone}
WithPhone(ph) == {c \in Customers : Exists(c) /\ customers[c].phone = ph}
Met == {visits[v] : v \in Visits} \ {None}

\* The unique index on (businessId, phone).
PhoneFree(ph, c) == WithPhone(ph) \subseteq {c}

Init ==
  /\ customers = [c \in Customers |-> None]
  /\ visits = [v \in Visits |-> None]
  /\ unread = [c \in Customers |-> None]
  /\ thread = [c \in Customers |-> <<>>]
  /\ messages = [m \in Messages |-> None]
  /\ req = [r \in Requests |-> Idle]

-----------------------------------------------------------------------------
(* A booking: findOrCreate inside the transaction of the appointment.      *)

ReadContact(r) ==
  /\ \E ph \in Phones, e \in Emails \cup {None} :
       LET known == WithPhone(ph) IN
       \E c \in IF known # {} THEN known ELSE {None} :
         Begin(r, "book", [Idle EXCEPT !.step = "book", !.cust = c, !.phone = ph,
                             !.email = IF c # None /\ customers[c].email # None
                                       THEN None ELSE e])
  /\ UNCHANGED <<people, chat>>

\* Mutant of Completed: the address given now replaces the one there was.
CompletedAlways(c, e) == [customers[c] EXCEPT !.email = e]

\* The customer a booking reuses: only a missing address is completed.
Completed(c, e) ==
  IF e = None THEN customers[c] ELSE [customers[c] EXCEPT !.email = e]

NewVisit(c) ==
  \E v \in NewId(visits) : visits' = [visits EXCEPT ![v] = c]

\* The commit, or a refusal of all of it: the customer was deleted meanwhile,
\* or another request created one with this phone.
CommitBooking(r) ==
  LET q == req[r] IN
  /\ q.step = "book"
  /\ \/ /\ q.cust # None /\ Exists(q.cust)
        /\ customers' = [customers EXCEPT ![q.cust] = Completed(q.cust, q.email)]
        /\ NewVisit(q.cust)
        /\ Overtake(r, q.cust)
     \/ /\ q.cust = None /\ PhoneFree(q.phone, None)
        /\ \E c \in NewId(customers) :
             /\ customers' = [customers EXCEPT ![c] = [phone |-> q.phone, email |-> q.email]]
             /\ NewVisit(c)
        /\ Reply(r)
     \/ /\ IF q.cust = None THEN ~ PhoneFree(q.phone, None) ELSE ~ Exists(q.cust)
        /\ Reply(r)
        /\ UNCHANGED people
  /\ UNCHANGED chat

-----------------------------------------------------------------------------
(* The panel: create, update, remove.                                      *)

ReadPhone(r) ==
  /\ \E ph \in Phones, e \in Emails \cup {None} :
       /\ PhoneFree(ph, None)
       /\ Begin(r, "create", [Idle EXCEPT !.step = "create", !.phone = ph, !.email = e])
  /\ UNCHANGED <<people, chat>>

CommitCreate(r) ==
  LET q == req[r] IN
  /\ q.step = "create"
  /\ \/ /\ PhoneFree(q.phone, None)
        /\ \E c \in NewId(customers) :
             /\ customers' = [customers EXCEPT ![c] = [phone |-> q.phone, email |-> q.email]]
     \/ ~ PhoneFree(q.phone, None) /\ UNCHANGED customers
  /\ Reply(r)
  /\ UNCHANGED <<visits, chat>>

ReadForEdit(r) ==
  /\ \E c \in Customers, ph \in Phones, e \in Emails \cup {None} :
       /\ Exists(c) /\ PhoneFree(ph, c)
       /\ Begin(r, "edit", [Idle EXCEPT !.step = "edit", !.cust = c,
                              !.phone = ph, !.email = e])
  /\ UNCHANGED <<people, chat>>

CommitEdit(r) ==
  LET q == req[r]
      done == Exists(q.cust) /\ PhoneFree(q.phone, q.cust)
  IN /\ q.step = "edit"
     /\ \/ /\ done
           /\ customers' = [customers EXCEPT
                ![q.cust] = [phone |-> q.phone, email |-> q.email]]
           /\ Overtake(r, q.cust)
        \/ ~ done /\ Reply(r) /\ UNCHANGED customers
     /\ UNCHANGED <<visits, chat>>

CountVisits(r) ==
  /\ \E c \in Customers :
       /\ Exists(c) /\ c \notin Met
       /\ Begin(r, "delete", [Idle EXCEPT !.step = "delete", !.cust = c])
  /\ UNCHANGED <<people, chat>>

\* What the foreign key of the appointments lets go, whatever was counted.
Deletable(c) == Exists(c) /\ c \notin Met

\* A deleted customer takes the conversation along.
Delete(r) ==
  LET c == req[r].cust IN
  /\ req[r].step = "delete"
  /\ \/ /\ Deletable(c)
        /\ customers' = [customers EXCEPT ![c] = Gone]
        /\ unread' = [unread EXCEPT ![c] = None]
        /\ thread' = [thread EXCEPT ![c] = <<>>]
        /\ messages' = [m \in Messages |->
             IF \E i \in DOMAIN thread[c] : thread[c][i] = m THEN Gone ELSE messages[m]]
     \/ ~ Deletable(c) /\ UNCHANGED <<customers, chat>>
  /\ Reply(r)
  /\ UNCHANGED visits

-----------------------------------------------------------------------------
(* The chat.                                                               *)

\* A customer of an appointment's link writes: publicSend.
BeginReceive(r) ==
  /\ \E c \in Met : Begin(r, "chat", [Idle EXCEPT !.step = "receive", !.cust = c])
  /\ UNCHANGED <<people, chat>>

\* One more message at the end of a conversation.
Write(c, sender, late) ==
  \E m \in NewId(messages) :
    /\ messages' = [messages EXCEPT ![m] =
         [sender |-> sender, read |-> FALSE, shown |-> FALSE, late |-> late]]
    /\ thread' = [thread EXCEPT ![c] = Append(@, m)]

\* receiveFromChannel: the upsert and the message in one transaction.
Receive(r) ==
  LET c == req[r].cust IN
  /\ req[r].step = "receive"
  /\ unread' = [unread EXCEPT ![c] = IF @ = None THEN 1 ELSE @ + 1]
  /\ Write(c, "CUSTOMER", FALSE)
  /\ Reply(r)
  /\ UNCHANGED people

\* send begins from a conversation, startWith from a customer.
BeginSend(r) ==
  /\ \E c \in Customers :
       /\ unread[c] # None
       /\ Begin(r, "chat", [Idle EXCEPT !.step = "send", !.cust = c])
  /\ UNCHANGED <<people, chat>>

BeginThread(r) ==
  /\ \E c \in Customers :
       /\ Exists(c)
       /\ Begin(r, "chat", [Idle EXCEPT !.step = "thread", !.cust = c])
  /\ UNCHANGED <<people, chat>>

StartThread(r) ==
  LET c == req[r].cust IN
  /\ req[r].step = "thread"
  /\ \/ /\ Exists(c)
        /\ unread' = [unread EXCEPT ![c] = IF @ = None THEN 0 ELSE @]
        /\ Advance(r, [req[r] EXCEPT !.step = "send"])
     \/ ~ Exists(c) /\ Reply(r) /\ UNCHANGED unread
  /\ UNCHANGED <<people, thread, messages>>

\* writeAsStaff.  The message is late for a customer who is opening the thread.
Send(r) ==
  LET c == req[r].cust IN
  /\ req[r].step = "send"
  /\ \/ /\ unread[c] # None
        /\ unread' = [unread EXCEPT ![c] = 0]
        /\ Write(c, "STAFF", \E s \in Requests : req[s].step = "mark" /\ req[s].cust = c)
     \/ unread[c] = None /\ UNCHANGED <<unread, thread, messages>>
  /\ Reply(r)
  /\ UNCHANGED people

\* Mutant of Unopened: staff read their own messages.
UnopenedAny(c, sender) == {m \in ToSet(thread[c]) : ~ messages[m].read}

Unopened(c, sender) ==
  {m \in ToSet(thread[c]) : messages[m].sender = sender /\ ~ messages[m].read}

Open(S) == messages' = [m \in Messages |->
  IF m \in S /\ messages[m] # Gone THEN [messages[m] EXCEPT !.read = TRUE] ELSE messages[m]]

\* list, of which the panel shows the hundred latest: the conversations, with
\* the last message of each.
list == [c \in {d \in Customers : unread[d] # None} |->
  [unread |-> unread[c], last |-> IF thread[c] = <<>> THEN None ELSE Last(thread[c])]]

\* unreadCount: the number beside the menu.
unreadCount == MapThenSumSet(LAMBDA c : list[c].unread, DOMAIN list)

\* markRead: its first statement finds the messages it will mark.
MarkRead(r) ==
  /\ \E c \in Customers :
       /\ unread[c] # None
       /\ Begin(r, "chat", [Idle EXCEPT !.step = "zero", !.cust = c,
                              !.seen = Unopened(c, "CUSTOMER")])
  /\ UNCHANGED <<people, chat>>

\* Mutant of CommitRead: the counter is left as it was.
CommitReadKeeping(r) ==
  /\ req[r].step = "zero"
  /\ Open(req[r].seen)
  /\ Reply(r)
  /\ UNCHANGED <<people, unread, thread>>

CommitRead(r) ==
  LET c == req[r].cust IN
  /\ req[r].step = "zero"
  /\ \/ /\ unread[c] # None
        /\ Open(req[r].seen)
        /\ unread' = [unread EXCEPT ![c] = 0]
     \/ unread[c] = None /\ UNCHANGED <<unread, messages>>
  /\ Reply(r)
  /\ UNCHANGED <<people, thread>>

\* publicThread: the list, oldest first and cut, then the mark of all.
ListThread(r) ==
  /\ \E c \in Met :
       /\ unread[c] # None
       /\ Begin(r, "chat", [Idle EXCEPT !.step = "mark", !.cust = c])
       /\ messages' = [m \in Messages |->
            IF \E i \in DOMAIN thread[c] : i <= ThreadLimit /\ thread[c][i] = m
              THEN [messages[m] EXCEPT !.shown = TRUE] ELSE messages[m]]
  /\ UNCHANGED <<people, unread, thread>>

MarkThread(r) ==
  /\ req[r].step = "mark"
  /\ Open(Unopened(req[r].cust, "STAFF"))
  /\ Reply(r)
  /\ UNCHANGED <<people, unread, thread>>

Next ==
  \E r \in Requests :
    \/ ReadContact(r) \/ CommitBooking(r)
    \/ ReadPhone(r) \/ CommitCreate(r) \/ ReadForEdit(r) \/ CommitEdit(r)
    \/ CountVisits(r) \/ Delete(r)
    \/ BeginReceive(r) \/ Receive(r)
    \/ BeginSend(r) \/ BeginThread(r) \/ StartThread(r) \/ Send(r)
    \/ MarkRead(r) \/ CommitRead(r) \/ ListThread(r) \/ MarkThread(r)

Spec == Init /\ [][Next]_vars
-----------------------------------------------------------------------------
(* Properties.                                                             *)

\* Tables and requests have their shape, and every conversation has its
\* customer.
TypeOK ==
  /\ customers \in [Customers -> Customer \cup {None, Gone}]
  /\ visits \in [Visits -> Customers \cup {None}]
  /\ unread \in [Customers -> Nat \cup {None}]
  /\ thread \in [Customers -> Seq(Messages)]
  /\ messages \in [Messages -> Message \cup {None, Gone}]
  /\ req \in [Requests -> Request]
  /\ \A c \in Customers : unread[c] # None => Exists(c)

\* A booking never changes the address the business had, unless it was written
\* while the booking was being handled.
AddressKept ==
  [][\A r \in Requests :
       LET c == req[r].cust IN
       /\ req[r].step = "book" /\ req'[r] = Idle
       /\ c # None /\ Exists(c) /\ customers[c].email # None
       => req[r].behind \/ customers'[c].email = customers[c].email]_vars

\* The panel never announces more messages than there are unread: whatever the
\* order in which customers write and staff read and answer.
CounterNeverOverstates ==
  /\ \A c \in DOMAIN list :
       /\ list[c].unread <= Cardinality(Unopened(c, "CUSTOMER"))
       /\ list[c].unread > 0 => list[c].last # None
  /\ unreadCount <= Cardinality(
       {m \in Messages : messages[m] \notin {None, Gone} /\ messages[m].sender = "CUSTOMER"
                                                       /\ ~ messages[m].read})

\* What staff wrote is read only if the customer was shown it, unless it was
\* written while the thread was being opened, or lies beyond the part of the
\* thread the page receives.
ReadWasShown ==
  \A c \in Customers : \A i \in DOMAIN thread[c] :
    LET m == messages[thread[c][i]] IN
    m.sender = "STAFF" /\ m.read => m.shown \/ m.late \/ i > ThreadLimit
=============================================================================
