---------------------------- MODULE ContactsProofs ----------------------------
(***************************************************************************)
(* Theorems about Contacts for every set of customers, messages and        *)
(* requests in flight, whichever handlers are used.                        *)
(***************************************************************************)
EXTENDS Contacts, FiniteSetTheorems, WellFoundedInduction, TLAPS

\* What a request knows by its step: whom it is about, who has an appointment
\* and so stays, and what it will write.
Named(q) ==
  /\ q.step \in {"edit", "delete", "receive", "send", "thread", "zero", "mark"} =>
       q.cust \in Customers
  /\ q.step = "receive" => q.cust \in Met
  /\ q.step \in {"book", "create", "edit"} => q.phone \in Phones

\* A booking that has been told of no change has read the customer as it is:
\* it brings an address only to one without.
Informed(q) ==
  q.step = "book" /\ q.cust # None =>
    /\ q.cust \in Customers /\ customers[q.cust] # None
    /\ Exists(q.cust) /\ ~ q.behind /\ customers[q.cust].email # None => q.email = None

\* What staff are about to mark as read was written by the customer whose
\* conversation they opened, and is in no other.
Own(q) ==
  q.step = "zero" =>
    \A m \in q.seen :
      /\ messages[m] # None
      /\ messages[m] # Gone => messages[m].sender = "CUSTOMER"
      /\ \A d \in Customers : m \in ToSet(thread[d]) => d = q.cust

\* What a customer who is opening the thread has of it.
Displayed(q) ==
  q.step = "mark" =>
    \A i \in DOMAIN thread[q.cust] :
      LET m == messages[thread[q.cust][i]] IN
      m.sender = "STAFF" /\ i <= ThreadLimit => m.shown \/ m.late

Requested(q) == Named(q) /\ Informed(q) /\ Own(q) /\ Displayed(q)

\* Whoever has an appointment is there.
VisitsKept == \A v \in Visits : visits[v] # None => Exists(visits[v])

\* A message in a conversation exists, and is at one place of one conversation.
Threaded ==
  /\ \A c \in Customers : \A i \in DOMAIN thread[c] : messages[thread[c][i]] \in Message
  /\ \A c, d \in Customers : \A i \in DOMAIN thread[c], j \in DOMAIN thread[d] :
       thread[c][i] = thread[d][j] => c = d /\ i = j

\* The counter of a conversation.
Counted ==
  \A c \in Customers :
    unread[c] # None => unread[c] <= Cardinality(Unopened(c, "CUSTOMER"))

IInv ==
  /\ TypeOK /\ VisitsKept /\ Threaded /\ Counted /\ ReadWasShown
  /\ \A r \in Requests : Requested(req[r])

-----------------------------------------------------------------------------
(* Requests.                                                               *)

LEMMA IdleTyped ==
  /\ Idle \in Request
  /\ Idle.step = "idle" /\ Idle.cust = None /\ Idle.email = None /\ ~ Idle.behind
BY DEF Idle, Request

LEMMA IdleRequested == Requested(Idle)
BY IdleTyped DEF Requested, Named, Informed, Own, Displayed

LEMMA IdleRequestedNext == Requested(Idle)'
BY IdleTyped DEF Requested, Named, Informed, Own, Displayed

LEMMA Rows ==
  ASSUME Assumptions
  PROVE  /\ None # Gone /\ None \notin Customer /\ Gone \notin Customer
         /\ None \notin Message /\ Gone \notin Message
         /\ None \notin Customers /\ None \notin Messages /\ None \notin Emails
BY DEF Assumptions

LEMMA NewIdIsFree ==
  ASSUME NEW D, NEW T, NEW table \in [D -> T], NEW x \in NewId(table)
  PROVE  x \in D /\ table[x] = None
BY DEF NewId

\* A step that reads, and leaves everything as it was.
LEMMA OnlyRequest ==
  ASSUME IInv, NEW r \in Requests, NEW q \in Request, Requested(q),
         req' = [req EXCEPT ![r] = q], UNCHANGED <<people, chat>>
  PROVE  IInv'
<1>1. UNCHANGED <<customers, visits, unread, thread, messages>>
  BY DEF people, chat
<1>2. ASSUME NEW p, Requested(p)
      PROVE  Requested(p)'
  BY <1>1, <1>2 DEF Requested, Named, Informed, Own, Displayed, Met, Exists
<1>3. ASSUME NEW s \in Requests
      PROVE  Requested(req[s])'
  <2>1. req'[s] = IF s = r THEN q ELSE req[s]
    BY DEF IInv, TypeOK
  <2>2. Requested(q)' /\ Requested(req[s])
    BY <1>2 DEF IInv
  <2>3. CASE s = r
    <3>1. req'[s] = q
      BY <2>1, <2>3
    <3> QED
      BY <2>2, <3>1 DEF Requested, Named, Informed, Own, Displayed
  <2>4. CASE s # r
    <3>1. req'[s] = req[s]
      BY <2>1, <2>4
    <3> QED
      BY <1>1, <2>2, <3>1 DEF Requested, Named, Informed, Own, Displayed, Met, Exists
  <2> QED
    BY <2>3, <2>4
<1>4. TypeOK'
  BY <1>1 DEF IInv, TypeOK, Exists
<1>5. VisitsKept' /\ Threaded' /\ ReadWasShown'
  BY <1>1 DEF IInv, VisitsKept, Threaded, ReadWasShown, Exists
<1>6. Counted'
  BY <1>1 DEF IInv, Counted, Unopened
<1> QED
  BY <1>3, <1>4, <1>5, <1>6 DEF IInv

\* Begin, once it is known what a request was before.
LEMMA Begun ==
  ASSUME IInv, NEW r \in Requests, NEW q \in Request, Requested(q), NEW client,
         Begin(r, client, q), UNCHANGED <<people, chat>>
  PROVE  IInv'
BY OnlyRequest DEF Begin

LEMMA ContactReads ==
  ASSUME Assumptions, IInv, NEW r \in Requests, ReadContact(r)
  PROVE  IInv'
<1>1. PICK ph \in Phones, e \in Emails \cup {None} :
        \E c \in IF WithPhone(ph) # {} THEN WithPhone(ph) ELSE {None} :
          Begin(r, "book", [Idle EXCEPT !.step = "book", !.cust = c, !.phone = ph,
                              !.email = IF c # None /\ customers[c].email # None
                                        THEN None ELSE e])
  BY DEF ReadContact
<1>2. PICK c \in IF WithPhone(ph) # {} THEN WithPhone(ph) ELSE {None} :
        Begin(r, "book", [Idle EXCEPT !.step = "book", !.cust = c, !.phone = ph,
                            !.email = IF c # None /\ customers[c].email # None
                                      THEN None ELSE e])
  BY <1>1
<1> DEFINE email == IF c # None /\ customers[c].email # None THEN None ELSE e
           q == [Idle EXCEPT !.step = "book", !.cust = c, !.phone = ph, !.email = email]
<1>3. c # None => c \in Customers /\ Exists(c)
  BY <1>2 DEF WithPhone
<1>4. /\ q \in Request
      /\ q.step = "book" /\ q.cust = c /\ q.phone = ph /\ q.email = email
  BY <1>3 DEF Idle, Request
<1>5. Requested(q)
  <2> HIDE DEF q
  <2> QED
    BY <1>3, <1>4 DEF Requested, Named, Informed, Own, Displayed, Exists
<1>6. Begin(r, "book", q) /\ UNCHANGED <<people, chat>>
  BY <1>2 DEF ReadContact
<1> HIDE DEF q
<1> QED
  BY <1>4, <1>5, <1>6, Begun

LEMMA PhoneReads ==
  ASSUME Assumptions, IInv, NEW r \in Requests, ReadPhone(r)
  PROVE  IInv'
<1>1. PICK ph \in Phones, e \in Emails \cup {None} :
        Begin(r, "create", [Idle EXCEPT !.step = "create", !.phone = ph, !.email = e])
  BY DEF ReadPhone
<1> DEFINE q == [Idle EXCEPT !.step = "create", !.phone = ph, !.email = e]
<1>2. q \in Request /\ q.step = "create" /\ q.phone = ph
  BY DEF Idle, Request
<1>3. Begin(r, "create", q) /\ UNCHANGED <<people, chat>>
  BY <1>1 DEF ReadPhone
<1> HIDE DEF q
<1>4. Requested(q)
  BY <1>2 DEF Requested, Named, Informed, Own, Displayed
<1> QED
  BY <1>2, <1>3, <1>4, Begun

LEMMA EditReads ==
  ASSUME Assumptions, IInv, NEW r \in Requests, ReadForEdit(r)
  PROVE  IInv'
<1>1. PICK c \in Customers, ph \in Phones, e \in Emails \cup {None} :
        Begin(r, "edit", [Idle EXCEPT !.step = "edit", !.cust = c,
                            !.phone = ph, !.email = e])
  BY DEF ReadForEdit
<1> DEFINE q == [Idle EXCEPT !.step = "edit", !.cust = c, !.phone = ph, !.email = e]
<1>2. q \in Request /\ q.step = "edit" /\ q.cust = c /\ q.phone = ph
  BY DEF Idle, Request
<1>3. Begin(r, "edit", q) /\ UNCHANGED <<people, chat>>
  BY <1>1 DEF ReadForEdit
<1> HIDE DEF q
<1>4. Requested(q)
  BY <1>2 DEF Requested, Named, Informed, Own, Displayed
<1> QED
  BY <1>2, <1>3, <1>4, Begun

\* The handlers that begin with nothing but a customer: their next step rests
\* on what is so for good once it was read.
LEMMA CustomerReads ==
  ASSUME Assumptions, IInv, NEW r \in Requests,
         CountVisits(r) \/ BeginReceive(r) \/ BeginSend(r) \/ BeginThread(r)
  PROVE  IInv'
<1>1. PICK step \in {"delete", "receive", "send", "thread"}, c \in Customers,
           client \in Clients :
        /\ step = "receive" => c \in Met
        /\ Begin(r, client, [Idle EXCEPT !.step = step, !.cust = c])
        /\ UNCHANGED <<people, chat>>
  <2>1. CASE CountVisits(r)
    BY <2>1 DEF CountVisits, Begin
  <2>2. CASE BeginReceive(r)
    <3>1. Met \subseteq Customers
      BY DEF Met, IInv, TypeOK
    <3> QED
      BY <2>2, <3>1 DEF BeginReceive, Begin
  <2>3. CASE BeginSend(r)
    BY <2>3 DEF BeginSend, Begin
  <2>4. CASE BeginThread(r)
    BY <2>4 DEF BeginThread, Begin
  <2> QED
    BY <2>1, <2>2, <2>3, <2>4
<1> DEFINE q == [Idle EXCEPT !.step = step, !.cust = c]
<1>2. q \in Request /\ q.step = step /\ q.cust = c
  BY DEF Idle, Request
<1>3. Begin(r, client, q) /\ UNCHANGED <<people, chat>>
  BY <1>1
<1> HIDE DEF q
<1>4. Requested(q)
  BY <1>1, <1>2 DEF Requested, Named, Informed, Own, Displayed
<1> QED
  BY <1>2, <1>3, <1>4, Begun

\* What is in a conversation.
LEMMA InThread ==
  ASSUME IInv, NEW c \in Customers, NEW m \in ToSet(thread[c])
  PROVE  m \in Messages /\ messages[m] \in Message
<1>1. PICK i \in DOMAIN thread[c] : thread[c][i] = m
  BY DEF ToSet
<1>2. thread[c] \in Seq(Messages)
  BY DEF IInv, TypeOK
<1> QED
  BY <1>1, <1>2 DEF IInv, Threaded

LEMMA OneConversation ==
  ASSUME IInv, NEW c \in Customers, NEW d \in Customers,
         NEW m \in ToSet(thread[c]), m \in ToSet(thread[d])
  PROVE  c = d
BY DEF IInv, Threaded, ToSet

LEMMA ReadMarks ==
  ASSUME Assumptions, IInv, NEW r \in Requests, MarkRead(r)
  PROVE  IInv'
<1>1. PICK c \in Customers :
        Begin(r, "chat", [Idle EXCEPT !.step = "zero", !.cust = c,
                            !.seen = Unopened(c, "CUSTOMER")])
  BY DEF MarkRead
<1> DEFINE seen == Unopened(c, "CUSTOMER")
           q == [Idle EXCEPT !.step = "zero", !.cust = c, !.seen = seen]
<1>2. ASSUME NEW m \in seen
      PROVE  /\ m \in Messages /\ m \in ToSet(thread[c]) /\ messages[m] \in Message
             /\ messages[m].sender = "CUSTOMER"
  BY InThread DEF Unopened
<1>3. q \in Request /\ q.step = "zero" /\ q.cust = c /\ q.seen = seen
  BY <1>2 DEF Idle, Request
<1>4. Begin(r, "chat", q) /\ UNCHANGED <<people, chat>>
  BY <1>1 DEF MarkRead
<1> HIDE DEF q
<1>5. Own(q)
  BY <1>2, <1>3, Rows, OneConversation DEF Own
<1>6. Requested(q)
  BY <1>3, <1>5 DEF Requested, Named, Informed, Displayed
<1> QED
  BY <1>3, <1>4, <1>6, Begun

-----------------------------------------------------------------------------
(* Customers.                                                              *)

\* A step that writes customers and appointments, and deletes none: requests
\* are answered, told, or have read what is still so.
LEMMA PeopleWritten ==
  ASSUME Assumptions, IInv, UNCHANGED chat,
         customers' \in [Customers -> Customer \cup {None, Gone}],
         visits' \in [Visits -> Customers \cup {None}],
         \A c \in Customers : customers[c] # None => customers'[c] # None,
         \A c \in Customers : Exists(c) => Exists(c)',
         \A v \in Visits : visits[v] # None => visits'[v] = visits[v],
         VisitsKept',
         req' \in [Requests -> Request],
         \A s \in Requests :
           \/ req'[s] = Idle
           \/ req'[s] = req[s] /\ Informed(req[s])'
           \/ req'[s] = [req[s] EXCEPT !.behind = TRUE]
  PROVE  IInv'
<1>1. UNCHANGED <<unread, thread, messages>>
  BY DEF chat
<1>2. Met \subseteq Met'
  BY DEF Met, IInv, TypeOK
<1>3. ASSUME NEW s \in Requests
      PROVE  Requested(req[s])'
  <2>1. Requested(req[s]) /\ req[s] \in Request
    BY DEF IInv, TypeOK
  <2>2. CASE req'[s] = Idle
    BY <2>2, IdleTyped DEF Requested, Named, Informed, Own, Displayed
  <2>3. CASE req'[s] = req[s] /\ Informed(req[s])'
    BY <1>1, <1>2, <2>1, <2>3 DEF Requested, Named, Own, Displayed
  <2>4. CASE req'[s] = [req[s] EXCEPT !.behind = TRUE]
    <3>1. /\ req'[s].step = req[s].step /\ req'[s].cust = req[s].cust
          /\ req'[s].phone = req[s].phone /\ req'[s].seen = req[s].seen /\ req'[s].behind
      BY <2>1, <2>4 DEF Request
    <3>2. Named(req[s])'
      BY <1>2, <2>1, <3>1 DEF Requested, Named
    <3>3. Informed(req[s])'
      BY <2>1, <3>1 DEF Requested, Informed
    <3>4. Own(req[s])'
      BY <1>1, <2>1, <3>1 DEF Requested, Own
    <3>5. Displayed(req[s])'
      BY <1>1, <2>1, <3>1 DEF Requested, Displayed
    <3> QED
      BY <3>2, <3>3, <3>4, <3>5 DEF Requested
  <2> QED
    BY <2>2, <2>3, <2>4
<1>4. TypeOK'
  BY <1>1 DEF IInv, TypeOK
<1>5. Threaded' /\ ReadWasShown'
  BY <1>1 DEF IInv, Threaded, ReadWasShown
<1>6. Counted'
  BY <1>1 DEF IInv, Counted, Unopened
<1> QED
  BY <1>3, <1>4, <1>5, <1>6 DEF IInv

\* An answer to one request.
LEMMA Answered ==
  ASSUME IInv, NEW r \in Requests, Reply(r), UNCHANGED <<people, chat>>
  PROVE  IInv'
BY IdleTyped, IdleRequested, OnlyRequest DEF Reply

\* The write of customer c: of whoever read it before, those who book have read
\* another, or are told.
LEMMA CustomerWritten ==
  ASSUME Assumptions, IInv, UNCHANGED chat, NEW r \in Requests, NEW c \in Customers,
         NEW row \in Customer,
         customers' = [customers EXCEPT ![c] = row],
         \/ Exists(c) /\ Overtake(r, c)
         \/ customers[c] = None /\ Reply(r),
         \/ UNCHANGED visits
         \/ \E v \in NewId(visits) : visits' = [visits EXCEPT ![v] = c]
  PROVE  IInv'
<1>1. /\ customers' \in [Customers -> Customer \cup {None, Gone}]
      /\ \A d \in Customers : customers'[d] = IF d = c THEN row ELSE customers[d]
  BY DEF IInv, TypeOK
<1>2. /\ \A d \in Customers : customers[d] # None => customers'[d] # None
      /\ \A d \in Customers : Exists(d) => Exists(d)'
      /\ Exists(c)'
  BY <1>1, Rows DEF Exists
<1>3. /\ visits' \in [Visits -> Customers \cup {None}]
      /\ \A v \in Visits : visits[v] # None => visits'[v] = visits[v]
      /\ \A v \in Visits : visits'[v] \in {visits[v], c}
  <2>1. CASE UNCHANGED visits
    BY <2>1 DEF IInv, TypeOK
  <2>2. CASE \E v \in NewId(visits) : visits' = [visits EXCEPT ![v] = c]
    <3>1. PICK v \in NewId(visits) : visits' = [visits EXCEPT ![v] = c]
      BY <2>2
    <3>2. v \in Visits /\ visits[v] = None
      BY NewIdIsFree DEF IInv, TypeOK
    <3> QED
      BY <3>1, <3>2 DEF IInv, TypeOK
  <2> QED
    BY <2>1, <2>2
<1>4. VisitsKept'
  BY <1>2, <1>3 DEF IInv, VisitsKept, TypeOK
<1>5. ASSUME NEW s \in Requests
      PROVE  /\ req'[s] \in Request
             /\ \/ req'[s] = Idle
                \/ req'[s] = req[s] /\ Informed(req[s])'
                \/ req'[s] = [req[s] EXCEPT !.behind = TRUE]
  <2>1. req[s] \in Request /\ Informed(req[s])
    BY DEF IInv, TypeOK, Requested
  <2>2. [req[s] EXCEPT !.behind = TRUE] \in Request
    BY <2>1 DEF Request
  <2>3. CASE req'[s] = req[s] /\ (req[s].step = "book" => req[s].cust # c)
    BY <1>1, <2>1, <2>3 DEF Informed, Exists
  <2>4. CASE customers[c] = None /\ Reply(r)
    <3>1. req'[s] = IF s = r THEN Idle ELSE req[s]
      BY <2>4 DEF Reply, IInv, TypeOK
    <3>2. req[s].step = "book" => req[s].cust # c
      BY <2>1, <2>4, Rows DEF Informed
    <3> QED
      BY <2>1, <2>3, <3>1, <3>2, IdleTyped
  <2>5. CASE Overtake(r, c)
    <3>1. req'[s] = IF s = r THEN Idle
                    ELSE IF req[s].step = "book" /\ req[s].cust = c
                      THEN [req[s] EXCEPT !.behind = TRUE] ELSE req[s]
      BY <2>5 DEF Overtake
    <3> QED
      BY <2>2, <2>3, <3>1, IdleTyped
  <2> QED
    BY <2>4, <2>5
<1>6. req' \in [Requests -> Request]
  <2>1. req' = [s \in Requests |-> req'[s]]
    BY DEF Overtake, Reply, IInv, TypeOK
  <2> QED
    BY <1>5, <2>1
<1> QED
  BY <1>1, <1>2, <1>3, <1>4, <1>5, <1>6, PeopleWritten

LEMMA BookingCommits ==
  ASSUME Assumptions, IInv, NEW r \in Requests, CommitBooking(r)
  PROVE  IInv'
<1> DEFINE q == req[r]
<1>1. q \in Request /\ q.step = "book" /\ q.phone \in Phones /\ Informed(q)
  BY DEF CommitBooking, IInv, TypeOK, Requested, Named
<1>2. CASE /\ q.cust # None /\ Exists(q.cust)
           /\ customers' = [customers EXCEPT ![q.cust] = Completed(q.cust, q.email)]
           /\ NewVisit(q.cust) /\ Overtake(r, q.cust)
  <2>1. q.cust \in Customers /\ customers[q.cust] \in Customer
    BY <1>1, <1>2 DEF IInv, TypeOK, Exists, Request
  <2>2. Completed(q.cust, q.email) \in Customer
    BY <1>1, <2>1 DEF Completed, Customer, Request
  <2> QED
    BY <1>2, <2>1, <2>2, CustomerWritten DEF NewVisit, CommitBooking
<1>3. CASE /\ q.cust = None
           /\ \E c \in NewId(customers) :
                /\ customers' = [customers EXCEPT ![c] = [phone |-> q.phone, email |-> q.email]]
                /\ NewVisit(c)
           /\ Reply(r)
  <2>1. PICK c \in NewId(customers) :
          /\ customers' = [customers EXCEPT ![c] = [phone |-> q.phone, email |-> q.email]]
          /\ NewVisit(c)
    BY <1>3
  <2>2. c \in Customers /\ customers[c] = None
    BY NewIdIsFree DEF IInv, TypeOK
  <2>3. [phone |-> q.phone, email |-> q.email] \in Customer
    BY <1>1 DEF Customer, Request
  <2> QED
    BY <1>3, <2>1, <2>2, <2>3, CustomerWritten DEF NewVisit, CommitBooking
<1>4. CASE Reply(r) /\ UNCHANGED people
  BY <1>4, Answered DEF CommitBooking
<1> QED
  BY <1>2, <1>3, <1>4 DEF CommitBooking

LEMMA CreateCommits ==
  ASSUME Assumptions, IInv, NEW r \in Requests, CommitCreate(r)
  PROVE  IInv'
<1> DEFINE q == req[r]
<1>1. q \in Request /\ q.phone \in Phones
  BY DEF CommitCreate, IInv, TypeOK, Requested, Named
<1>2. CASE \E c \in NewId(customers) :
             customers' = [customers EXCEPT ![c] = [phone |-> q.phone, email |-> q.email]]
  <2>1. PICK c \in NewId(customers) :
          customers' = [customers EXCEPT ![c] = [phone |-> q.phone, email |-> q.email]]
    BY <1>2
  <2>2. c \in Customers /\ customers[c] = None
    BY NewIdIsFree DEF IInv, TypeOK
  <2>3. [phone |-> q.phone, email |-> q.email] \in Customer
    BY <1>1 DEF Customer, Request
  <2> QED
    BY <2>1, <2>2, <2>3, CustomerWritten DEF CommitCreate
<1>3. CASE UNCHANGED customers
  BY <1>3, Answered DEF CommitCreate, people
<1> QED
  BY <1>2, <1>3 DEF CommitCreate

LEMMA EditCommits ==
  ASSUME Assumptions, IInv, NEW r \in Requests, CommitEdit(r)
  PROVE  IInv'
<1> DEFINE q == req[r]
<1>1. q \in Request /\ q.phone \in Phones /\ q.cust \in Customers
  BY DEF CommitEdit, IInv, TypeOK, Requested, Named
<1>2. CASE /\ Exists(q.cust) /\ Overtake(r, q.cust)
           /\ customers' = [customers EXCEPT
                ![q.cust] = [phone |-> q.phone, email |-> q.email]]
  <2>1. [phone |-> q.phone, email |-> q.email] \in Customer
    BY <1>1 DEF Customer, Request
  <2> QED
    BY <1>1, <1>2, <2>1, CustomerWritten DEF CommitEdit
<1>3. CASE Reply(r) /\ UNCHANGED customers
  BY <1>3, Answered DEF CommitEdit, people
<1> QED
  BY <1>2, <1>3 DEF CommitEdit

\* A deleted customer had no appointment, and takes the conversation along.
LEMMA DeleteCommits ==
  ASSUME Assumptions, IInv, NEW r \in Requests, Delete(r)
  PROVE  IInv'
<1> DEFINE c == req[r].cust
<1>1. c \in Customers
  BY DEF Delete, IInv, TypeOK, Requested, Named
<1>2. CASE UNCHANGED <<customers, chat>>
  BY <1>2, Answered DEF Delete, people
<1>3. CASE /\ Deletable(c)
           /\ customers' = [customers EXCEPT ![c] = Gone]
           /\ unread' = [unread EXCEPT ![c] = None]
           /\ thread' = [thread EXCEPT ![c] = <<>>]
           /\ messages' = [m \in Messages |->
                IF \E i \in DOMAIN thread[c] : thread[c][i] = m THEN Gone ELSE messages[m]]
  <2> HIDE DEF c
  <2>1. /\ \A d \in Customers : customers'[d] = IF d = c THEN Gone ELSE customers[d]
        /\ \A d \in Customers : unread'[d] = IF d = c THEN None ELSE unread[d]
        /\ \A d \in Customers : thread'[d] = IF d = c THEN <<>> ELSE thread[d]
        /\ visits' = visits /\ c \notin Met /\ Exists(c)
        /\ \A s \in Requests : req'[s] = IF s = r THEN Idle ELSE req[s]
    BY <1>1, <1>3 DEF IInv, TypeOK, Delete, Deletable, Reply
  <2>2. \A m \in Messages : messages'[m] = IF m \in ToSet(thread[c]) THEN Gone ELSE messages[m]
    BY <1>3 DEF ToSet
  <2>3. ASSUME NEW d \in Customers, d # c, NEW m \in ToSet(thread[d])
        PROVE  m \in Messages /\ messages'[m] = messages[m] /\ messages[m] \in Message
    BY <1>1, <2>2, <2>3, InThread, OneConversation
  <2>4. ASSUME NEW d \in Customers, d # c
        PROVE  /\ thread'[d] = thread[d]
               /\ \A i \in DOMAIN thread[d] :
                    /\ messages'[thread[d][i]] = messages[thread[d][i]]
                    /\ messages[thread[d][i]] \in Message
    BY <2>1, <2>3, <2>4 DEF ToSet
  <2>5. TypeOK'
    <3>1. customers' \in [Customers -> Customer \cup {None, Gone}]
      BY <1>3 DEF IInv, TypeOK
    <3>2. unread' \in [Customers -> Nat \cup {None}]
      BY <1>3 DEF IInv, TypeOK
    <3>3. thread' \in [Customers -> Seq(Messages)]
      BY <1>1, <1>3 DEF IInv, TypeOK
    <3>4. messages' \in [Messages -> Message \cup {None, Gone}]
      BY <1>3 DEF IInv, TypeOK
    <3>5. req' \in [Requests -> Request]
      BY IdleTyped DEF IInv, TypeOK, Delete, Reply
    <3>6. \A d \in Customers : unread'[d] # None => Exists(d)'
      BY <2>1 DEF IInv, TypeOK, Exists
    <3> QED
      BY <2>1, <3>1, <3>2, <3>3, <3>4, <3>5, <3>6 DEF IInv, TypeOK
  <2>6. VisitsKept'
    BY <2>1 DEF IInv, VisitsKept, Exists, Met, TypeOK
  <2>7. Threaded'
    <3>1. DOMAIN <<>> = {}
      OBVIOUS
    <3>2. ASSUME NEW d \in Customers, NEW i \in DOMAIN thread'[d]
          PROVE  d # c /\ thread'[d] = thread[d] /\ messages'[thread'[d][i]] \in Message
      BY <2>1, <2>4, <3>1
    <3> QED
      BY <3>2 DEF IInv, Threaded
  <2>8. ReadWasShown'
    BY <2>1, <2>4 DEF IInv, ReadWasShown
  <2>9. Counted'
    <3> SUFFICES ASSUME NEW d \in Customers, unread'[d] # None
                 PROVE  unread'[d] <= Cardinality(Unopened(d, "CUSTOMER")')
      BY DEF Counted
    <3>1. d # c /\ unread'[d] = unread[d]
      BY <2>1
    <3>2. Unopened(d, "CUSTOMER")' = Unopened(d, "CUSTOMER")
      BY <2>3, <2>4, <3>1 DEF Unopened
    <3> QED
      BY <3>1, <3>2 DEF IInv, Counted
  <2>10. ASSUME NEW s \in Requests
         PROVE  Requested(req[s])'
    <3>1. CASE s = r
      <4>1. req'[s] = Idle
        BY <2>1, <3>1
      <4> QED
        BY <4>1, IdleTyped DEF Requested, Named, Informed, Own, Displayed
    <3>2. CASE s # r
      <4>1. req'[s] = req[s] /\ Requested(req[s]) /\ req[s] \in Request
        BY <2>1, <3>2 DEF IInv, TypeOK
      <4>2. Named(req[s])'
        BY <2>1, <4>1 DEF Requested, Named, Met
      <4>3. Informed(req[s])'
        BY <2>1, <4>1, Rows DEF Requested, Informed, Exists
      <4>4. Own(req[s])'
        <5> SUFFICES ASSUME req[s].step = "zero", NEW m \in req[s].seen
                     PROVE  /\ messages'[m] # None
                            /\ messages'[m] # Gone => messages'[m].sender = "CUSTOMER"
                            /\ \A d \in Customers : m \in ToSet(thread'[d]) => d = req[s].cust
          BY <4>1 DEF Own
        <5>1. m \in Messages
          BY <4>1 DEF Request
        <5>2. ToSet(thread'[c]) = {}
          BY <1>1, <2>1 DEF ToSet
        <5> QED
          BY <2>1, <2>2, <4>1, <5>1, <5>2, Rows DEF Requested, Own
      <4>5. Displayed(req[s])'
        <5> SUFFICES ASSUME req[s].step = "mark", NEW i \in DOMAIN thread'[req[s].cust]
                     PROVE  LET m == messages'[thread'[req[s].cust][i]] IN
                            m.sender = "STAFF" /\ i <= ThreadLimit => m.shown \/ m.late
          BY <4>1 DEF Displayed
        <5>1. req[s].cust \in Customers
          BY <4>1 DEF Requested, Named
        <5>2. req[s].cust # c
          BY <1>1, <2>1
        <5> QED
          BY <2>4, <4>1, <5>1, <5>2 DEF Requested, Displayed
      <4> QED
        BY <4>2, <4>3, <4>4, <4>5 DEF Requested
    <3> QED
      BY <3>1, <3>2
  <2> QED
    BY <2>5, <2>6, <2>7, <2>8, <2>9, <2>10 DEF IInv
<1> QED
  BY <1>2, <1>3 DEF Delete

-----------------------------------------------------------------------------
(* Conversations.                                                          *)

\* A step of a conversation, put together: who is in flight knows of messages
\* what is still so.
LEMMA ChatWritten ==
  ASSUME IInv, NEW r \in Requests, NEW q \in Request, req' = [req EXCEPT ![r] = q],
         Named(q), Informed(q), Own(q)', Displayed(q)', UNCHANGED people,
         unread' \in [Customers -> Nat \cup {None}],
         \A c \in Customers : unread'[c] # None => Exists(c),
         thread' \in [Customers -> Seq(Messages)],
         messages' \in [Messages -> Message \cup {None, Gone}],
         Threaded', Counted', ReadWasShown',
         \A s \in Requests : req'[s] = req[s] => Own(req[s])' /\ Displayed(req[s])'
  PROVE  IInv'
<1>1. UNCHANGED <<customers, visits>>
  BY DEF people
<1>2. \A s \in Requests : req'[s] = IF s = r THEN q ELSE req[s]
  BY DEF IInv, TypeOK
<1>3. req' \in [Requests -> Request]
  BY DEF IInv, TypeOK
<1>4. TypeOK'
  BY <1>1, <1>3 DEF IInv, TypeOK, Exists
<1>5. VisitsKept'
  BY <1>1 DEF IInv, VisitsKept, Exists
<1>6. ASSUME NEW s \in Requests
      PROVE  Requested(req[s])'
  <2>1. CASE s = r
    <3>1. req'[s] = q
      BY <1>2, <2>1
    <3>2. Named(q)' /\ Informed(q)'
      BY <1>1 DEF Named, Informed, Met, Exists
    <3> QED
      BY <3>1, <3>2 DEF Requested, Named, Informed, Own, Displayed
  <2>2. CASE s # r
    <3>1. req'[s] = req[s] /\ Requested(req[s])
      BY <1>2, <2>2 DEF IInv
    <3>2. Named(req[s])' /\ Informed(req[s])'
      BY <1>1, <3>1 DEF Requested, Named, Informed, Met, Exists
    <3> QED
      BY <3>1, <3>2 DEF Requested
  <2> QED
    BY <2>1, <2>2
<1> QED
  BY <1>4, <1>5, <1>6 DEF IInv

LEMMA FiniteThread ==
  ASSUME NEW T, NEW s \in Seq(T)
  PROVE  IsFiniteSet(ToSet(s))
<1>1. s \in Surjection(1 .. Len(s), ToSet(s))
  BY DEF Surjection, ToSet
<1>2. IsFiniteSet(1 .. Len(s))
  BY FS_Interval
<1> QED
  BY <1>1, <1>2, FS_Surjection

LEMMA FiniteUnopened ==
  ASSUME IInv, NEW c \in Customers, NEW sender
  PROVE  /\ IsFiniteSet(Unopened(c, sender))
         /\ Cardinality(Unopened(c, sender)) \in Nat
<1>1. IsFiniteSet(ToSet(thread[c]))
  BY FiniteThread DEF IInv, TypeOK
<1>2. Unopened(c, sender) \subseteq ToSet(thread[c])
  BY DEF Unopened
<1> QED
  BY <1>1, <1>2, FS_Subset, FS_CardinalityType

\* A message that is new, at the end of a conversation.
LEMMA MessageWritten ==
  ASSUME Assumptions, IInv, NEW c \in Customers, NEW m \in Messages, messages[m] = None,
         NEW row \in Message, ~ row.read,
         row.sender = "STAFF" =>
           (row.late <=> \E s \in Requests : req[s].step = "mark" /\ req[s].cust = c),
         messages' = [messages EXCEPT ![m] = row],
         thread' = [thread EXCEPT ![c] = Append(thread[c], m)]
  PROVE  /\ thread' \in [Customers -> Seq(Messages)]
         /\ messages' \in [Messages -> Message \cup {None, Gone}]
         /\ Threaded' /\ ReadWasShown'
         /\ \A d \in Customers : d # c =>
              Unopened(d, "CUSTOMER")' = Unopened(d, "CUSTOMER")
         /\ Unopened(c, "CUSTOMER")' =
              Unopened(c, "CUSTOMER") \cup (IF row.sender = "CUSTOMER" THEN {m} ELSE {})
         /\ m \notin Unopened(c, "CUSTOMER")
         /\ \A s \in Requests : req'[s] = req[s] => Own(req[s])' /\ Displayed(req[s])'
<1>1. /\ \A n \in Messages : messages'[n] = IF n = m THEN row ELSE messages[n]
      /\ \A d \in Customers : thread'[d] = IF d = c THEN Append(thread[c], m) ELSE thread[d]
      /\ \A d \in Customers : thread[d] \in Seq(Messages)
  BY DEF IInv, TypeOK
<1>2. /\ DOMAIN Append(thread[c], m) = 1 .. Len(thread[c]) + 1
      /\ DOMAIN thread[c] = 1 .. Len(thread[c]) /\ Len(thread[c]) \in Nat
      /\ \A i \in 1 .. Len(thread[c]) : Append(thread[c], m)[i] = thread[c][i]
      /\ Append(thread[c], m)[Len(thread[c]) + 1] = m
  BY <1>1
<1>3. ASSUME NEW d \in Customers, NEW n \in ToSet(thread[d])
      PROVE  n # m /\ n \in Messages /\ messages[n] \in Message /\ messages'[n] = messages[n]
  BY <1>1, <1>3, InThread, Rows
<1>4. ToSet(thread[c])' = ToSet(thread[c]) \cup {m}
  <2>1. thread'[c] = Append(thread[c], m)
    BY <1>1
  <2>2. ToSet(thread[c]) \subseteq ToSet(thread'[c])
    BY <1>2, <2>1 DEF ToSet
  <2>3. m \in ToSet(thread'[c])
    BY <1>2, <2>1 DEF ToSet
  <2>4. ToSet(thread'[c]) \subseteq ToSet(thread[c]) \cup {m}
    BY <1>2, <2>1 DEF ToSet
  <2> QED
    BY <2>2, <2>3, <2>4
<1>5. \A d \in Customers : d # c => thread'[d] = thread[d] /\ ToSet(thread[d])' = ToSet(thread[d])
  BY <1>1 DEF ToSet
<1>6. ASSUME NEW d \in Customers, NEW i \in DOMAIN thread'[d]
      PROVE  \/ /\ d = c /\ i = Len(thread[c]) + 1 /\ thread'[d][i] = m /\ messages'[m] = row
             \/ /\ i \in DOMAIN thread[d] /\ thread'[d][i] = thread[d][i]
                /\ thread[d][i] # m
                /\ messages'[thread[d][i]] = messages[thread[d][i]]
                /\ messages[thread[d][i]] \in Message
  <2>1. CASE d = c /\ i = Len(thread[c]) + 1
    BY <1>1, <1>2, <2>1
  <2>2. CASE ~ (d = c /\ i = Len(thread[c]) + 1)
    <3>1. i \in DOMAIN thread[d] /\ thread'[d][i] = thread[d][i]
      BY <1>1, <1>2, <1>6, <2>2
    <3>2. thread[d][i] \in ToSet(thread[d])
      BY <3>1 DEF ToSet
    <3> QED
      BY <1>3, <3>1, <3>2
  <2> QED
    BY <2>1, <2>2
<1>7. thread' \in [Customers -> Seq(Messages)]
  BY <1>1 DEF IInv, TypeOK
<1>8. messages' \in [Messages -> Message \cup {None, Gone}]
  BY DEF IInv, TypeOK
<1>9. Threaded'
  <2>1. ASSUME NEW d \in Customers, NEW i \in DOMAIN thread'[d]
        PROVE  messages'[thread'[d][i]] \in Message
    BY <1>6
  <2>2. ASSUME NEW d \in Customers, NEW e \in Customers, NEW i \in DOMAIN thread'[d],
               NEW j \in DOMAIN thread'[e], thread'[d][i] = thread'[e][j]
        PROVE  d = e /\ i = j
    <3>1. CASE i \in DOMAIN thread[d] /\ thread'[d][i] = thread[d][i] /\ thread[d][i] # m
      <4>1. j \in DOMAIN thread[e] /\ thread'[e][j] = thread[e][j]
        BY <1>6, <2>2, <3>1
      <4> QED
        BY <2>2, <3>1, <4>1 DEF IInv, Threaded
    <3>2. CASE d = c /\ i = Len(thread[c]) + 1 /\ thread'[d][i] = m
      BY <1>6, <2>2, <3>2
    <3> QED
      BY <1>6, <3>1, <3>2
  <2> QED
    BY <2>1, <2>2 DEF Threaded
<1>10. ReadWasShown'
  BY <1>6 DEF IInv, ReadWasShown
<1>11. \A d \in Customers : d # c => Unopened(d, "CUSTOMER")' = Unopened(d, "CUSTOMER")
  BY <1>3, <1>5 DEF Unopened
<1>12. m \notin Unopened(c, "CUSTOMER")
  BY <1>3 DEF Unopened
<1>13. Unopened(c, "CUSTOMER")' =
         Unopened(c, "CUSTOMER") \cup (IF row.sender = "CUSTOMER" THEN {m} ELSE {})
  BY <1>1, <1>3, <1>4 DEF Unopened
<1>14. ASSUME NEW s \in Requests, req'[s] = req[s]
       PROVE  Own(req[s])'
  <2>1. Own(req[s]) /\ req[s].seen \subseteq Messages
    BY DEF IInv, Requested, TypeOK, Request
  <2>2. SUFFICES ASSUME req[s].step = "zero", NEW n \in req[s].seen
                 PROVE  /\ messages'[n] # None
                        /\ messages'[n] # Gone => messages'[n].sender = "CUSTOMER"
                        /\ \A d \in Customers : n \in ToSet(thread'[d]) => d = req[s].cust
    BY <1>14 DEF Own
  <2>3. messages[n] # None /\ n # m /\ n \in Messages
    BY <2>1, <2>2 DEF Own
  <2>4. messages'[n] = messages[n]
    BY <1>1, <2>3
  <2>5. ASSUME NEW d \in Customers, n \in ToSet(thread'[d])
        PROVE  n \in ToSet(thread[d])
    BY <1>4, <1>5, <2>3, <2>5
  <2> QED
    BY <2>1, <2>2, <2>3, <2>4, <2>5 DEF Own
<1>15. ASSUME NEW s \in Requests, req'[s] = req[s]
       PROVE  Displayed(req[s])'
  <2>1. SUFFICES ASSUME req[s].step = "mark", NEW i \in DOMAIN thread'[req[s].cust],
                        messages'[thread'[req[s].cust][i]].sender = "STAFF", i <= ThreadLimit
                 PROVE  \/ messages'[thread'[req[s].cust][i]].shown
                        \/ messages'[thread'[req[s].cust][i]].late
    BY <1>15 DEF Displayed
  <2>2. Displayed(req[s]) /\ req[s].cust \in Customers
    BY <2>1 DEF IInv, Requested, Named
  <2> QED
    BY <1>6, <2>1, <2>2 DEF Displayed
<1> QED
  BY <1>7, <1>8, <1>9, <1>10, <1>11, <1>12, <1>13, <1>14, <1>15

\* A request that is answered after it wrote to a conversation.
LEMMA ChatAnswered ==
  ASSUME IInv, NEW r \in Requests, Reply(r), UNCHANGED people,
         unread' \in [Customers -> Nat \cup {None}],
         \A c \in Customers : unread'[c] # None => Exists(c),
         thread' \in [Customers -> Seq(Messages)],
         messages' \in [Messages -> Message \cup {None, Gone}],
         Threaded', Counted', ReadWasShown',
         \A s \in Requests : req'[s] = req[s] => Own(req[s])' /\ Displayed(req[s])'
  PROVE  IInv'
<1>1. /\ Idle \in Request /\ req' = [req EXCEPT ![r] = Idle]
      /\ Named(Idle) /\ Informed(Idle)
  BY IdleTyped, IdleRequested DEF Reply, Requested
<1>2. Own(Idle)' /\ Displayed(Idle)'
  BY IdleRequestedNext DEF Requested
<1> QED
  BY <1>1, <1>2, ChatWritten

LEMMA ReceiveCommits ==
  ASSUME Assumptions, IInv, NEW r \in Requests, Receive(r)
  PROVE  IInv'
<1>0. PICK c : c = req[r].cust
  OBVIOUS
<1>1. c \in Customers /\ Exists(c)
  <2>1. c \in Customers /\ c \in Met
    BY <1>0 DEF Receive, IInv, Requested, Named
  <2> QED
    BY <2>1 DEF Met, IInv, VisitsKept
<1>11. PICK row : row = [sender |-> "CUSTOMER", read |-> FALSE, shown |-> FALSE, late |-> FALSE]
  OBVIOUS
<1>2. PICK m \in NewId(messages) :
        messages' = [messages EXCEPT ![m] = row] /\ thread' = [thread EXCEPT ![c] = Append(@, m)]
  BY <1>0, <1>11 DEF Receive, Write
<1>3. m \in Messages /\ messages[m] = None
  BY NewIdIsFree DEF IInv, TypeOK
<1>4. row \in Message /\ row.sender = "CUSTOMER" /\ ~ row.read
  BY <1>11 DEF Message
<1>5. thread' = [thread EXCEPT ![c] = Append(thread[c], m)]
  BY <1>2
<1>6. /\ Reply(r) /\ UNCHANGED people
      /\ unread' = [unread EXCEPT ![c] = IF unread[c] = None THEN 1 ELSE unread[c] + 1]
  BY <1>0 DEF Receive
<1>7. /\ thread' \in [Customers -> Seq(Messages)]
      /\ messages' \in [Messages -> Message \cup {None, Gone}]
      /\ Threaded' /\ ReadWasShown'
      /\ \A d \in Customers : d # c => Unopened(d, "CUSTOMER")' = Unopened(d, "CUSTOMER")
      /\ Unopened(c, "CUSTOMER")' = Unopened(c, "CUSTOMER") \cup {m}
      /\ m \notin Unopened(c, "CUSTOMER")
      /\ \A s \in Requests : req'[s] = req[s] => Own(req[s])' /\ Displayed(req[s])'
  <2>1. row.sender # "STAFF"
    BY <1>4
  <2> QED
    BY <1>1, <1>2, <1>3, <1>4, <1>5, <2>1, MessageWritten
<1>8. /\ unread' \in [Customers -> Nat \cup {None}]
      /\ \A d \in Customers : d # c => unread'[d] = unread[d]
      /\ unread'[c] = IF unread[c] = None THEN 1 ELSE unread[c] + 1
  BY <1>1, <1>6 DEF IInv, TypeOK
<1>9. Counted'
  <2>1. Cardinality(Unopened(c, "CUSTOMER") \cup {m}) = Cardinality(Unopened(c, "CUSTOMER")) + 1
    BY <1>1, <1>7, FiniteUnopened, FS_AddElement
  <2>2. unread[c] # None => unread[c] <= Cardinality(Unopened(c, "CUSTOMER"))
    BY <1>1 DEF IInv, Counted
  <2>3. unread[c] \in Nat \cup {None} /\ Cardinality(Unopened(c, "CUSTOMER")) \in Nat
    BY <1>1, FiniteUnopened DEF IInv, TypeOK
  <2>4. Cardinality(Unopened(c, "CUSTOMER")') = Cardinality(Unopened(c, "CUSTOMER")) + 1
    BY <1>7, <2>1
  <2>5. unread'[c] <= Cardinality(Unopened(c, "CUSTOMER")')
    BY <1>8, <2>2, <2>3, <2>4
  <2> QED
    BY <1>7, <1>8, <2>5 DEF IInv, Counted
<1>10. \A d \in Customers : unread'[d] # None => Exists(d)
  BY <1>1, <1>8 DEF IInv, TypeOK
<1> QED
  BY <1>6, <1>7, <1>8, <1>9, <1>10, ChatAnswered

LEMMA SendCommits ==
  ASSUME Assumptions, IInv, NEW r \in Requests, Send(r)
  PROVE  IInv'
<1>0. PICK c : c = req[r].cust
  OBVIOUS
<1>1. c \in Customers
  BY <1>0 DEF Send, IInv, Requested, Named
<1>2. CASE unread[c] = None /\ UNCHANGED <<unread, thread, messages>>
  BY <1>2, Answered DEF Send, chat
<1>3. CASE /\ unread[c] # None
           /\ unread' = [unread EXCEPT ![c] = 0]
           /\ Write(c, "STAFF", \E s \in Requests : req[s].step = "mark" /\ req[s].cust = c)
  <2>1. PICK row : row = [sender |-> "STAFF", read |-> FALSE, shown |-> FALSE, 
                             late |-> \E s \in Requests : req[s].step = "mark" /\ req[s].cust = c]
    OBVIOUS
  <2>2. PICK m \in NewId(messages) :
          messages' = [messages EXCEPT ![m] = row] /\ thread' = [thread EXCEPT ![c] = Append(@, m)]
    BY <1>3, <2>1 DEF Write
  <2>3. m \in Messages /\ messages[m] = None
    BY NewIdIsFree DEF IInv, TypeOK
  <2>4. /\ row \in Message /\ row.sender = "STAFF" /\ ~ row.read
        /\ row.late <=> \E s \in Requests : req[s].step = "mark" /\ req[s].cust = c
    BY <2>1 DEF Message
  <2>5. thread' = [thread EXCEPT ![c] = Append(thread[c], m)]
    BY <2>2
  <2>6. Reply(r) /\ UNCHANGED people /\ unread' = [unread EXCEPT ![c] = 0]
    BY <1>3 DEF Send
  <2>7. /\ thread' \in [Customers -> Seq(Messages)]
        /\ messages' \in [Messages -> Message \cup {None, Gone}]
        /\ Threaded' /\ ReadWasShown'
        /\ \A d \in Customers : d # c => Unopened(d, "CUSTOMER")' = Unopened(d, "CUSTOMER")
        /\ Unopened(c, "CUSTOMER")' =
             Unopened(c, "CUSTOMER") \cup (IF row.sender = "CUSTOMER" THEN {m} ELSE {})
        /\ \A s \in Requests : req'[s] = req[s] => Own(req[s])' /\ Displayed(req[s])'
    BY <1>1, <2>2, <2>3, <2>4, <2>5, MessageWritten
  <2>8. /\ unread' \in [Customers -> Nat \cup {None}]
        /\ \A d \in Customers : unread'[d] = IF d = c THEN 0 ELSE unread[d]
    BY <1>1, <2>6 DEF IInv, TypeOK
  <2>9. Counted'
    <3>1. Cardinality(Unopened(c, "CUSTOMER")) \in Nat
      BY <1>1, FiniteUnopened
    <3> QED
      BY <2>4, <2>7, <2>8, <3>1 DEF IInv, Counted
  <2>10. \A d \in Customers : unread'[d] # None => Exists(d)
    BY <1>1, <1>3, <2>8 DEF IInv, TypeOK
  <2> QED
    BY <2>6, <2>7, <2>8, <2>9, <2>10, ChatAnswered
<1> QED
  BY <1>0, <1>2, <1>3 DEF Send

\* Messages that are marked: what else is known of them stays.
LEMMA MessagesMarked ==
  ASSUME Assumptions, IInv, UNCHANGED thread,
         messages' \in [Messages -> Message \cup {None, Gone}],
         \A m \in Messages :
           \/ messages'[m] = messages[m]
           \/ /\ messages[m] \in Message /\ messages'[m] \in Message
              /\ messages'[m].sender = messages[m].sender
              /\ messages'[m].late = messages[m].late
              /\ messages[m].shown => messages'[m].shown
  PROVE  /\ Threaded'
         /\ \A s \in Requests : req'[s] = req[s] => Own(req[s])' /\ Displayed(req[s])'
<1>1. ASSUME NEW c \in Customers, NEW i \in DOMAIN thread[c]
      PROVE  /\ thread[c][i] \in Messages /\ messages[thread[c][i]] \in Message
             /\ messages'[thread[c][i]] \in Message
             /\ messages'[thread[c][i]].sender = messages[thread[c][i]].sender
             /\ messages'[thread[c][i]].late = messages[thread[c][i]].late
             /\ messages[thread[c][i]].shown => messages'[thread[c][i]].shown
  <2>1. thread[c][i] \in Messages /\ messages[thread[c][i]] \in Message
    BY InThread DEF ToSet
  <2> QED
    BY <2>1
<1>2. Threaded'
  BY <1>1 DEF IInv, Threaded
<1>3. ASSUME NEW s \in Requests, req'[s] = req[s]
      PROVE  Own(req[s])'
  <2>1. Own(req[s]) /\ req[s].seen \subseteq Messages
    BY DEF IInv, Requested, TypeOK, Request
  <2> QED
    BY <1>3, <2>1, Rows DEF Own
<1>4. ASSUME NEW s \in Requests, req'[s] = req[s]
      PROVE  Displayed(req[s])'
  <2>1. Displayed(req[s]) /\ (req[s].step = "mark" => req[s].cust \in Customers)
    BY DEF IInv, Requested, Named
  <2> QED
    BY <1>1, <1>4, <2>1 DEF Displayed
<1> QED
  BY <1>2, <1>3, <1>4

\* Messages marked as read.
LEMMA Opened ==
  ASSUME Assumptions, IInv, NEW S \in SUBSET Messages, \A m \in S : messages[m] # None, Open(S)
  PROVE  /\ messages' \in [Messages -> Message \cup {None, Gone}]
         /\ \A m \in Messages \ S : messages'[m] = messages[m]
         /\ \A m \in Messages :
              \/ messages'[m] = messages[m]
              \/ /\ messages[m] \in Message /\ messages'[m] \in Message
                 /\ messages'[m].sender = messages[m].sender
                 /\ messages'[m].late = messages[m].late
                 /\ messages[m].shown => messages'[m].shown
<1>1. ASSUME NEW m \in Messages
      PROVE  /\ messages[m] \in Message \cup {None, Gone}
             /\ messages'[m] = IF m \in S /\ messages[m] # Gone
                               THEN [messages[m] EXCEPT !.read = TRUE] ELSE messages[m]
  BY DEF Open, IInv, TypeOK
<1>2. ASSUME NEW row \in Message
      PROVE  /\ [row EXCEPT !.read = TRUE] \in Message
             /\ [row EXCEPT !.read = TRUE].sender = row.sender
             /\ [row EXCEPT !.read = TRUE].late = row.late
             /\ [row EXCEPT !.read = TRUE].shown = row.shown
  BY DEF Message
<1>3. ASSUME NEW m \in Messages
      PROVE  \/ messages'[m] = messages[m]
             \/ /\ m \in S /\ messages[m] \in Message /\ messages'[m] \in Message
                /\ messages'[m].sender = messages[m].sender
                /\ messages'[m].late = messages[m].late
                /\ messages[m].shown => messages'[m].shown
  BY <1>1, <1>2
<1>4. messages' = [m \in Messages |-> messages'[m]]
  BY DEF Open
<1>5. \A m \in Messages : messages'[m] \in Message \cup {None, Gone}
  BY <1>1, <1>3
<1> QED
  BY <1>3, <1>4, <1>5

LEMMA ReadCommits ==
  ASSUME Assumptions, IInv, NEW r \in Requests, CommitRead(r)
  PROVE  IInv'
<1>0. PICK c, S : c = req[r].cust /\ S = req[r].seen
  OBVIOUS
<1>1. /\ c \in Customers /\ S \in SUBSET Messages
      /\ \A m \in S : messages[m] # None
      /\ \A m \in S : messages[m] # Gone => messages[m].sender = "CUSTOMER"
      /\ \A m \in S : \A d \in Customers : m \in ToSet(thread[d]) => d = c
  BY <1>0 DEF CommitRead, IInv, Requested, Named, Own, TypeOK, Request
<1>2. CASE unread[c] = None /\ UNCHANGED <<unread, messages>>
  BY <1>2, Answered DEF CommitRead, people, chat
<1>3. CASE unread[c] # None /\ Open(S) /\ unread' = [unread EXCEPT ![c] = 0]
  <2>1. Reply(r) /\ UNCHANGED people /\ UNCHANGED thread
    BY DEF CommitRead, people
  <2>2. /\ messages' \in [Messages -> Message \cup {None, Gone}]
        /\ \A m \in Messages \ S : messages'[m] = messages[m]
        /\ \A m \in Messages :
             \/ messages'[m] = messages[m]
             \/ /\ messages[m] \in Message /\ messages'[m] \in Message
                /\ messages'[m].sender = messages[m].sender
                /\ messages'[m].late = messages[m].late
                /\ messages[m].shown => messages'[m].shown
    BY <1>1, <1>3, Opened
  <2>3. Threaded' /\ \A s \in Requests : req'[s] = req[s] => Own(req[s])' /\ Displayed(req[s])'
    BY <2>1, <2>2, MessagesMarked
  <2>4. /\ unread' \in [Customers -> Nat \cup {None}]
        /\ \A d \in Customers : unread'[d] = IF d = c THEN 0 ELSE unread[d]
    BY <1>1, <1>3 DEF IInv, TypeOK
  <2>5. Counted'
    <3> SUFFICES ASSUME NEW d \in Customers, unread'[d] # None
                 PROVE  unread'[d] <= Cardinality(Unopened(d, "CUSTOMER")')
      BY DEF Counted
    <3>1. CASE d = c
      <4>1. Unopened(c, "CUSTOMER")' \subseteq ToSet(thread[c])
        BY <2>1 DEF Unopened
      <4>2. Cardinality(Unopened(c, "CUSTOMER")') \in Nat
        BY <1>1, <4>1, FiniteThread, FS_Subset, FS_CardinalityType DEF IInv, TypeOK
      <4> QED
        BY <2>4, <3>1, <4>2
    <3>2. CASE d # c
      <4>1. \A m \in ToSet(thread[d]) : m \in Messages \ S
        BY <1>1, <3>2, InThread
      <4>2. Unopened(d, "CUSTOMER")' = Unopened(d, "CUSTOMER")
        BY <2>1, <2>2, <4>1 DEF Unopened
      <4> QED
        BY <2>4, <3>2, <4>2 DEF IInv, Counted
    <3> QED
      BY <3>1, <3>2
  <2>6. ReadWasShown'
    <3> SUFFICES ASSUME NEW d \in Customers, NEW i \in DOMAIN thread[d],
                        messages'[thread[d][i]].sender = "STAFF", messages'[thread[d][i]].read
                 PROVE  \/ messages'[thread[d][i]].shown \/ messages'[thread[d][i]].late
                        \/ i > ThreadLimit
      BY <2>1 DEF ReadWasShown
    <3>1. thread[d][i] \in Messages /\ messages[thread[d][i]] \in Message
      BY InThread DEF ToSet
    <3>2. messages[thread[d][i]].sender = "STAFF"
      BY <2>2, <3>1
    <3>3. thread[d][i] \notin S
      BY <1>1, <3>1, <3>2, Rows
    <3>4. messages'[thread[d][i]] = messages[thread[d][i]]
      BY <2>2, <3>1, <3>3
    <3> QED
      BY <3>4 DEF IInv, ReadWasShown
  <2>7. \A d \in Customers : unread'[d] # None => Exists(d)
    BY <1>3, <2>4 DEF IInv, TypeOK
  <2>8. thread' \in [Customers -> Seq(Messages)]
    BY <2>1 DEF IInv, TypeOK
  <2> QED
    BY <2>1, <2>2, <2>3, <2>4, <2>5, <2>6, <2>7, <2>8, ChatAnswered
<1> QED
  BY <1>0, <1>2, <1>3 DEF CommitRead

\* The thread a customer opens is marked after it was shown: what was written
\* in between is late, and what was cut lies beyond the limit.
LEMMA ThreadMarks ==
  ASSUME Assumptions, IInv, NEW r \in Requests, MarkThread(r)
  PROVE  IInv'
<1>1. PICK c : c = req[r].cust
  OBVIOUS
<1> DEFINE S == Unopened(c, "STAFF")
<1>2. /\ c \in Customers /\ Displayed(req[r]) /\ req[r].step = "mark"
      /\ Open(S) /\ Reply(r) /\ UNCHANGED people /\ UNCHANGED unread /\ UNCHANGED thread
  BY <1>1 DEF MarkThread, IInv, Requested, Named, people
<1>3. /\ S \in SUBSET Messages
      /\ \A m \in S : /\ messages[m] \in Message /\ messages[m].sender = "STAFF"
                      /\ m \in ToSet(thread[c])
  BY <1>2, InThread DEF Unopened
<1> HIDE DEF S
<1>4. /\ messages' \in [Messages -> Message \cup {None, Gone}]
      /\ \A m \in Messages \ S : messages'[m] = messages[m]
      /\ \A m \in Messages :
           \/ messages'[m] = messages[m]
           \/ /\ messages[m] \in Message /\ messages'[m] \in Message
              /\ messages'[m].sender = messages[m].sender
              /\ messages'[m].late = messages[m].late
              /\ messages[m].shown => messages'[m].shown
  BY <1>2, <1>3, Opened, Rows
<1>5. Threaded' /\ \A s \in Requests : req'[s] = req[s] => Own(req[s])' /\ Displayed(req[s])'
  BY <1>2, <1>4, MessagesMarked
<1>6. Counted'
  <2> SUFFICES ASSUME NEW d \in Customers
               PROVE  Unopened(d, "CUSTOMER")' = Unopened(d, "CUSTOMER")
    BY <1>2 DEF IInv, Counted
  <2>1. \A m \in ToSet(thread[d]) : m \in Messages /\ messages[m] \in Message
    BY InThread
  <2>2. \A m \in ToSet(thread[d]) :
          messages[m].sender = "CUSTOMER" => messages'[m] = messages[m]
    BY <1>3, <1>4, <2>1
  <2>3. \A m \in ToSet(thread[d]) : messages'[m].sender = messages[m].sender
    BY <1>4, <2>1
  <2> QED
    BY <1>2, <2>2, <2>3 DEF Unopened
<1>7. ReadWasShown'
  <2> SUFFICES ASSUME NEW d \in Customers, NEW i \in DOMAIN thread[d],
                      messages'[thread[d][i]].sender = "STAFF", messages'[thread[d][i]].read
               PROVE  \/ messages'[thread[d][i]].shown \/ messages'[thread[d][i]].late
                      \/ i > ThreadLimit
    BY <1>2 DEF ReadWasShown
  <2>1. thread[d][i] \in Messages /\ messages[thread[d][i]] \in Message
    BY InThread DEF ToSet
  <2>2. CASE thread[d][i] \notin S
    <3>1. messages'[thread[d][i]] = messages[thread[d][i]]
      BY <1>4, <2>1, <2>2
    <3> QED
      BY <3>1 DEF IInv, ReadWasShown
  <2>3. CASE thread[d][i] \in S
    <3>1. d = c
      BY <1>2, <1>3, <2>3, OneConversation DEF ToSet
    <3>2. i <= ThreadLimit => messages[thread[d][i]].shown \/ messages[thread[d][i]].late
      BY <1>1, <1>2, <1>3, <2>3, <3>1 DEF Displayed
    <3>3. /\ messages[thread[d][i]].shown => messages'[thread[d][i]].shown
          /\ messages[thread[d][i]].late => messages'[thread[d][i]].late
      BY <1>4, <2>1
    <3>4. i \in Nat /\ ThreadLimit \in Nat
      BY <1>2 DEF IInv, TypeOK, Assumptions
    <3> QED
      BY <3>2, <3>3, <3>4
  <2> QED
    BY <2>2, <2>3
<1>8. /\ \A d \in Customers : unread'[d] # None => Exists(d)
      /\ unread' \in [Customers -> Nat \cup {None}] /\ thread' \in [Customers -> Seq(Messages)]
  BY <1>2 DEF IInv, TypeOK
<1> QED
  BY <1>2, <1>4, <1>5, <1>6, <1>7, <1>8, ChatAnswered

\* The conversation staff begin has no message that counts.
LEMMA ThreadStarts ==
  ASSUME Assumptions, IInv, NEW r \in Requests, StartThread(r)
  PROVE  IInv'
<1>0. PICK c : c = req[r].cust
  OBVIOUS
<1>1. req[r] \in Request /\ Requested(req[r]) /\ req[r].step = "thread" /\ c \in Customers
  BY <1>0 DEF StartThread, IInv, TypeOK, Requested, Named
<1>2. CASE Reply(r) /\ UNCHANGED unread
  BY <1>2, Answered DEF StartThread, chat
<1>3. CASE /\ Exists(c)
           /\ unread' = [unread EXCEPT ![c] = IF unread[c] = None THEN 0 ELSE unread[c]]
           /\ Advance(r, [req[r] EXCEPT !.step = "send"])
  <2>1. PICK q : q = [req[r] EXCEPT !.step = "send"]
    OBVIOUS
  <2>2. q \in Request /\ q.step = "send" /\ q.cust = c /\ req' = [req EXCEPT ![r] = q]
    BY <1>0, <1>1, <1>3, <2>1 DEF Request, Advance
  <2>3. Named(q) /\ Informed(q) /\ Own(q)' /\ Displayed(q)'
    BY <1>1, <2>2 DEF Named, Informed, Own, Displayed
  <2>4. /\ unread' \in [Customers -> Nat \cup {None}]
        /\ \A d \in Customers : unread'[d] \in {unread[d], 0} /\ (d # c => unread'[d] = unread[d])
    BY <1>1, <1>3 DEF IInv, TypeOK
  <2>5. UNCHANGED people /\ UNCHANGED thread /\ UNCHANGED messages
    BY DEF StartThread, people
  <2>6. \A d \in Customers : unread'[d] # None => Exists(d)
    BY <1>3, <2>4 DEF IInv, TypeOK
  <2>7. \A m \in Messages : messages'[m] = messages[m]
    BY <2>5
  <2>8. Threaded' /\ \A s \in Requests : req'[s] = req[s] => Own(req[s])' /\ Displayed(req[s])'
    BY <2>5, <2>7, MessagesMarked DEF IInv, TypeOK
  <2>9. ReadWasShown'
    BY <2>5 DEF IInv, ReadWasShown
  <2>10. Counted'
    <3> SUFFICES ASSUME NEW d \in Customers, unread'[d] # None
                 PROVE  unread'[d] <= Cardinality(Unopened(d, "CUSTOMER")')
      BY DEF Counted
    <3>1. Unopened(d, "CUSTOMER")' = Unopened(d, "CUSTOMER")
      BY <2>5 DEF Unopened
    <3>2. Cardinality(Unopened(d, "CUSTOMER")) \in Nat
      BY FiniteUnopened
    <3> QED
      BY <2>4, <3>1, <3>2 DEF IInv, Counted
  <2>11. /\ thread' \in [Customers -> Seq(Messages)]
         /\ messages' \in [Messages -> Message \cup {None, Gone}]
    BY <2>5 DEF IInv, TypeOK
  <2> QED
    BY <2>2, <2>3, <2>4, <2>5, <2>6, <2>8, <2>9, <2>10, <2>11, ChatWritten
<1> QED
  BY <1>0, <1>2, <1>3 DEF StartThread

\* What the page of the thread receives counts as shown.
LEMMA ThreadListed ==
  ASSUME Assumptions, IInv, NEW r \in Requests, ListThread(r)
  PROVE  IInv'
<1>1. PICK c \in Met :
        /\ Begin(r, "chat", [Idle EXCEPT !.step = "mark", !.cust = c])
        /\ messages' = [m \in Messages |->
             IF \E i \in DOMAIN thread[c] : i <= ThreadLimit /\ thread[c][i] = m
               THEN [messages[m] EXCEPT !.shown = TRUE] ELSE messages[m]]
  BY DEF ListThread
<1>2. c \in Customers
  BY <1>1 DEF Met, IInv, TypeOK
<1>3. PICK q : q = [Idle EXCEPT !.step = "mark", !.cust = c]
  OBVIOUS
<1>4. q \in Request /\ q.step = "mark" /\ q.cust = c /\ req' = [req EXCEPT ![r] = q]
  BY <1>1, <1>2, <1>3 DEF Idle, Request, Begin
<1>5. UNCHANGED people /\ UNCHANGED unread /\ UNCHANGED thread
  BY DEF ListThread, people
<1> DEFINE Shows(m) == \E i \in DOMAIN thread[c] : i <= ThreadLimit /\ thread[c][i] = m
<1>6. ASSUME NEW row \in Message
      PROVE  /\ [row EXCEPT !.shown = TRUE] \in Message
             /\ [row EXCEPT !.shown = TRUE].shown
             /\ [row EXCEPT !.shown = TRUE].sender = row.sender
             /\ [row EXCEPT !.shown = TRUE].late = row.late
             /\ [row EXCEPT !.shown = TRUE].read = row.read
  BY DEF Message
<1>7. ASSUME NEW m \in Messages, Shows(m)
      PROVE  messages[m] \in Message
  BY <1>2, <1>7, InThread DEF ToSet
<1>8. ASSUME NEW m \in Messages
      PROVE  messages'[m] = IF Shows(m) THEN [messages[m] EXCEPT !.shown = TRUE] ELSE messages[m]
  BY <1>1
<1>9. ASSUME NEW m \in Messages
      PROVE  /\ \/ messages'[m] = messages[m]
                \/ /\ messages[m] \in Message /\ messages'[m] \in Message
                   /\ messages'[m].sender = messages[m].sender
                   /\ messages'[m].late = messages[m].late
                   /\ messages'[m].read = messages[m].read
                   /\ messages[m].shown => messages'[m].shown
             /\ Shows(m) => messages'[m].shown
  <2> HIDE DEF Shows
  <2> QED
    BY <1>6, <1>7, <1>8
<1>10. messages' \in [Messages -> Message \cup {None, Gone}]
  <2>1. messages' = [m \in Messages |-> messages'[m]]
    BY <1>1
  <2>2. \A m \in Messages : messages[m] \in Message \cup {None, Gone}
    BY DEF IInv, TypeOK
  <2>3. \A m \in Messages : messages'[m] \in Message \cup {None, Gone}
    BY <1>9, <2>2
  <2> QED
    BY <2>1, <2>3
<1>11. Threaded' /\ \A s \in Requests : req'[s] = req[s] => Own(req[s])' /\ Displayed(req[s])'
  BY <1>5, <1>9, <1>10, MessagesMarked
<1>12. Named(q) /\ Informed(q) /\ Own(q)'
  BY <1>1, <1>2, <1>4 DEF Named, Informed, Own
<1>13. Displayed(q)'
  <2> SUFFICES ASSUME NEW i \in DOMAIN thread[c], i <= ThreadLimit
               PROVE  messages'[thread[c][i]].shown
    BY <1>4, <1>5 DEF Displayed
  <2>1. Shows(thread[c][i]) /\ thread[c][i] \in Messages
    BY <1>2, InThread DEF ToSet
  <2> QED
    BY <1>9, <2>1
<1>14. ReadWasShown'
  <2> SUFFICES ASSUME NEW d \in Customers, NEW i \in DOMAIN thread[d],
                      messages'[thread[d][i]].sender = "STAFF", messages'[thread[d][i]].read
               PROVE  \/ messages'[thread[d][i]].shown \/ messages'[thread[d][i]].late
                      \/ i > ThreadLimit
    BY <1>5 DEF ReadWasShown
  <2>1. thread[d][i] \in Messages /\ messages[thread[d][i]] \in Message
    BY InThread DEF ToSet
  <2> QED
    BY <1>9, <2>1 DEF IInv, ReadWasShown
<1>15. Counted'
  <2> SUFFICES ASSUME NEW d \in Customers
               PROVE  Unopened(d, "CUSTOMER")' = Unopened(d, "CUSTOMER")
    BY <1>5 DEF IInv, Counted
  <2>1. \A m \in ToSet(thread[d]) : m \in Messages /\ messages[m] \in Message
    BY InThread
  <2>2. \A m \in ToSet(thread[d]) :
          messages'[m].sender = messages[m].sender /\ messages'[m].read = messages[m].read
    BY <1>9, <2>1
  <2> QED
    BY <1>5, <2>2 DEF Unopened
<1>16. /\ \A d \in Customers : unread'[d] # None => Exists(d)
       /\ unread' \in [Customers -> Nat \cup {None}] /\ thread' \in [Customers -> Seq(Messages)]
  BY <1>5 DEF IInv, TypeOK
<1> QED
  BY <1>4, <1>5, <1>10, <1>11, <1>12, <1>13, <1>14, <1>15, <1>16, ChatWritten

-----------------------------------------------------------------------------
(* The invariant.                                                          *)

LEMMA InitIInv ==
  ASSUME Assumptions, Init
  PROVE  IInv
<1>1. DOMAIN <<>> = {} /\ <<>> \in Seq(Messages)
  OBVIOUS
<1>2. \A c \in Customers : thread[c] = <<>> /\ unread[c] = None
  BY DEF Init
<1>3. \A r \in Requests : req[r] = Idle
  BY DEF Init
<1>4. TypeOK
  BY <1>1, IdleTyped DEF Init, TypeOK
<1>5. VisitsKept
  BY DEF Init, VisitsKept
<1>6. Threaded /\ ReadWasShown
  BY <1>1, <1>2 DEF Threaded, ReadWasShown
<1>7. Counted
  BY <1>2 DEF Counted
<1>8. \A r \in Requests : Requested(req[r])
  BY <1>3, IdleTyped DEF Requested, Named, Informed, Own, Displayed
<1> QED
  BY <1>4, <1>5, <1>6, <1>7, <1>8 DEF IInv

LEMMA NextIInv ==
  ASSUME Assumptions, IInv, [Next]_vars
  PROVE  IInv'
<1>1. CASE UNCHANGED vars
  <2>1. UNCHANGED <<customers, visits, unread, thread, messages, req>>
    BY <1>1 DEF vars
  <2>2. TypeOK' /\ VisitsKept' /\ Threaded' /\ ReadWasShown'
    BY <2>1 DEF IInv, TypeOK, VisitsKept, Threaded, ReadWasShown, Exists
  <2>3. Counted'
    BY <2>1 DEF IInv, Counted, Unopened
  <2>4. ASSUME NEW r \in Requests
        PROVE  Requested(req[r])'
    BY <2>1 DEF IInv, Requested, Named, Informed, Own, Displayed, Met, Exists
  <2> QED
    BY <2>2, <2>3, <2>4 DEF IInv
<1>2. CASE Next
  <2>1. PICK r \in Requests :
          \/ ReadContact(r) \/ CommitBooking(r)
          \/ ReadPhone(r) \/ CommitCreate(r) \/ ReadForEdit(r) \/ CommitEdit(r)
          \/ CountVisits(r) \/ Delete(r)
          \/ BeginReceive(r) \/ Receive(r)
          \/ BeginSend(r) \/ BeginThread(r) \/ StartThread(r) \/ Send(r)
          \/ MarkRead(r) \/ CommitRead(r) \/ ListThread(r) \/ MarkThread(r)
    BY <1>2 DEF Next
  <2> QED
    BY <2>1, ContactReads, BookingCommits, PhoneReads, CreateCommits, EditReads, EditCommits,
       CustomerReads, DeleteCommits, ReceiveCommits, ThreadStarts, SendCommits, ReadMarks,
       ReadCommits, ThreadListed, ThreadMarks
<1> QED
  BY <1>1, <1>2

THEOREM Invariance ==
  ASSUME Assumptions
  PROVE  Spec => []IInv
BY InitIInv, NextIInv, PTL DEF Spec

\* Tables and requests keep their shape, and no conversation outlives its
\* customer.
THEOREM TypeCorrect ==
  ASSUME Assumptions
  PROVE  Spec => []TypeOK
<1>1. IInv => TypeOK
  BY DEF IInv
<1> QED
  BY <1>1, Invariance, PTL

\* What staff wrote is read only if the customer was shown it, or could not have
\* been.
THEOREM ReadOnlyWhatWasShown ==
  ASSUME Assumptions
  PROVE  Spec => []ReadWasShown
<1>1. IInv => ReadWasShown
  BY DEF IInv
<1> QED
  BY <1>1, Invariance, PTL

\* The step that answers a booking is its commit.
LEMMA OnlyTheCommitAnswers ==
  ASSUME IInv, Next, NEW r \in Requests, req[r].step = "book", req'[r] = Idle
  PROVE  CommitBooking(r)
<1>1. PICK s \in Requests :
        \/ ReadContact(s) \/ CommitBooking(s)
        \/ ReadPhone(s) \/ CommitCreate(s) \/ ReadForEdit(s) \/ CommitEdit(s)
        \/ CountVisits(s) \/ Delete(s)
        \/ BeginReceive(s) \/ Receive(s)
        \/ BeginSend(s) \/ BeginThread(s) \/ StartThread(s) \/ Send(s)
        \/ MarkRead(s) \/ CommitRead(s) \/ ListThread(s) \/ MarkThread(s)
  BY DEF Next
<1>2. req \in [Requests -> Request] /\ req[r] # Idle /\ Idle.step = "idle"
  BY IdleTyped DEF IInv, TypeOK
<1>3. ASSUME NEW fields, req' = [req EXCEPT ![s] = fields]
      PROVE  s = r
  BY <1>2, <1>3
<1>4. ASSUME NEW c, Overtake(s, c)
      PROVE  s = r
  <2>1. [req[r] EXCEPT !.behind = TRUE].step = "book"
    BY <1>2 DEF Request
  <2> QED
    BY <1>2, <1>4, <2>1 DEF Overtake
<1>5. s = r
  <2>1. CASE \/ ReadContact(s) \/ ReadPhone(s) \/ ReadForEdit(s) \/ CountVisits(s)
             \/ BeginReceive(s) \/ BeginSend(s) \/ BeginThread(s) \/ MarkRead(s) \/ ListThread(s)
    BY <1>3, <2>1 DEF ReadContact, ReadPhone, ReadForEdit, CountVisits, BeginReceive,
                      BeginSend, BeginThread, MarkRead, ListThread, Begin
  <2>2. CASE CommitBooking(s) \/ CommitEdit(s)
    BY <1>3, <1>4, <2>2 DEF CommitBooking, CommitEdit, Reply
  <2>3. CASE \/ CommitCreate(s) \/ Delete(s) \/ Receive(s) \/ StartThread(s) \/ Send(s)
             \/ CommitRead(s) \/ MarkThread(s)
    BY <1>3, <2>3 DEF CommitCreate, Delete, Receive, StartThread, Send, CommitRead,
                      MarkThread, Reply, Advance
  <2> QED
    BY <1>1, <2>1, <2>2, <2>3
<1>6. ~ IsIdle(r)
  BY <1>2 DEF IsIdle
<1> QED
  BY <1>1, <1>5, <1>6 DEF ReadContact, ReadPhone, ReadForEdit, CountVisits, BeginReceive,
       BeginSend, BeginThread, MarkRead, ListThread, Begin, CommitCreate, CommitEdit, Delete,
       Receive, StartThread, Send, CommitRead, MarkThread

\* A booking that nobody overtook leaves the address the business had.
THEOREM NoAddressIsLost ==
  ASSUME Assumptions
  PROVE  Spec => AddressKept
<1> DEFINE Kept == \A r \in Requests :
             LET c == req[r].cust IN
             /\ req[r].step = "book" /\ req'[r] = Idle
             /\ c # None /\ Exists(c) /\ customers[c].email # None
             => req[r].behind \/ customers'[c].email = customers[c].email
<1>1. IInv /\ [Next]_vars => [Kept]_vars
  <2> SUFFICES ASSUME IInv, Next, NEW r \in Requests, req[r].step = "book", req'[r] = Idle,
                      req[r].cust # None, Exists(req[r].cust),
                      customers[req[r].cust].email # None, ~ req[r].behind
               PROVE  customers'[req[r].cust].email = customers[req[r].cust].email
    BY Zenon
  <2>1. CommitBooking(r)
    BY OnlyTheCommitAnswers
  <2>2. req[r].cust \in Customers /\ req[r].email = None
    BY DEF IInv, Requested, Informed
  <2>3. customers \in [Customers -> Customer \cup {None, Gone}]
    BY DEF IInv, TypeOK
  <2>4. \/ customers' = [customers EXCEPT ![req[r].cust] = customers[req[r].cust]]
        \/ customers' = customers
    BY <2>1, <2>2 DEF CommitBooking, Completed, people
  <2> QED
    BY <2>2, <2>3, <2>4
<1>2. Spec => [][Kept]_vars
  BY <1>1, Invariance, PTL DEF Spec
<1> QED
  BY <1>2 DEF AddressKept

-----------------------------------------------------------------------------
(* Sums over finite sets, which the library writes as recursive functions on *)
(* the subsets.  What holds of them is found by induction, as the smallest   *)
(* set that would contradict it.                                             *)

Picked(s) == CHOOSE x \in s : TRUE

\* g is the sum of v over each subset of s, an element at a time.
Adds(v, s, g) ==
  g = [t \in SUBSET s |->
         IF t = {} THEN 0 ELSE v[Picked(t)] + g[t \ {Picked(t)}]]

Total(v, s) == (CHOOSE g : Adds(v, s, g))[s]

\* A finite set has a least of some of its subsets.
LEMMA Smallest ==
  ASSUME NEW S, IsFiniteSet(S), NEW B, B \subseteq SUBSET S, B # {}
  PROVE  \E t \in B : \A u \in SUBSET t : u # t => u \notin B
<1>1. IsWellFoundedOn(StrictSubsetOrdering(S), FiniteSubsetsOf(S)) /\ FiniteSubsetsOf(S) = SUBSET S
  BY FS_StrictSubsetOrderingWellFounded, FS_FiniteSubsetsOfFinite
<1>2. PICK t \in B : \A u \in B : ~ <<u, t>> \in StrictSubsetOrdering(S)
  BY <1>1, WFMin
<1>3. ASSUME NEW u \in SUBSET t, u # t, u \in B
      PROVE  FALSE
  BY <1>2, <1>3 DEF StrictSubsetOrdering
<1> QED
  BY <1>3

\* What is picked can be taken out.
LEMMA PickedIsIn ==
  ASSUME NEW t, t # {}
  PROVE  Picked(t) \in t /\ t \ {Picked(t)} \in SUBSET t /\ t \ {Picked(t)} # t
BY DEF Picked

\* Two functions that add up the same agree where both are defined.
LEMMA AddsAlike ==
  ASSUME NEW v, NEW S, IsFiniteSet(S), NEW a \in SUBSET S, NEW b \in SUBSET S,
         NEW g, NEW h, Adds(v, a, g), Adds(v, b, h)
  PROVE  \A t \in SUBSET (a \cap b) : g[t] = h[t]
<1> SUFFICES ASSUME {t \in SUBSET (a \cap b) : g[t] # h[t]} # {}
             PROVE  FALSE
  OBVIOUS
<1> DEFINE B == {t \in SUBSET (a \cap b) : g[t] # h[t]}
<1>0. B \subseteq SUBSET S /\ B # {}
  OBVIOUS
<1>1. PICK t \in B : \A u \in SUBSET t : u # t => u \notin B
  <2> HIDE DEF B
  <2> QED
    BY <1>0, Smallest
<1>2. t \in SUBSET a /\ t \in SUBSET b /\ g[t] # h[t]
  BY <1>1
<1>3. /\ g[t] = IF t = {} THEN 0 ELSE v[Picked(t)] + g[t \ {Picked(t)}]
      /\ h[t] = IF t = {} THEN 0 ELSE v[Picked(t)] + h[t \ {Picked(t)}]
  BY <1>2 DEF Adds
<1>4. t # {} => g[t \ {Picked(t)}] = h[t \ {Picked(t)}]
  BY <1>1, PickedIsIn
<1> QED
  BY <1>2, <1>3, <1>4

\* There is one for every finite set.
LEMMA TotalExists ==
  ASSUME NEW v, NEW S, IsFiniteSet(S)
  PROVE  \E g : Adds(v, S, g)
<1> SUFFICES ASSUME {s \in SUBSET S : ~ \E g : Adds(v, s, g)} # {}
             PROVE  FALSE
  OBVIOUS
<1> DEFINE B == {s \in SUBSET S : ~ \E g : Adds(v, s, g)}
<1>0. B \subseteq SUBSET S /\ B # {}
  OBVIOUS
<1>1. PICK s \in B : \A u \in SUBSET s : u # s => u \notin B
  <2> HIDE DEF B
  <2> QED
    BY <1>0, Smallest
<1> DEFINE G(t) == CHOOSE g : Adds(v, t, g)
           sum == [t \in SUBSET s |->
             IF t = {} THEN 0
             ELSE v[Picked(t)] + G(t \ {Picked(t)})[t \ {Picked(t)}]]
<1>2. ASSUME NEW t \in SUBSET s, t # s
      PROVE  Adds(v, t, G(t))
  <2>1. t \notin B /\ t \in SUBSET S
    BY <1>1, <1>2
  <2> QED
    BY <2>1
<1>3. ASSUME NEW t \in SUBSET s, t # s
      PROVE  sum[t] = G(t)[t]
  <2>1. Adds(v, t, G(t))
    BY <1>2, <1>3
  <2> HIDE DEF G
  <2>2. G(t)[t] = IF t = {} THEN 0 ELSE v[Picked(t)] + G(t)[t \ {Picked(t)}]
    BY <2>1 DEF Adds
  <2>3. CASE t # {}
    <3>0. PICK u : u = t \ {Picked(t)}
      OBVIOUS
    <3>1. u \in SUBSET t /\ u \in SUBSET s /\ u # s
      BY <1>3, <2>3, <3>0, PickedIsIn
    <3>2. Adds(v, u, G(u))
      BY <1>2, <3>1
    <3>3. u \in SUBSET S /\ t \in SUBSET S
      BY <1>1, <3>1
    <3>4. u \in SUBSET (t \cap u)
      BY <3>1
    <3>5. PICK gt, gu : gt = G(t) /\ gu = G(u)
      OBVIOUS
    <3>6. Adds(v, t, gt) /\ Adds(v, u, gu)
      BY <2>1, <3>2, <3>5
    <3>7. \A s1 \in SUBSET (t \cap u) : gt[s1] = gu[s1]
      <4> HIDE DEF B, sum
      <4> QED
        BY <3>3, <3>6, AddsAlike
    <3>8. G(t)[u] = G(u)[u]
      BY <3>4, <3>5, <3>7
    <3> QED
      BY <2>2, <2>3, <3>0, <3>8
  <2> QED
    BY <2>2, <2>3
<1>4. ASSUME NEW t \in SUBSET s
      PROVE  sum[t] = IF t = {} THEN 0 ELSE v[Picked(t)] + sum[t \ {Picked(t)}]
  <2>1. CASE t # {}
    <3>1. t \ {Picked(t)} \in SUBSET s /\ t \ {Picked(t)} # s
      BY <2>1, PickedIsIn
    <3>2. sum[t \ {Picked(t)}] = G(t \ {Picked(t)})[t \ {Picked(t)}]
      BY <1>3, <3>1
    <3> QED
      BY <2>1, <3>2
  <2> QED
    BY <2>1
<1>5. Adds(v, s, sum)
  <2> HIDE DEF G
  <2>1. sum = [t \in SUBSET s |-> sum[t]]
    OBVIOUS
  <2> QED
    BY <1>4, <2>1 DEF Adds
<1> QED
  BY <1>1, <1>5


\* The sum over the whole is what was picked first and the sum of the rest.
LEMMA TotalStep ==
  ASSUME NEW v, NEW S, IsFiniteSet(S)
  PROVE  /\ S = {} => Total(v, S) = 0
         /\ S # {} => Total(v, S) = v[Picked(S)] + Total(v, S \ {Picked(S)})
<1>1. PICK g : Adds(v, S, g) /\ Total(v, S) = g[S]
  BY TotalExists DEF Total
<1>2. g[S] = IF S = {} THEN 0 ELSE v[Picked(S)] + g[S \ {Picked(S)}]
  BY <1>1 DEF Adds
<1>3. CASE S = {}
  BY <1>1, <1>2, <1>3
<1>4. CASE S # {}
  <2>1. PICK u : u = S \ {Picked(S)} /\ u \in SUBSET S
    BY <1>4, PickedIsIn
  <2>2. IsFiniteSet(u)
    BY <2>1, FS_Subset
  <2>3. PICK h : Adds(v, u, h) /\ Total(v, u) = h[u]
    BY <2>2, TotalExists DEF Total
  <2>4. \A t \in SUBSET (S \cap u) : g[t] = h[t]
    BY <1>1, <2>1, <2>3, AddsAlike
  <2>5. u \in SUBSET (S \cap u)
    BY <2>1
  <2>6. g[u] = Total(v, u)
    BY <2>3, <2>4, <2>5
  <2> QED
    BY <1>1, <1>2, <1>4, <2>1, <2>6
<1> QED
  BY <1>3, <1>4

\* Numbers add up to a number.
LEMMA TotalIsInt ==
  ASSUME NEW S, IsFiniteSet(S), NEW v, \A x \in S : v[x] \in Int
  PROVE  Total(v, S) \in Int
<1> DEFINE B == {t \in SUBSET S : Total(v, t) \notin Int}
<1>1. ASSUME B # {}
      PROVE  FALSE
  <2>0. B \subseteq SUBSET S
    OBVIOUS
  <2>1. PICK t \in B : \A u \in SUBSET t : u # t => u \notin B
    <3> HIDE DEF B
    <3> QED
      BY <1>1, <2>0, Smallest
  <2>2. t \in SUBSET S /\ Total(v, t) \notin Int /\ IsFiniteSet(t)
    BY <2>1, FS_Subset
  <2>3. CASE t # {}
    <3>1. PICK c, u : c = Picked(t) /\ u = t \ {Picked(t)}
      OBVIOUS
    <3>2. c \in t /\ u \in SUBSET t /\ u # t
      BY <2>3, <3>1, PickedIsIn
    <3>3. Total(v, u) \in Int
      BY <2>1, <2>2, <3>2
    <3>4. Total(v, t) = v[c] + Total(v, u)
      BY <2>2, <2>3, <3>1, TotalStep
    <3>5. v[c] \in Int
      BY <2>2, <3>2
    <3> QED
      BY <2>2, <3>3, <3>4, <3>5
  <2>4. CASE t = {}
    BY <2>2, <2>4, TotalStep
  <2> QED
    BY <2>3, <2>4
<1> QED
  BY <1>1

\* What agrees on a set has the same sum over it.
LEMMA TotalAlike ==
  ASSUME NEW S, IsFiniteSet(S), NEW v, NEW w, \A x \in S : v[x] = w[x]
  PROVE  Total(v, S) = Total(w, S)
<1> DEFINE B == {t \in SUBSET S : Total(v, t) # Total(w, t)}
<1>1. ASSUME B # {}
      PROVE  FALSE
  <2>0. B \subseteq SUBSET S
    OBVIOUS
  <2>1. PICK t \in B : \A u \in SUBSET t : u # t => u \notin B
    <3> HIDE DEF B
    <3> QED
      BY <1>1, <2>0, Smallest
  <2>2. t \in SUBSET S /\ Total(v, t) # Total(w, t) /\ IsFiniteSet(t)
    BY <2>1, FS_Subset
  <2>3. CASE t # {}
    <3>1. PICK c, u : c = Picked(t) /\ u = t \ {Picked(t)}
      OBVIOUS
    <3>2. c \in t /\ u \in SUBSET t /\ u # t
      BY <2>3, <3>1, PickedIsIn
    <3>3. Total(v, u) = Total(w, u)
      BY <2>1, <2>2, <3>2
    <3>4. /\ Total(v, t) = v[c] + Total(v, u)
          /\ Total(w, t) = w[c] + Total(w, u)
      BY <2>2, <2>3, <3>1, TotalStep
    <3>5. v[c] = w[c]
      BY <2>2, <3>2
    <3> QED
      BY <2>2, <3>3, <3>4, <3>5
  <2>4. CASE t = {}
    BY <2>2, <2>4, TotalStep
  <2> QED
    BY <2>3, <2>4
<1> QED
  BY <1>1

\* Any element may be taken out first.
LEMMA TotalWithout ==
  ASSUME NEW S, IsFiniteSet(S), NEW v, \A x \in S : v[x] \in Int, NEW x \in S
  PROVE  Total(v, S) = v[x] + Total(v, S \ {x})
<1> DEFINE B == {t \in SUBSET S : \E y \in t : Total(v, t) # v[y] + Total(v, t \ {y})}
<1>1. ASSUME B # {}
      PROVE  FALSE
  <2>0. B \subseteq SUBSET S
    OBVIOUS
  <2>1. PICK t \in B : \A u \in SUBSET t : u # t => u \notin B
    <3> HIDE DEF B
    <3> QED
      BY <1>1, <2>0, Smallest
  <2>2. t \in SUBSET S /\ IsFiniteSet(t)
    BY <2>1, FS_Subset
  <2>3. PICK y \in t : Total(v, t) # v[y] + Total(v, t \ {y})
    BY <2>1
  <2>4. PICK c, u : c = Picked(t) /\ u = t \ {Picked(t)}
    OBVIOUS
  <2>5. c \in t /\ u \in SUBSET t /\ u # t /\ u = t \ {c}
    BY <2>3, <2>4, PickedIsIn
  <2>6. Total(v, t) = v[c] + Total(v, u)
    BY <2>2, <2>3, <2>4, TotalStep
  <2>7. PICK z : z = t \ {y}
    OBVIOUS
  <2>8. y # c
    <3>1. ASSUME y = c
          PROVE  z = u
      BY <2>5, <2>7, <3>1
    <3>2. Total(v, t) # v[y] + Total(v, z)
      BY <2>3, <2>7
    <3> QED
      BY <2>6, <3>1, <3>2
  <2>13. z \in SUBSET t /\ z # t /\ c \in z /\ y \in u
    BY <2>3, <2>5, <2>7, <2>8
  <2>9. u \notin B /\ z \notin B /\ u \in SUBSET S /\ z \in SUBSET S
    BY <2>1, <2>2, <2>5, <2>13
  <2>10. PICK w : w = u \ {y} /\ w = z \ {c} /\ w \in SUBSET S
    <3>1. u \ {y} = z \ {c} /\ u \ {y} \in SUBSET S
      BY <2>2, <2>5, <2>7
    <3> QED
      BY <3>1
  <2>11. Total(v, u) = v[y] + Total(v, w) /\ Total(v, z) = v[c] + Total(v, w)
    BY <2>13, <2>9, <2>10
  <2>12. v[y] \in Int /\ v[c] \in Int /\ Total(v, w) \in Int
    <3>1. IsFiniteSet(w) /\ \A a \in w : v[a] \in Int
      BY <2>10, FS_Subset
    <3> QED
      BY <2>2, <2>3, <2>5, <3>1, TotalIsInt
  <2> HIDE DEF B
  <2> QED
    BY <2>3, <2>6, <2>7, <2>11, <2>12
<1>2. S \in SUBSET S
  OBVIOUS
<1> QED
  BY <1>1, <1>2

\* Of two that agree but in one place, the sums differ by what they differ there.
LEMMA TotalMoved ==
  ASSUME NEW S, IsFiniteSet(S), NEW v, NEW w, NEW x \in S, NEW k \in Int,
         \A y \in S : v[y] \in Int /\ w[y] \in Int,
         \A y \in S \ {x} : v[y] = w[y], v[x] = w[x] + k
  PROVE  Total(v, S) = Total(w, S) + k
<1>1. PICK u : u = S \ {x} /\ u \in SUBSET S
  OBVIOUS
<1>2. IsFiniteSet(u) /\ \A y \in u : v[y] = w[y] /\ w[y] \in Int
  BY <1>1, FS_Subset
<1>3. Total(v, u) = Total(w, u) /\ Total(w, u) \in Int
  BY <1>2, TotalAlike, TotalIsInt
<1>4. Total(v, S) = v[x] + Total(v, u)
  BY <1>1, TotalWithout
<1>5. Total(w, S) = w[x] + Total(w, u)
  BY <1>1, TotalWithout
<1> QED
  BY <1>3, <1>4, <1>5

\* Nothing adds up to nothing.
LEMMA TotalOfNothing ==
  ASSUME NEW S, IsFiniteSet(S), NEW v, \A x \in S : v[x] = 0
  PROVE  Total(v, S) = 0
<1> DEFINE B == {t \in SUBSET S : Total(v, t) # 0}
<1>1. ASSUME B # {}
      PROVE  FALSE
  <2>0. B \subseteq SUBSET S
    OBVIOUS
  <2>1. PICK t \in B : \A u \in SUBSET t : u # t => u \notin B
    <3> HIDE DEF B
    <3> QED
      BY <1>1, <2>0, Smallest
  <2>2. t \in SUBSET S /\ Total(v, t) # 0 /\ IsFiniteSet(t)
    BY <2>1, FS_Subset
  <2>3. CASE t # {}
    <3>1. PICK c, u : c = Picked(t) /\ u = t \ {Picked(t)}
      OBVIOUS
    <3>2. c \in t /\ u \in SUBSET t /\ u # t
      BY <2>3, <3>1, PickedIsIn
    <3>3. Total(v, u) = 0
      BY <2>1, <2>2, <3>2
    <3>4. Total(v, t) = v[c] + Total(v, u)
      BY <2>2, <2>3, <3>1, TotalStep
    <3>5. v[c] = 0
      BY <2>2, <3>2
    <3> QED
      BY <2>2, <3>3, <3>4, <3>5
  <2>4. CASE t = {}
    BY <2>2, <2>4, TotalStep
  <2> QED
    BY <2>3, <2>4
<1> QED
  BY <1>1

\* A set counts as many elements as it has.
LEMMA TotalOfOnes ==
  ASSUME NEW S, IsFiniteSet(S), NEW v, \A x \in S : v[x] = 1
  PROVE  Total(v, S) = Cardinality(S)
<1> DEFINE B == {t \in SUBSET S : Total(v, t) # Cardinality(t)}
<1>1. ASSUME B # {}
      PROVE  FALSE
  <2>0. B \subseteq SUBSET S
    OBVIOUS
  <2>1. PICK t \in B : \A u \in SUBSET t : u # t => u \notin B
    <3> HIDE DEF B
    <3> QED
      BY <1>1, <2>0, Smallest
  <2>2. t \in SUBSET S /\ Total(v, t) # Cardinality(t) /\ IsFiniteSet(t)
    BY <2>1, FS_Subset
  <2>3. CASE t # {}
    <3>1. PICK c, u : c = Picked(t) /\ u = t \ {Picked(t)}
      OBVIOUS
    <3>2. c \in t /\ u \in SUBSET t /\ u # t
      BY <2>3, <3>1, PickedIsIn
    <3>3. Total(v, u) = Cardinality(u)
      BY <2>1, <2>2, <3>2
    <3>4. Total(v, t) = v[c] + Total(v, u)
      BY <2>2, <2>3, <3>1, TotalStep
    <3>5. v[c] = 1
      BY <2>2, <3>2
    <3>6. Cardinality(u) = Cardinality(t) - 1 /\ Cardinality(t) \in Nat
      BY <2>2, <3>1, <3>2, FS_RemoveElement, FS_CardinalityType
    <3> QED
      BY <2>2, <3>3, <3>4, <3>5, <3>6
  <2>4. CASE t = {}
    BY <2>2, <2>4, TotalStep, FS_EmptySet
  <2> QED
    BY <2>3, <2>4
<1> QED
  BY <1>1

\* The sums over the parts of a set, each element of which is of one part, add
\* up to the sum over the set.
LEMMA PartsAddUp ==
  ASSUME NEW S, IsFiniteSet(S), NEW I, IsFiniteSet(I), NEW v, \A x \in S : v[x] \in Int,
         NEW of, \A x \in S : of[x] \in I
  PROVE  Total([i \in I |-> Total(v, {x \in S : of[x] = i})], I) = Total(v, S)
<1> DEFINE Part(t, i) == {x \in t : of[x] = i}
           Sums(t) == [i \in I |-> Total(v, Part(t, i))]
           B == {t \in SUBSET S : Total(Sums(t), I) # Total(v, t)}
<1>0. ASSUME NEW t \in SUBSET S, NEW i \in I
      PROVE  Sums(t)[i] = Total(v, Part(t, i)) /\ Sums(t)[i] \in Int
             /\ IsFiniteSet(Part(t, i))
  <2>1. Part(t, i) \in SUBSET S
    OBVIOUS
  <2>2. IsFiniteSet(Part(t, i)) /\ \A x \in Part(t, i) : v[x] \in Int
    BY <2>1, FS_Subset
  <2>3. Total(v, Part(t, i)) \in Int
    <3> HIDE DEF Part
    <3> QED
      BY <2>2, TotalIsInt
  <2> QED
    BY <2>2, <2>3
<1>1. ASSUME B # {}
      PROVE  FALSE
  <2>0. B \subseteq SUBSET S
    OBVIOUS
  <2>1. PICK t \in B : \A u \in SUBSET t : u # t => u \notin B
    <3> HIDE DEF B
    <3> QED
      BY <1>1, <2>0, Smallest
  <2>2. t \in SUBSET S /\ Total(Sums(t), I) # Total(v, t) /\ IsFiniteSet(t)
    BY <2>1, FS_Subset
  <2>3. CASE t # {}
    <3>1. PICK c, u : c = Picked(t) /\ u = t \ {Picked(t)}
      OBVIOUS
    <3>2. c \in t /\ u \in SUBSET t /\ u # t /\ u = t \ {c} /\ u \in SUBSET S
      BY <2>2, <2>3, <3>1, PickedIsIn
    <3>3. Total(Sums(u), I) = Total(v, u)
      BY <2>1, <2>2, <3>2
    <3>4. Total(v, t) = v[c] + Total(v, u)
      BY <2>2, <2>3, <3>1, TotalStep
    <3>5. v[c] \in Int /\ of[c] \in I /\ c \in S
      BY <2>2, <3>2
    <3>6. ASSUME NEW i \in I \ {of[c]}
          PROVE  Sums(t)[i] = Sums(u)[i]
      <4>1. Part(t, i) = Part(u, i)
        BY <3>2
      <4> QED
        BY <4>1
    <3>7. Sums(t)[of[c]] = Sums(u)[of[c]] + v[c]
      <4>1. PICK a, b, o : a = Part(t, o) /\ b = Part(u, o) /\ o = of[c]
        OBVIOUS
      <4>2. c \in a /\ b = a \ {c} /\ o \in I
        BY <3>2, <3>5, <4>1
      <4>3. IsFiniteSet(a) /\ \A x \in a : v[x] \in Int
        BY <1>0, <2>2, <4>1, <4>2
      <4>4. Total(v, a) = v[c] + Total(v, b)
        BY <4>2, <4>3, TotalWithout
      <4>5. Sums(t)[o] = Total(v, a) /\ Sums(u)[o] = Total(v, b) /\ Sums(u)[o] \in Int
        BY <1>0, <2>2, <3>2, <4>1, <4>2
      <4> HIDE DEF Sums, Part
      <4> QED
        BY <3>5, <4>1, <4>4, <4>5
    <3>8. \A i \in I : Sums(t)[i] \in Int /\ Sums(u)[i] \in Int
      BY <1>0, <2>2, <3>2
    <3>9. PICK st, su, o :
            /\ st = Sums(t) /\ su = Sums(u) /\ o = of[c] /\ o \in I
            /\ \A i \in I : st[i] \in Int /\ su[i] \in Int
            /\ \A i \in I \ {o} : st[i] = su[i]
            /\ st[o] = su[o] + v[c]
      <4> HIDE DEF Sums, Part, B
      <4> QED
        BY <3>5, <3>6, <3>7, <3>8
    <3> HIDE DEF Sums, Part, B
    <3>10. Total(st, I) = Total(su, I) + v[c]
      <4>1. PICK k \in Int : k = v[c]
        BY <3>5
      <4>2. \A y \in I : st[y] \in Int /\ su[y] \in Int
        BY <3>9
      <4>3. \A y \in I \ {o} : st[y] = su[y]
        BY <3>9
      <4>4. st[o] = su[o] + k /\ o \in I /\ IsFiniteSet(I)
        BY <3>9, <4>1
      <4> QED
        BY <4>1, <4>2, <4>3, <4>4, TotalMoved
    <3>11. Total(su, I) \in Int
      BY <3>8, <3>9, TotalIsInt
    <3> QED
      BY <2>2, <3>3, <3>4, <3>5, <3>9, <3>10, <3>11
  <2>4. CASE t = {}
    <3>1. \A i \in I : Part(t, i) = {}
      BY <2>4
    <3>2. IsFiniteSet({}) /\ Total(v, {}) = 0
      BY TotalStep, FS_EmptySet
    <3>3. \A i \in I : Sums(t)[i] = 0
      BY <3>1, <3>2
    <3>4. PICK st : st = Sums(t)
      OBVIOUS
    <3> HIDE DEF Sums, Part, B
    <3>5. Total(st, I) = 0
      BY <3>3, <3>4, TotalOfNothing
    <3> QED
      BY <2>2, <2>4, <3>2, <3>4, <3>5
  <2> QED
    BY <2>3, <2>4
<1>2. S \in SUBSET S
  OBVIOUS
<1> QED
  BY <1>1, <1>2

\* What is defined like the sum is the sum.
LEMMA SumIsTotal ==
  ASSUME NEW S, IsFiniteSet(S), NEW v, NEW g, Adds(v, S, g)
  PROVE  g[S] = Total(v, S)
<1>1. PICK h : Adds(v, S, h) /\ Total(v, S) = h[S]
  BY TotalExists DEF Total
<1>2. S \in SUBSET (S \cap S)
  OBVIOUS
<1> QED
  BY <1>1, <1>2, AddsAlike

-----------------------------------------------------------------------------
(* The number beside the menu: a sum over the conversations.                *)

\* Rows that count no more than what each has for itself, count no more
\* together than there is.
LEMMA TotalIsBounded ==
  ASSUME NEW v, NEW S, IsFiniteSet(S), NEW M, IsFiniteSet(M), NEW own \in [S -> SUBSET M],
         \A c \in S : v[c] \in Nat /\ v[c] <= Cardinality(own[c]),
         \A c \in S, d \in S : c # d => own[c] \cap own[d] = {}
  PROVE  Total(v, S) <= Cardinality(M)
<1>1. PICK g : Adds(v, S, g) /\ Total(v, S) = g[S]
  BY TotalExists DEF Total
<1> DEFINE Of(t) == UNION {own[c] : c \in t}
           Bounded(t) == g[t] \in Nat /\ g[t] <= Cardinality(Of(t))
<1>2. ASSUME NEW t \in SUBSET S
      PROVE  IsFiniteSet(Of(t)) /\ Cardinality(Of(t)) \in Nat /\ Cardinality(Of(t)) <= Cardinality(M)
  <2>1. Of(t) \in SUBSET M
    OBVIOUS
  <2> QED
    BY <2>1, FS_Subset, FS_CardinalityType
<1>3. ASSUME {t \in SUBSET S : ~ Bounded(t)} # {}
      PROVE  FALSE
  <2> DEFINE B == {t \in SUBSET S : ~ Bounded(t)}
  <2>0. B \subseteq SUBSET S /\ B # {}
    BY <1>3
  <2>1. PICK t \in B : \A u \in SUBSET t : u # t => u \notin B
    <3> HIDE DEF B
    <3> QED
      BY <2>0, Smallest
  <2>2. t \in SUBSET S /\ ~ Bounded(t)
    BY <2>1
  <2>3. g[t] = IF t = {} THEN 0 ELSE v[Picked(t)] + g[t \ {Picked(t)}]
    BY <1>1, <2>2 DEF Adds
  <2>4. CASE t = {}
    <3>1. g[t] = 0 /\ Cardinality(Of(t)) \in Nat
      BY <1>2, <2>2, <2>3, <2>4
    <3> QED
      BY <2>2, <3>1
  <2>5. CASE t # {}
    <3>1. PICK u, c : u = t \ {Picked(t)} /\ c = Picked(t)
      OBVIOUS
    <3>2. c \in t /\ u \in SUBSET t /\ u # t
      BY <2>5, <3>1, PickedIsIn
    <3>3. Bounded(u)
      BY <2>1, <2>2, <3>2
    <3>4. Of(t) = Of(u) \cup own[c]
      BY <3>1, <3>2
    <3>5. Of(u) \cap own[c] = {}
      BY <2>2, <3>1, <3>2
    <3>6. IsFiniteSet(own[c]) /\ Cardinality(own[c]) \in Nat
      BY <2>2, <3>2, FS_Subset, FS_CardinalityType
    <3>7. IsFiniteSet(Of(u)) /\ Cardinality(Of(u)) \in Nat
      BY <1>2, <2>2, <3>2
    <3>8. Cardinality(Of(t)) = Cardinality(Of(u)) + Cardinality(own[c])
      <4> HIDE DEF Of
      <4>1. Cardinality(Of(u) \cap own[c]) = 0
        BY <3>5, FS_EmptySet
      <4>2. Cardinality(Of(u) \cup own[c]) =
              Cardinality(Of(u)) + Cardinality(own[c]) - Cardinality(Of(u) \cap own[c])
        BY <3>6, <3>7, FS_Union
      <4> QED
        BY <3>4, <3>6, <3>7, <4>1, <4>2
    <3>9. g[t] = v[c] + g[u] /\ v[c] \in Nat /\ v[c] <= Cardinality(own[c])
      BY <2>2, <2>3, <2>5, <3>1, <3>2
    <3> HIDE DEF Of
    <3> QED
      BY <2>2, <3>3, <3>6, <3>7, <3>8, <3>9
  <2> QED
    BY <2>4, <2>5
<1>4. Bounded(S)
  BY <1>3
<1> HIDE DEF Of
<1>5. Cardinality(M) \in Nat
  BY FS_CardinalityType
<1> QED
  BY <1>1, <1>2, <1>4, <1>5

\* The counters of the conversations, and their sum, never exceed the messages
\* of customers that are unread.
THEOREM CountersNeverOverstate ==
  ASSUME Assumptions
  PROVE  Spec => []CounterNeverOverstates
<1>1. ASSUME IInv
      PROVE  CounterNeverOverstates
  <2> DEFINE D == DOMAIN list
             M == {m \in Messages : messages[m] \notin {None, Gone} /\ messages[m].sender = "CUSTOMER"
                                                                  /\ ~ messages[m].read}
             own == [c \in D |-> Unopened(c, "CUSTOMER")]
             v == [c \in D |-> list[c].unread]
             Sums(g) == g = [s \in SUBSET D |->
                              IF s = {} THEN 0
                              ELSE list[Picked(s)].unread + g[s \ {Picked(s)}]]
  <2>1. D = {c \in Customers : unread[c] # None}
    BY DEF list
  <2>2. ASSUME NEW c \in D
        PROVE  /\ c \in Customers /\ list[c].unread = unread[c]
               /\ list[c].last = IF thread[c] = <<>> THEN None ELSE Last(thread[c])
               /\ unread[c] \in Nat /\ unread[c] <= Cardinality(Unopened(c, "CUSTOMER"))
    BY <1>1, <2>1 DEF list, IInv, TypeOK, Counted
  <2>3. ASSUME NEW c \in D, list[c].unread > 0
        PROVE  list[c].last # None
    <3>1. thread[c] \in Seq(Messages)
      BY <1>1, <2>2 DEF IInv, TypeOK
    <3>2. CASE thread[c] = <<>>
      <4>1. ToSet(thread[c]) = {}
        BY <3>2 DEF ToSet
      <4>2. Unopened(c, "CUSTOMER") = {}
        BY <4>1 DEF Unopened
      <4>3. Cardinality(Unopened(c, "CUSTOMER")) = 0
        BY <4>2, FS_EmptySet
      <4> QED
        BY <2>2, <2>3, <4>3
    <3>3. CASE thread[c] # <<>>
      <4>1. Last(thread[c]) \in Messages
        BY <3>1, <3>3 DEF Last
      <4> QED
        BY <2>2, <3>3, <4>1, Rows
    <3> QED
      BY <3>2, <3>3
  <2>5. IsFiniteSet(D) /\ IsFiniteSet(M)
    BY <2>1, FS_Subset DEF Assumptions
  <2>4. unreadCount = Total(v, D)
    <3>1. unreadCount = (CHOOSE g : Sums(g))[D]
      BY DEF unreadCount, MapThenSumSet, MapThenFoldSet, Picked
    <3>2. ASSUME NEW g
          PROVE  Sums(g) <=> Adds(v, D, g)
      <4>1. ASSUME NEW s \in SUBSET D, s # {}
            PROVE  v[Picked(s)] = list[Picked(s)].unread
        <5>1. Picked(s) \in D
          BY <4>1, PickedIsIn
        <5> QED
          BY <5>1
      <4> HIDE DEF D, v
      <4> QED
        BY <4>1 DEF Adds
    <3> HIDE DEF D, v, Sums
    <3>3. \E g : Sums(g)
      BY <2>5, <3>2, TotalExists
    <3>4. PICK g : Sums(g) /\ unreadCount = g[D]
      BY <3>1, <3>3
    <3> QED
      BY <2>5, <3>2, <3>4, SumIsTotal
  <2>6. ASSUME NEW c \in D
        PROVE  Unopened(c, "CUSTOMER") \subseteq M
    <3>1. c \in Customers
      BY <2>2
    <3>2. \A m \in ToSet(thread[c]) : m \in Messages /\ messages[m] \notin {None, Gone}
      BY <1>1, <3>1, InThread, Rows
    <3> QED
      BY <3>2 DEF Unopened
  <2>7. own \in [D -> SUBSET M]
    BY <2>6
  <2>8. \A c \in D, d \in D : c # d => own[c] \cap own[d] = {}
    BY <1>1, <2>2, OneConversation DEF Unopened
  <2>9. \A c \in D : list[c].unread \in Nat /\ list[c].unread <= Cardinality(own[c])
    BY <2>2
  <2>10. Total(v, D) <= Cardinality(M)
    <3>1. \A c \in D : v[c] \in Nat /\ v[c] <= Cardinality(own[c])
      BY <2>9
    <3> HIDE DEF D, M, own, v
    <3> QED
      BY <2>5, <2>7, <2>8, <3>1, TotalIsBounded
  <2> HIDE DEF v, Sums
  <2> QED
    BY <2>2, <2>3, <2>4, <2>10 DEF CounterNeverOverstates
<1> QED
  BY <1>1, Invariance, PTL
=============================================================================
