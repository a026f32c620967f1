-------------------------- MODULE RegistrationProofs --------------------------
(***************************************************************************)
(* Theorems about Registration for every set of addresses, emails and      *)
(* registrations under way.                                                *)
(***************************************************************************)
EXTENDS Registration, TLAPS

\* A transaction has written a prefix of its inserts.
Prefixes ==
  {{}, {"business"}, {"business", "user"}, {"business", "user", "menu"}, Tables}

\* What a registration asked for, how far it is, and that what it holds is not
\* in the tables yet.
Proper(q) ==
  /\ q.step # "idle" => q.slug \in Slugs \ Reserved /\ q.email \in Emails
  /\ q.done \in Prefixes
  /\ q.step \in {"email", "slug"} => q.done = {}
  /\ q.step = "insert" /\ "business" \in q.done => businesses[q.slug] = None
  /\ q.step = "insert" /\ "user" \in q.done => users[q.email] = None
  /\ q.step = "session" => users[q.email] # None

\* No key is held twice.
Apart(r, s) ==
  r # s /\ req[r].step = "insert" /\ req[s].step = "insert" =>
    /\ "business" \in req[r].done \cap req[s].done => req[r].slug # req[s].slug
    /\ "user" \in req[r].done \cap req[s].done => req[r].email # req[s].email

IInv ==
  /\ TypeOK
  /\ Whole
  /\ \A r \in Requests : Proper(req[r])
  /\ \A r, s \in Requests : Apart(r, s)

-----------------------------------------------------------------------------
(* How far a transaction can be.                                           *)

\* The next insert is one that is missing, and makes a longer prefix.
LEMMA NextInsert ==
  ASSUME NEW done \in Prefixes, NEW table \in Following(done)
  PROVE  table \in Tables /\ table \notin done /\ done \cup {table} \in Prefixes
<1>1. {"business"} # {} /\ {"business", "user"} # {} /\ {"business", "user"} # {"business"}
      /\ {"business", "user", "menu"} \notin {{}, {"business"}, {"business", "user"}}
      /\ Tables \notin {{}, {"business"}, {"business", "user"},
                        {"business", "user", "menu"}}
  BY DEF Tables
<1>2. CASE done = {}
  BY <1>2 DEF Following, Prefixes, Tables
<1>3. CASE done = {"business"}
  <2>1. table = "user"
    BY <1>1, <1>3 DEF Following
  <2> QED
    BY <1>3, <2>1 DEF Prefixes, Tables
<1>4. CASE done = {"business", "user"}
  <2>1. table = "menu"
    BY <1>1, <1>4 DEF Following
  <2> QED
    BY <1>4, <2>1 DEF Prefixes, Tables
<1>5. CASE done = {"business", "user", "menu"}
  <2>1. table = "professional"
    BY <1>1, <1>5 DEF Following
  <2> QED
    BY <1>5, <2>1 DEF Prefixes, Tables
<1>6. CASE done = Tables
  BY <1>1, <1>6 DEF Following
<1> QED
  BY <1>2, <1>3, <1>4, <1>5, <1>6 DEF Prefixes

\* The account is never written before its business.
LEMMA BusinessFirst ==
  ASSUME NEW done \in Prefixes, "user" \in done
  PROVE  "business" \in done
BY DEF Prefixes, Tables

LEMMA IdleProper == Idle.step = "idle" /\ Idle.done = {} /\ Proper(Idle)
BY DEF Idle, Proper, Prefixes

-----------------------------------------------------------------------------
(* The invariant.                                                          *)

\* A step of one registration that commits nothing.
LEMMA OnlyRequest ==
  ASSUME IInv, NEW r \in Requests, NEW q,
         q \in [step : {"idle", "email", "slug", "insert", "session"},
                slug : Slugs \cup {None}, email : Emails \cup {None},
                done : SUBSET Tables],
         Proper(q), req' = [req EXCEPT ![r] = q], UNCHANGED tables,
         sessions' \subseteq Emails, \A e \in sessions' : users[e] # None,
         \A s \in Requests \ {r} :
           q.step = "insert" /\ req[s].step = "insert" =>
             /\ "business" \in q.done \cap req[s].done => q.slug # req[s].slug
             /\ "user" \in q.done \cap req[s].done => q.email # req[s].email
  PROVE  IInv'
<1>1. UNCHANGED <<businesses, users, menus, attended>>
  BY DEF tables
<1>2. \A s \in Requests : req'[s] = IF s = r THEN q ELSE req[s]
  BY DEF IInv, TypeOK
<1>3. TypeOK'
  BY <1>1 DEF IInv, TypeOK
<1>4. Whole'
  BY <1>1 DEF IInv, Whole
<1>5. ASSUME NEW s \in Requests
      PROVE  Proper(req[s])'
  <2>1. PICK p : p = req'[s] /\ Proper(p)
    BY <1>2 DEF IInv
  <2> QED
    BY <1>1, <2>1 DEF Proper
<1>6. ASSUME NEW s \in Requests, NEW t \in Requests
      PROVE  Apart(s, t)'
  BY <1>2 DEF IInv, Apart
<1> QED
  BY <1>3, <1>4, <1>5, <1>6 DEF IInv

LEMMA RefuseKeepsInv ==
  ASSUME IInv, NEW r \in Requests, Refuse(r), UNCHANGED tables,
         sessions' \subseteq Emails, \A e \in sessions' : users[e] # None
  PROVE  IInv'
<1>1. Idle \in [step : {"idle", "email", "slug", "insert", "session"},
                slug : Slugs \cup {None}, email : Emails \cup {None},
                done : SUBSET Tables]
  BY DEF Idle
<1> QED
  BY <1>1, IdleProper, OnlyRequest DEF Refuse

\* The reads before the transaction.
LEMMA ReadsKeepInv ==
  ASSUME IInv, NEW r \in Requests, register(r) \/ FindUser(r) \/ FindBusiness(r)
  PROVE  IInv'
<1>0. sessions' \subseteq Emails /\ \A e \in sessions' : users[e] # None
  BY DEF IInv, TypeOK, Whole, register, FindUser, FindBusiness
<1>1. UNCHANGED tables
  BY DEF register, FindUser, FindBusiness
<1>2. CASE Refuse(r)
  BY <1>0, <1>1, <1>2, RefuseKeepsInv
<1>3. CASE ~ Refuse(r)
  <2>1. PICK step \in {"email", "slug", "insert"}, slug \in Slugs \ Reserved,
             email \in Emails :
          req' = [req EXCEPT ![r] =
            [step |-> step, slug |-> slug, email |-> email, done |-> {}]]
    <3>1. CASE register(r)
      BY <3>1 DEF register
    <3>2. ASSUME NEW step \in {"slug", "insert"}, req[r].step \in {"email", "slug"},
                 req' = [req EXCEPT ![r].step = step]
          PROVE  /\ req[r].slug \in Slugs \ Reserved /\ req[r].email \in Emails
                 /\ req' = [req EXCEPT ![r] =
                      [step |-> step, slug |-> req[r].slug, email |-> req[r].email,
                       done |-> {}]]
      <4>1. /\ req[r] \in [step : {"idle", "email", "slug", "insert", "session"},
                            slug : Slugs \cup {None}, email : Emails \cup {None},
                            done : SUBSET Tables]
            /\ req[r].slug \in Slugs \ Reserved /\ req[r].email \in Emails
            /\ req[r].done = {}
        BY <3>2 DEF IInv, TypeOK, Proper
      <4>2. [req[r] EXCEPT !.step = step] =
              [step |-> step, slug |-> req[r].slug, email |-> req[r].email, done |-> {}]
        BY <4>1
      <4>3. req' = [req EXCEPT ![r] = [req[r] EXCEPT !.step = step]]
        BY <3>2 DEF IInv, TypeOK
      <4> QED
        BY <4>1, <4>2, <4>3
    <3>3. CASE FindUser(r) \/ FindBusiness(r)
      BY <1>3, <3>2, <3>3 DEF FindUser, FindBusiness
    <3> QED
      BY <3>1, <3>3
  <2> DEFINE q == [step |-> step, slug |-> slug, email |-> email, done |-> {}]
  <2>2. Proper(q)
    BY DEF Proper, Prefixes
  <2> QED
    BY <1>0, <1>1, <2>1, <2>2, OnlyRequest
<1> QED
  BY <1>2, <1>3

\* An insert waits for whoever holds its key, and is refused if it is taken.
LEMMA InsertKeepsInv ==
  ASSUME IInv, NEW r \in Requests, Insert(r)
  PROVE  IInv'
<1> DEFINE p == req[r]
<1>0. /\ UNCHANGED tables /\ sessions' \subseteq Emails
      /\ \A e \in sessions' : users[e] # None
  BY DEF IInv, TypeOK, Whole, Insert
<1>1. /\ p.step = "insert" /\ Proper(p)
      /\ p \in [step : {"idle", "email", "slug", "insert", "session"},
                slug : Slugs \cup {None}, email : Emails \cup {None},
                done : SUBSET Tables]
  BY DEF Insert, IInv, TypeOK
<1>2. PICK table \in Following(p.done) :
        /\ Holders(r, table) = {}
        /\ \/ Duplicate(r, table) /\ Refuse(r)
           \/ ~ Duplicate(r, table) /\ req' = [req EXCEPT ![r].done = @ \cup {table}]
  BY DEF Insert
<1>3. CASE Refuse(r)
  BY <1>0, <1>3, RefuseKeepsInv
<1>4. CASE ~ Duplicate(r, table) /\ req' = [req EXCEPT ![r].done = @ \cup {table}]
  <2> DEFINE q == [p EXCEPT !.done = @ \cup {table}]
  <2>1. table \in Tables /\ p.done \cup {table} \in Prefixes
    BY <1>1, NextInsert DEF Proper
  <2>2. /\ q \in [step : {"idle", "email", "slug", "insert", "session"},
                  slug : Slugs \cup {None}, email : Emails \cup {None},
                  done : SUBSET Tables]
        /\ q.step = "insert" /\ q.slug = p.slug /\ q.email = p.email
        /\ q.done = p.done \cup {table}
    BY <1>1, <2>1
  <2>3. req' = [req EXCEPT ![r] = q]
    BY <1>4 DEF IInv, TypeOK
  <2> HIDE DEF q
  <2>4. Proper(q)
    BY <1>1, <1>4, <2>1, <2>2 DEF Proper, Duplicate
  <2>5. ASSUME NEW s \in Requests \ {r}, req[s].step = "insert"
        PROVE  /\ "business" \in q.done \cap req[s].done => q.slug # req[s].slug
               /\ "user" \in q.done \cap req[s].done => q.email # req[s].email
    <3>1. Apart(r, s)
      BY DEF IInv
    <3>2. table = "business" /\ "business" \in req[s].done => p.slug # req[s].slug
      BY <1>2, <2>5 DEF Holders
    <3>3. table = "user" /\ "user" \in req[s].done => p.email # req[s].email
      BY <1>2, <2>5 DEF Holders
    <3> QED
      BY <1>1, <2>2, <2>5, <3>1, <3>2, <3>3 DEF Apart
  <2>6. \A s \in Requests \ {r} : q.step = "insert" /\ req[s].step = "insert" =>
          /\ "business" \in q.done \cap req[s].done => q.slug # req[s].slug
          /\ "user" \in q.done \cap req[s].done => q.email # req[s].email
    BY <2>5
  <2>7. q \in [step : {"idle", "email", "slug", "insert", "session"},
                slug : Slugs \cup {None}, email : Emails \cup {None},
                done : SUBSET Tables]
    BY <2>2
  <2> QED
    BY <1>0, <2>3, <2>4, <2>6, <2>7, OnlyRequest
<1> QED
  BY <1>2, <1>3, <1>4

\* All of a business appears at once, and its keys were nobody's.
LEMMA CommitKeepsInv ==
  ASSUME IInv, Assumptions, NEW r \in Requests, Commit(r)
  PROVE  IInv'
<1> DEFINE slug == req[r].slug
<1> DEFINE email == req[r].email
<1>1. /\ req[r].step = "insert" /\ req[r].done = Tables
      /\ slug \in Slugs \ Reserved /\ email \in Emails
      /\ businesses[slug] = None /\ users[email] = None
  BY DEF Commit, IInv, Proper, Tables
<1>2. /\ businesses' = [businesses EXCEPT ![slug] = email]
      /\ users' = [users EXCEPT ![email] = slug]
      /\ menus' = menus \cup {slug} /\ attended' = attended \cup {slug}
      /\ UNCHANGED sessions /\ req' = [req EXCEPT ![r].step = "session"]
  BY <1>1 DEF Commit, Apply, Tables
<1>3. /\ \A s \in Slugs : businesses'[s] = IF s = slug THEN email ELSE businesses[s]
      /\ \A e \in Emails : users'[e] = IF e = email THEN slug ELSE users[e]
  BY <1>2 DEF IInv, TypeOK
<1>4. slug # None /\ email # None
  BY <1>1 DEF Assumptions
<1>5. TypeOK'
  BY <1>1, <1>2 DEF IInv, TypeOK
<1>6. Whole'
  <2>1. ASSUME NEW s \in Slugs
        PROVE  /\ businesses'[s] # None => users'[businesses'[s]] = s /\ s \notin Reserved
               /\ businesses'[s] # None <=> s \in menus'
               /\ businesses'[s] # None <=> s \in attended'
    <3>1. businesses[s] # None => businesses[s] \in Emails /\ users[businesses[s]] = s
      BY DEF IInv, TypeOK, Whole
    <3>2. businesses[s] # None => businesses[s] # email
      BY <1>1, <3>1 DEF Assumptions
    <3> QED
      BY <1>1, <1>2, <1>3, <1>4, <3>1, <3>2 DEF IInv, Whole
  <2>2. ASSUME NEW e \in Emails, users'[e] # None
        PROVE  businesses'[users'[e]] = e
    <3>1. users[e] # None => users[e] \in Slugs /\ businesses[users[e]] = e
      BY DEF IInv, TypeOK, Whole
    <3> QED
      BY <1>1, <1>3, <2>2, <3>1 DEF Assumptions
  <2>3. \A e \in sessions' : users'[e] # None
    BY <1>2, <1>3, <1>4 DEF IInv, TypeOK, Whole
  <2> QED
    BY <2>1, <2>2, <2>3 DEF Whole
<1>7. ASSUME NEW s \in Requests
      PROVE  Proper(req[s])'
  <2>1. CASE s = r
    <3>1. /\ req'[s].step = "session" /\ req'[s].slug = slug /\ req'[s].email = email
          /\ req'[s].done = Tables
      BY <1>1, <1>2, <2>1 DEF IInv, TypeOK
    <3> QED
      BY <1>1, <1>3, <1>4, <3>1 DEF Proper, Prefixes
  <2>2. CASE s # r
    <3>1. req'[s] = req[s] /\ Proper(req[s]) /\ Apart(r, s)
      BY <1>2, <2>2 DEF IInv, TypeOK
    <3>2. {"business", "user"} \subseteq req[r].done
      BY <1>1 DEF Tables
    <3> QED
      BY <1>1, <1>3, <1>4, <2>2, <3>1, <3>2 DEF Proper, Apart
  <2> QED
    BY <2>1, <2>2
<1>8. ASSUME NEW s \in Requests, NEW t \in Requests
      PROVE  Apart(s, t)'
  <2>1. \A u \in Requests : req'[u].step = "insert" => req'[u] = req[u]
    BY <1>2 DEF IInv, TypeOK
  <2> QED
    BY <2>1 DEF IInv, Apart
<1> QED
  BY <1>5, <1>6, <1>7, <1>8 DEF IInv

LEMMA SessionKeepsInv ==
  ASSUME IInv, NEW r \in Requests, StartSession(r)
  PROVE  IInv'
<1>1. Refuse(r) /\ UNCHANGED tables /\ sessions' = sessions \cup {req[r].email}
  BY DEF StartSession
<1>2. req[r].email \in Emails /\ users[req[r].email] # None
  BY DEF StartSession, IInv, Proper
<1> QED
  BY <1>1, <1>2, RefuseKeepsInv DEF IInv, TypeOK, Whole

\* A registration that is cut off leaves nothing.
LEMMA StopKeepsInv ==
  ASSUME IInv, NEW r \in Requests, Stop(r)
  PROVE  IInv'
BY RefuseKeepsInv DEF Stop, IInv, TypeOK, Whole

LEMMA InitInv == Init => IInv
<1> SUFFICES ASSUME Init
             PROVE  IInv
  OBVIOUS
<1>1. TypeOK
  BY DEF Init, TypeOK, Idle
<1>2. Whole
  BY DEF Init, Whole
<1>3. \A r \in Requests : req[r] = Idle
  BY DEF Init
<1> QED
  BY <1>1, <1>2, <1>3, IdleProper DEF IInv, Apart

LEMMA StutterKeepsInv ==
  ASSUME IInv, UNCHANGED vars
  PROVE  IInv'
BY DEF vars, IInv, TypeOK, Whole, Proper, Apart

\* The invariant holds of every reachable state.
LEMMA Invariance == ASSUME Assumptions PROVE Spec => []IInv
<1>1. Init => IInv
  BY InitInv
<1>2. IInv /\ [Next]_vars => IInv'
  BY ReadsKeepInv, InsertKeepsInv, CommitKeepsInv, SessionKeepsInv, StopKeepsInv,
     StutterKeepsInv DEF Next
<1> QED
  BY <1>1, <1>2, PTL DEF Spec

-----------------------------------------------------------------------------
(* The theorems.                                                           *)

\* The tables name each other's rows and a registration what it asked for.
THEOREM TypeCorrect == ASSUME Assumptions PROVE Spec => []TypeOK
<1>1. IInv => TypeOK
  BY DEF IInv
<1> QED
  BY <1>1, Invariance, PTL

\* No overlap and no interruption of any number of registrations leaves half a
\* business, an account of no business, or a business with two owners.
THEOREM BusinessesAreWhole == ASSUME Assumptions PROVE Spec => []Whole
<1>1. IInv => Whole
  BY DEF IInv
<1> QED
  BY <1>1, Invariance, PTL

\* Who waits for a key holds none that comes later, so that two registrations
\* never wait for each other.
THEOREM NobodyWaitsInACircle == ASSUME Assumptions PROVE Spec => []NoCircle
<1>1. ASSUME IInv, NEW r \in Requests, NEW s \in Requests, Waits(r, s), Waits(s, r)
      PROVE  FALSE
  <2>1. req[r].done \in Prefixes /\ req[s].done \in Prefixes
    BY <1>1 DEF IInv, Proper
  <2>2. PICK t \in Following(req[r].done) : s \in Holders(r, t)
    BY <1>1 DEF Waits
  <2>3. PICK u \in Following(req[s].done) : r \in Holders(s, u)
    BY <1>1 DEF Waits
  <2>4. /\ t \in {"business", "user"} /\ t \in req[s].done /\ t \notin req[r].done
        /\ u \in {"business", "user"} /\ u \in req[r].done /\ u \notin req[s].done
    BY <2>1, <2>2, <2>3, NextInsert DEF Holders
  <2> QED
    BY <2>1, <2>4, BusinessFirst
<1>2. IInv => NoCircle
  BY <1>1 DEF NoCircle
<1> QED
  BY <1>2, Invariance, PTL
=============================================================================
