---------------------------- MODULE Registration ----------------------------
(***************************************************************************)
(* How a business comes to exist: platform.service.ts.  register writes    *)
(* all of it in one transaction and then opens the owner's session.        *)
(*                                                                         *)
(* What a transaction writes is its own (req[r].done) until it commits,    *)
(* but its unique keys are already held: another transaction that inserts  *)
(* one of them waits for it to end.  The process may stop, or Prisma end   *)
(* the transaction after 20 seconds, at any step.                          *)
(***************************************************************************)
EXTENDS Naturals

CONSTANTS
  Requests,   \* registrations that can run at the same time
  Slugs,      \* addresses people ask for
  Reserved,   \* RESERVED_SLUGS
  Emails,
  None

\* What the parameters must be.
Assumptions == Reserved \subseteq Slugs /\ None \notin Slugs \cup Emails

VARIABLES
  businesses,  \* the email each business was registered with
  users,       \* the business of each account
  menus,       \* businesses with their categories and services
  attended,    \* businesses whose owner is a professional with hours
  sessions,    \* accounts that have been let in
  req

vars == <<businesses, users, menus, attended, sessions, req>>
tables == <<businesses, users, menus, attended>>

Idle == [step |-> "idle", slug |-> None, email |-> None, done |-> {}]

Tables == {"business", "user", "menu", "professional"}

Init ==
  /\ businesses = [s \in Slugs |-> None] /\ users = [e \in Emails |-> None]
  /\ menus = {} /\ attended = {} /\ sessions = {}
  /\ req = [r \in Requests |-> Idle]

slugTaken(slug) == slug \in Reserved \/ businesses[slug] # None

Refuse(r) == req' = [req EXCEPT ![r] = Idle]

\* checkSlug promises nothing: register asks again.
register(r) ==
  /\ req[r].step = "idle"
  /\ \E slug \in Slugs \ Reserved, email \in Emails :
       req' = [req EXCEPT ![r] =
         [step |-> "email", slug |-> slug, email |-> email, done |-> {}]]
  /\ UNCHANGED <<tables, sessions>>

FindUser(r) ==
  /\ req[r].step = "email"
  /\ \/ users[req[r].email] # None /\ Refuse(r)
     \/ users[req[r].email] = None /\ req' = [req EXCEPT ![r].step = "slug"]
  /\ UNCHANGED <<tables, sessions>>

FindBusiness(r) ==
  /\ req[r].step = "slug"
  /\ \/ slugTaken(req[r].slug) /\ Refuse(r)
     \/ ~ slugTaken(req[r].slug) /\ req' = [req EXCEPT ![r].step = "insert"]
  /\ UNCHANGED <<tables, sessions>>

\* Mutant of Following: the business and its owner are sent together.
FollowingAtOnce(done) ==
  IF {"business", "user"} \subseteq done
    THEN IF "menu" \in done THEN {"professional"} \ done ELSE {"menu"}
    ELSE {"business", "user"} \ done

\* The order of the inserts.
Following(done) ==
  CASE done = {} -> {"business"}
    [] done = {"business"} -> {"user"}
    [] done = {"business", "user"} -> {"menu"}
    [] done = {"business", "user", "menu"} -> {"professional"}
    [] OTHER -> {}

\* The transactions that hold the unique key r's insert needs.
Holders(r, table) ==
  {s \in Requests \ {r} :
     /\ req[s].step = "insert" /\ table \in req[s].done
     /\ \/ table = "business" /\ req[s].slug = req[r].slug
        \/ table = "user" /\ req[s].email = req[r].email}

Duplicate(r, table) ==
  \/ table = "business" /\ businesses[req[r].slug] # None
  \/ table = "user" /\ users[req[r].email] # None

Insert(r) ==
  /\ req[r].step = "insert"
  /\ \E table \in Following(req[r].done) :
       /\ Holders(r, table) = {}
       /\ \/ Duplicate(r, table) /\ Refuse(r)
          \/ ~ Duplicate(r, table) /\ req' = [req EXCEPT ![r].done = @ \cup {table}]
  /\ UNCHANGED <<tables, sessions>>

\* Tables with what r has written.
Apply(r) ==
  LET q == req[r] IN
  /\ businesses' = IF "business" \in q.done
                     THEN [businesses EXCEPT ![q.slug] = q.email] ELSE businesses
  /\ users' = IF "user" \in q.done THEN [users EXCEPT ![q.email] = q.slug] ELSE users
  /\ menus' = IF "menu" \in q.done THEN menus \cup {q.slug} ELSE menus
  /\ attended' = IF "professional" \in q.done THEN attended \cup {q.slug} ELSE attended

Commit(r) ==
  /\ req[r].step = "insert" /\ req[r].done = Tables
  /\ Apply(r)
  /\ req' = [req EXCEPT ![r].step = "session"]
  /\ UNCHANGED sessions

StartSession(r) ==
  /\ req[r].step = "session"
  /\ sessions' = sessions \cup {req[r].email}
  /\ Refuse(r)
  /\ UNCHANGED tables

\* Mutant of Stop: statements outside a transaction stay.
StopKeeping(r) ==
  /\ req[r].step \in {"email", "slug", "insert", "session"}
  /\ Apply(r)
  /\ Refuse(r)
  /\ UNCHANGED sessions

Stop(r) ==
  /\ req[r].step # "idle"
  /\ Refuse(r)
  /\ UNCHANGED <<tables, sessions>>

Next ==
  \E r \in Requests :
    \/ register(r) \/ FindUser(r) \/ FindBusiness(r) \/ Insert(r) \/ Commit(r)
    \/ StartSession(r) \/ Stop(r)

Spec == Init /\ [][Next]_vars

-----------------------------------------------------------------------------
(* Properties.                                                             *)

\* Tables name each other's rows, requests name what they asked for.
TypeOK ==
  /\ businesses \in [Slugs -> Emails \cup {None}]
  /\ users \in [Emails -> Slugs \cup {None}]
  /\ menus \subseteq Slugs /\ attended \subseteq Slugs /\ sessions \subseteq Emails
  /\ req \in [Requests -> [step : {"idle", "email", "slug", "insert", "session"},
                           slug : Slugs \cup {None}, email : Emails \cup {None},
                           done : SUBSET Tables]]

\* However registrations overlap or stop half-way, a business is whole: its
\* owner's account is of that business and of no other, it has a menu and
\* somebody to book; and nothing exists without its business.
Whole ==
  /\ \A s \in Slugs :
       /\ businesses[s] # None => users[businesses[s]] = s /\ s \notin Reserved
       /\ businesses[s] # None <=> s \in menus
       /\ businesses[s] # None <=> s \in attended
  /\ \A e \in Emails : users[e] # None => businesses[users[e]] = e
  /\ \A e \in sessions : users[e] # None

Waits(r, s) == req[r].step = "insert" /\
  \E table \in Following(req[r].done) : s \in Holders(r, table)

\* Two registrations never wait for each other's keys.
NoCircle == \A r, s \in Requests : ~ (Waits(r, s) /\ Waits(s, r))
=============================================================================
