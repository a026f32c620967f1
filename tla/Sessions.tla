------------------------------ MODULE Sessions ------------------------------
(***************************************************************************)
(* The accounts of a business: auth.service.ts, and the access to the      *)
(* panel that professionals.service.ts gives and takes.                    *)
(*                                                                         *)
(* A request r is a handler in flight; req[r].step names what it does next:*)
(*   issue  - create the refresh token of the new session                  *)
(*   rotate - revoke the token it came with, if nobody has                 *)
(*   use, password, revoke - the three writes of resetPassword             *)
(*   mark, link - the two statements that issue a one-use link             *)
(*   account, access, card - the transaction of invite, revokeAccess or    *)
(*            remove                                                       *)
(* A crash is a request that never takes its next step.  A request that is *)
(* refused changes nothing and is no action; whether a token or a link is  *)
(* past its date only decides a refusal, so dates are left out.            *)
(***************************************************************************)
EXTENDS Naturals, Tables

CONSTANTS
  Requests,   \* handlers that can run at the same time
  Users,      \* rows of users
  Owner,      \* the account of the owner, which exists from the start
  Tokens,     \* rows of refresh_tokens
  Links,      \* rows of password_reset_tokens
  Clients,    \* which of the handlers are used
  Gone        \* a row that was deleted

VARIABLES
  users,   \* the users table
  card,    \* the professional who is given access: its userId, its deletedAt
  tokens,  \* the refresh tokens
  links,   \* the links sent by mail
  req      \* the requests in flight

vars == <<users, card, tokens, links, req>>

\* A password is named after the link it was chosen with.
Password == Links \cup {"first", "random"}
User == [active : BOOLEAN, pwd : Password, late : BOOLEAN, contested : BOOLEAN]
Token ==
  [user : Users, pwd : Password, root : Tokens,
   revoked : BOOLEAN, answered : BOOLEAN, late : BOOLEAN]
Link == [user : Users, used : BOOLEAN, over : SUBSET Links]

\* What the parameters must be.
Assumptions ==
  /\ Owner \in Users /\ None # Gone
  /\ {None, Gone} \cap (Users \cup Tokens \cup Links) = {}
  /\ {None, Gone} \cap (User \cup Token \cup Link) = {}

Idle == [op |-> "none", step |-> "idle", user |-> None, pwd |-> None,
         old |-> None, new |-> None, link |-> None, seen |-> {}, over |-> {},
         stale |-> FALSE]

IsIdle(r) == req[r] = Idle
Begin(r, client, fields) ==
  /\ client \in Clients /\ IsIdle(r)
  /\ req' = [req EXCEPT ![r] = fields]
Advance(r, fields) == req' = [req EXCEPT ![r] = fields]
Reply(r) == req' = [req EXCEPT ![r] = Idle]

IsRow(x) == x \notin {None, Gone}
LiveToken(t) == IsRow(tokens[t]) /\ ~ tokens[t].revoked
OpenLinks(u) == {l \in Links : IsRow(links[l]) /\ links[l].user = u /\ ~ links[l].used}

Init ==
  /\ users = [u \in Users |->
                IF u = Owner THEN [active |-> TRUE, pwd |-> "first", late |-> FALSE,
                                   contested |-> FALSE]
                ELSE None]
  /\ card = [user |-> None, deleted |-> FALSE]
  /\ tokens = [t \in Tokens |-> None]
  /\ links = [l \in Links |-> None]
  /\ req = [r \in Requests |-> Idle]

-----------------------------------------------------------------------------
(* Opening, rotating and closing sessions.                                 *)

\* login reads the user and verifies the password.
ReadForLogin(r) ==
  /\ \E u \in Users :
       /\ IsRow(users[u]) /\ users[u].active /\ users[u].pwd # "random"
       /\ Begin(r, "login", [Idle EXCEPT !.op = "login", !.step = "issue",
                               !.user = u, !.pwd = users[u].pwd])
  /\ UNCHANGED <<users, card, tokens, links>>

\* refresh reads a token some client was given.  One that is revoked closes
\* every session of its user.
ReadForRefresh(r) ==
  /\ \E t \in Tokens :
       /\ IsRow(tokens[t]) /\ tokens[t].answered
       /\ tokens[t].revoked \/ users[tokens[t].user].active
       /\ Begin(r, "refresh",
                [Idle EXCEPT !.op = "refresh",
                   !.step = IF tokens[t].revoked THEN "revoke" ELSE "issue",
                   !.user = tokens[t].user, !.pwd = tokens[t].pwd, !.old = t])
  /\ UNCHANGED <<users, card, tokens, links>>

\* issueSession.  The row cannot be created for a user deleted meanwhile.
Issue(r) ==
  LET q == req[r]
      login == q.op = "login"
  IN /\ q.step = "issue"
     /\ \/ /\ ~ IsRow(users[q.user])
           /\ Reply(r)
           /\ UNCHANGED tokens
        \/ /\ IsRow(users[q.user])
           /\ \E t \in NewId(tokens) :
                /\ tokens' = [tokens EXCEPT ![t] =
                     [user |-> q.user, pwd |-> q.pwd,
                      root |-> IF login THEN t ELSE tokens[q.old].root,
                      revoked |-> FALSE, answered |-> login,
                      late |-> q.stale \/ (~ login /\ tokens[q.old].late)]]
                /\ \/ login /\ Reply(r)
                   \/ ~ login /\ Advance(r, [q EXCEPT !.step = "rotate", !.new = t])
     /\ UNCHANGED <<users, card, links>>

\* Mutant of Rotate: the revocation is not conditional.
RotateAlways(r) ==
  LET q == req[r] IN
  /\ q.step = "rotate"
  /\ tokens' = [tokens EXCEPT
       ![q.old] = IF IsRow(@) THEN [@ EXCEPT !.revoked = TRUE] ELSE @,
       ![q.new] = IF IsRow(@) THEN [@ EXCEPT !.answered = TRUE] ELSE @]
  /\ Reply(r)
  /\ UNCHANGED <<users, card, links>>

\* The conditional revocation of refresh, and what the loser does.
Rotate(r) ==
  LET q == req[r] IN
  /\ q.step = "rotate"
  /\ \/ /\ LiveToken(q.old)
        /\ tokens' = [tokens EXCEPT ![q.old].revoked = TRUE,
                                    ![q.new].answered = TRUE]
        /\ Reply(r)
     \/ /\ ~ LiveToken(q.old)
        /\ Advance(r, [q EXCEPT !.step = "revoke"])
        /\ UNCHANGED tokens
  /\ UNCHANGED <<users, card, links>>

\* revokeAll.  Sessions that are being opened just now escape it: stale.
RevokeAll(r) ==
  LET u == req[r].user IN
  /\ req[r].step = "revoke"
  /\ tokens' = [t \in Tokens |->
       IF IsRow(tokens[t]) /\ tokens[t].user = u
         THEN [tokens[t] EXCEPT !.revoked = TRUE] ELSE tokens[t]]
  /\ req' = [s \in Requests |->
       IF s = r THEN Idle
       ELSE IF req[s].step = "issue" /\ req[s].user = u
         THEN [req[s] EXCEPT !.stale = TRUE] ELSE req[s]]
  /\ UNCHANGED <<users, card, links>>

Logout ==
  /\ "logout" \in Clients
  /\ \E t \in Tokens :
       /\ LiveToken(t) /\ tokens[t].answered
       /\ tokens' = [tokens EXCEPT ![t].revoked = TRUE]
  /\ UNCHANGED <<users, card, links, req>>

-----------------------------------------------------------------------------
(* One-use links: requestPasswordReset, sendInvitation, issueResetToken,   *)
(* resetPassword.                                                          *)

ReadForForgot(r) ==
  /\ \E u \in Users :
       /\ IsRow(users[u]) /\ users[u].active
       /\ Begin(r, "forgot", [Idle EXCEPT !.op = "mail", !.step = "mark", !.user = u])
  /\ UNCHANGED <<users, card, tokens, links>>

\* Mutant of MarkLinks: the earlier links are not looked for.
MarkLinksNone(r) ==
  LET q == req[r] IN
  /\ q.step = "mark"
  /\ Advance(r, [q EXCEPT !.step = "link", !.seen = {},
                   !.over = {l \in Links : IsRow(links[l]) /\ links[l].user = q.user}])
  /\ UNCHANGED <<users, card, tokens, links>>

\* The first statement of issueResetToken finds the links still open; those a
\* concurrent transaction is about to create are not among them.
MarkLinks(r) ==
  LET q == req[r] IN
  /\ q.step = "mark"
  /\ Advance(r, [q EXCEPT !.step = "link", !.seen = OpenLinks(q.user),
                   !.over = {l \in Links : IsRow(links[l]) /\ links[l].user = q.user}])
  /\ UNCHANGED <<users, card, tokens, links>>

\* Its second statement and the commit, which a deleted user refuses.
CreateLink(r) ==
  LET q == req[r] IN
  /\ q.step = "link"
  /\ Reply(r)
  /\ \/ ~ IsRow(users[q.user]) /\ UNCHANGED links
     \/ /\ IsRow(users[q.user])
        /\ \E l \in NewId(links) :
             links' = [m \in Links |->
               IF m = l THEN [user |-> q.user, used |-> FALSE, over |-> q.over]
               ELSE IF m \in q.seen THEN [links[m] EXCEPT !.used = TRUE]
               ELSE links[m]]
  /\ UNCHANGED <<users, card, tokens>>

ReadLink(r) ==
  /\ \E l \in Links :
       /\ IsRow(links[l]) /\ ~ links[l].used
       /\ Begin(r, "reset", [Idle EXCEPT !.op = "reset", !.step = "use",
                               !.user = links[l].user, !.link = l])
  /\ UNCHANGED <<users, card, tokens, links>>

\* The conditional mark: of two clicks on one link the second is refused.
UseLink(r) ==
  LET q == req[r]
      open == IsRow(links[q.link]) /\ ~ links[q.link].used
  IN /\ q.step = "use"
     /\ \/ /\ open
           /\ links' = [links EXCEPT ![q.link].used = TRUE]
           /\ Advance(r, [q EXCEPT !.step = "password"])
        \/ ~ open /\ Reply(r) /\ UNCHANGED links
     /\ UNCHANGED <<users, card, tokens>>

\* Mutant of WritePassword: the open sessions are left open.
WritePasswordOnly(r) ==
  LET q == req[r] IN
  /\ q.step = "password" /\ IsRow(users[q.user])
  /\ users' = [users EXCEPT ![q.user].pwd = q.link]
  /\ Reply(r)
  /\ UNCHANGED <<card, tokens, links>>

WritePassword(r) ==
  LET q == req[r] IN
  /\ q.step = "password"
  /\ \/ /\ IsRow(users[q.user])
        /\ users' = [users EXCEPT ![q.user].pwd = q.link]
        /\ Advance(r, [q EXCEPT !.step = "revoke"])
     \/ ~ IsRow(users[q.user]) /\ Reply(r) /\ UNCHANGED users
  /\ UNCHANGED <<card, tokens, links>>

-----------------------------------------------------------------------------
(* The account of a professional.                                          *)

\* Mutant of ReadForInvite: whether the card has an account is not looked at.
ReadForInviteAgain(r) ==
  /\ ~ card.deleted
  /\ \E u \in Users :
       /\ users[u] = None
       /\ Begin(r, "invite", [Idle EXCEPT !.op = "invite", !.step = "account", !.user = u])
  /\ UNCHANGED <<users, card, tokens, links>>

\* invite: the card has no account, and the address, any the owner types, is
\* that of no user.
ReadForInvite(r) ==
  /\ card.user = None /\ ~ card.deleted
  /\ \E u \in Users :
       /\ users[u] = None
       /\ Begin(r, "invite", [Idle EXCEPT !.op = "invite", !.step = "account", !.user = u])
  /\ UNCHANGED <<users, card, tokens, links>>

\* Its transaction writes the card by id, whatever happened to it since; only
\* an address that was taken meanwhile refuses it.  Of two invitations to two
\* addresses the second takes the card from the first.  The account is late
\* if a removal had read the card, contested if another invitation had.
\* Then the mail, as in resend.
CommitInvite(r) ==
  LET q == req[r] IN
  /\ q.step = "account"
  /\ \/ /\ users[q.user] = None
        /\ users' = [users EXCEPT ![q.user] =
             [active |-> TRUE, pwd |-> "random",
              late |-> card.deleted \/ \E s \in Requests : req[s].step = "card",
              contested |-> \E s \in Requests \ {r} : req[s].step = "account"]]
        /\ card' = [card EXCEPT !.user = q.user]
        /\ Advance(r, [q EXCEPT !.op = "mail", !.step = "find"])
     \/ users[q.user] # None /\ Reply(r) /\ UNCHANGED <<users, card>>
  /\ UNCHANGED <<tokens, links>>

ReadForResend(r) ==
  /\ card.user # None /\ ~ card.deleted
  /\ Begin(r, "resend", [Idle EXCEPT !.op = "mail", !.step = "find", !.user = card.user])
  /\ UNCHANGED <<users, card, tokens, links>>

\* sendInvitation looks for the user once more, and then issues a link.
SendInvitation(r) ==
  /\ req[r].step = "find"
  /\ \/ IsRow(users[req[r].user]) /\ Advance(r, [req[r] EXCEPT !.step = "mark"])
     \/ ~ IsRow(users[req[r].user]) /\ Reply(r)
  /\ UNCHANGED <<users, card, tokens, links>>

ReadForRevoke(r) ==
  /\ card.user # None /\ ~ card.deleted
  /\ Begin(r, "revoke", [Idle EXCEPT !.op = "revoke", !.step = "access", !.user = card.user])
  /\ UNCHANGED <<users, card, tokens, links>>

\* revokeAccess deletes the user and, with it, its tokens and its links.
CommitRevoke(r) ==
  LET u == req[r].user
      Without(table) == [x \in DOMAIN table |->
        IF IsRow(table[x]) /\ table[x].user = u THEN Gone ELSE table[x]]
  IN /\ req[r].step = "access"
     /\ \/ /\ IsRow(users[u])
           /\ users' = [users EXCEPT ![u] = Gone]
           /\ tokens' = Without(tokens) /\ links' = Without(links)
           /\ card' = [card EXCEPT !.user = IF @ = u THEN None ELSE @]
        \/ ~ IsRow(users[u]) /\ UNCHANGED <<users, tokens, links, card>>
     /\ Reply(r)

ReadForRemove(r) ==
  /\ ~ card.deleted
  /\ Begin(r, "remove", [Idle EXCEPT !.op = "remove", !.step = "card", !.user = card.user])
  /\ UNCHANGED <<users, card, tokens, links>>

\* Mutant of CommitRemove: the account stays active.
CommitRemoveCardOnly(r) ==
  /\ req[r].step = "card"
  /\ card' = [card EXCEPT !.deleted = TRUE]
  /\ Reply(r)
  /\ UNCHANGED <<users, tokens, links>>

\* remove hides the card and deactivates the account it had read, in one
\* transaction that fails as a whole if that account is no more.
CommitRemove(r) ==
  LET u == req[r].user IN
  /\ req[r].step = "card"
  /\ \/ /\ u = None
        /\ card' = [card EXCEPT !.deleted = TRUE]
        /\ UNCHANGED users
     \/ /\ u # None /\ IsRow(users[u])
        /\ card' = [card EXCEPT !.deleted = TRUE]
        /\ users' = [users EXCEPT ![u].active = FALSE]
     \/ u # None /\ ~ IsRow(users[u]) /\ UNCHANGED <<users, card>>
  /\ Reply(r)
  /\ UNCHANGED <<tokens, links>>

Next ==
  \/ \E r \in Requests :
       \/ ReadForLogin(r) \/ ReadForRefresh(r) \/ Issue(r) \/ Rotate(r) \/ RevokeAll(r)
       \/ ReadForForgot(r) \/ MarkLinks(r) \/ CreateLink(r)
       \/ ReadLink(r) \/ UseLink(r) \/ WritePassword(r)
       \/ ReadForInvite(r) \/ CommitInvite(r) \/ ReadForResend(r) \/ SendInvitation(r)
       \/ ReadForRevoke(r) \/ CommitRevoke(r)
       \/ ReadForRemove(r) \/ CommitRemove(r)
  \/ Logout

Spec == Init /\ [][Next]_vars
-----------------------------------------------------------------------------
(* Properties.                                                             *)

Request ==
  [op : {"none", "login", "refresh", "mail", "reset", "invite", "revoke", "remove"},
   step : {"idle", "issue", "rotate", "revoke", "find", "mark", "link", "use", "password",
           "account", "access", "card"},
   user : Users \cup {None}, pwd : Password \cup {None},
   old : Tokens \cup {None}, new : Tokens \cup {None}, link : Links \cup {None},
   seen : SUBSET Links, over : SUBSET Links, stale : BOOLEAN]

\* Tables and requests have their shape.
TypeOK ==
  /\ users \in [Users -> User \cup {None, Gone}]
  /\ card \in [user : Users \cup {None}, deleted : BOOLEAN]
  /\ tokens \in [Tokens -> Token \cup {None, Gone}]
  /\ links \in [Links -> Link \cup {None, Gone}]
  /\ req \in [Requests -> Request]

\* Of the tokens that descend from one login, clients never hold two that
\* work: however the refreshes of one token interleave, one of them wins and
\* the sessions the losers created are never handed out.
OneLivePerFamily ==
  \A s, t \in Tokens :
    /\ LiveToken(s) /\ tokens[s].answered
    /\ LiveToken(t) /\ tokens[t].answered
    /\ tokens[s].root = tokens[t].root
    => s = t

\* Asking for a link closes those that existed when it began to be issued.
NewestLinkOnly ==
  \A l, m \in Links :
    IsRow(links[l]) /\ IsRow(links[m]) /\ m \in links[l].over => links[m].used

\* A session that works was opened with the password in force, unless the
\* reset has not reached its last write (or was cut off before it), or the
\* session descends from one that was being opened at that very write.
ResetClosesSessions ==
  \A t \in Tokens :
    LiveToken(t) =>
      \/ users[tokens[t].user].pwd = tokens[t].pwd
      \/ tokens[t].late
      \/ \E r \in Requests :
           /\ req[r].op = "reset" /\ req[r].step = "revoke"
           /\ req[r].user = tokens[t].user

\* Every account a removed professional was ever given is closed, whether the
\* card still has it or not; all but those whose invitation overlapped the
\* removal (late), and those whose place on the card went to another
\* invitation that had found it empty too (contested): that account works
\* on, and no later request reaches it through the card.
RemovedIsOut ==
  card.deleted =>
    \A u \in Users \ {Owner} :
      IsRow(users[u]) =>
        \/ ~ users[u].active
        \/ users[u].late
        \/ users[u].contested /\ card.user # u
=============================================================================
