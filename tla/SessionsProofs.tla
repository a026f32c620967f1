---------------------------- MODULE SessionsProofs ----------------------------
(***************************************************************************)
(* Theorems about Sessions for every set of users, tokens, links and       *)
(* requests in flight, whichever handlers are used.                        *)
(***************************************************************************)
EXTENDS Sessions, TLAPS

\* The user is still to have its sessions closed by a reset.
Pending(u) ==
  \E s \in Requests : req[s].op = "reset" /\ req[s].step = "revoke" /\ req[s].user = u

\* What a request knows by its step: whose it is, and what it is about.
Named(q) ==
  /\ q.step \notin {"idle", "card"} => q.user \in Users
  /\ q.step \in {"issue", "rotate", "mark", "link"} => users[q.user] # None
  /\ q.step = "issue" => q.op \in {"login", "refresh"} /\ q.pwd \in Password
  /\ q.step \in {"use", "password"} => q.op = "reset" /\ q.link \in Links

\* A refresh holds a token it was handed out; as long as the user exists, so
\* does that token, and so does the one of the new session.
HoldsOld(q) ==
  (q.op = "refresh" /\ q.step = "issue") \/ q.step = "rotate" =>
    /\ q.old \in Tokens /\ tokens[q.old] # None
    /\ IsRow(users[q.user]) => IsRow(tokens[q.old])
    /\ IsRow(tokens[q.old]) => tokens[q.old].user = q.user /\ tokens[q.old].answered

HoldsNew(q) ==
  q.step = "rotate" =>
    /\ q.new \in Tokens /\ tokens[q.new] # None /\ q.new # q.old
    /\ IsRow(users[q.user]) => IsRow(tokens[q.new])
    /\ IsRow(tokens[q.new]) =>
         /\ tokens[q.new].user = q.user
         /\ IsRow(tokens[q.old]) => tokens[q.new].root = tokens[q.old].root

\* A link about to be issued closes all the earlier ones that are open.
HoldsLinks(q) ==
  q.step = "link" =>
    /\ \A m \in q.seen :
         /\ links[m] # None
         /\ IsRow(links[m]) => links[m].user = q.user
         /\ IsRow(users[q.user]) => IsRow(links[m])
    /\ \A m \in q.over :
         links[m] # None /\ (IsRow(links[m]) /\ ~ links[m].used => m \in q.seen)

\* A session being opened goes by the password in force, or will be known to
\* be late.
IsFresh(q) ==
  q.step = "issue" /\ IsRow(users[q.user]) =>
    \/ q.stale \/ users[q.user].pwd = q.pwd \/ Pending(q.user)
    \/ q.op = "refresh" /\ tokens[q.old].late

\* A removal knows the account of the card, or that account came too late;
\* an invitation that will take the card from an account contests it.
KnowsAccount(q) ==
  card.user # None =>
    /\ q.step = "card" => q.user = card.user \/ users[card.user].late
    /\ q.step = "account" => users[card.user].contested

TokenRow(t) ==
  IsRow(tokens[t]) =>
    /\ IsRow(users[tokens[t].user])
    /\ tokens[tokens[t].root] # None
    /\ \/ tokens[t].revoked \/ tokens[t].late \/ Pending(tokens[t].user)
       \/ users[tokens[t].user].pwd = tokens[t].pwd

LinkRow(l) ==
  IsRow(links[l]) =>
    \A m \in links[l].over :
      links[m] # None /\ (IsRow(links[m]) => links[m].used)

\* An account is that of the card, or another invitation took its place.
CardRow ==
  /\ card.user # None =>
       /\ IsRow(users[card.user])
       /\ card.deleted => ~ users[card.user].active \/ users[card.user].late
  /\ \A u \in Users \ {Owner} :
       IsRow(users[u]) => card.user = u \/ users[u].contested

Requested(q) ==
  /\ Named(q) /\ HoldsOld(q) /\ HoldsNew(q) /\ HoldsLinks(q)
  /\ IsFresh(q) /\ KnowsAccount(q)

IInv ==
  /\ TypeOK
  /\ \A r \in Requests : Requested(req[r])
  /\ \A t \in Tokens : TokenRow(t)
  /\ \A l \in Links : LinkRow(l)
  /\ CardRow
  /\ OneLivePerFamily

USE DEF IsIdle, Begin, Advance, Reply, IsRow

-----------------------------------------------------------------------------
(* Steps that only change what a request knows.                            *)

LEMMA IdleRequested == Idle \in Request /\ Requested(Idle)
BY DEF Idle, Request, Requested, Named, HoldsOld, HoldsNew, HoldsLinks, IsFresh,
       KnowsAccount

\* A request that is not closing sessions for a reset can change: whose
\* sessions are still to be closed stays known.
LEMMA PendingStays ==
  ASSUME TypeOK, NEW r \in Requests, NEW q, req' = [req EXCEPT ![r] = q],
         ~ (req[r].op = "reset" /\ req[r].step = "revoke"), NEW u, Pending(u)
  PROVE  Pending(u)'
<1>1. PICK s \in Requests :
        req[s].op = "reset" /\ req[s].step = "revoke" /\ req[s].user = u
  BY DEF Pending
<1>2. req'[s] = req[s]
  BY <1>1 DEF TypeOK
<1> QED
  BY <1>1, <1>2 DEF Pending

LEMMA OnlyRequest ==
  ASSUME IInv, NEW r \in Requests, NEW q \in Request, Requested(q),
         ~ (req[r].op = "reset" /\ req[r].step = "revoke"),
         req' = [req EXCEPT ![r] = q], UNCHANGED <<users, card, tokens, links>>
  PROVE  IInv'
<1>1. \A u : Pending(u) => Pending(u)'
  BY PendingStays DEF IInv
<1>2. ASSUME NEW p, Requested(p)
      PROVE  Requested(p)'
  BY <1>1, <1>2 DEF Requested, Named, HoldsOld, HoldsNew, HoldsLinks, IsFresh,
                    KnowsAccount
<1>3. \A s \in Requests : Requested(req[s])'
  <2> SUFFICES ASSUME NEW s \in Requests
               PROVE  Requested(req[s])'
    OBVIOUS
  <2>1. req'[s] = IF s = r THEN q ELSE req[s]
    BY DEF IInv, TypeOK
  <2>2. Requested(q)' /\ Requested(req[s])
    BY <1>2 DEF IInv
  <2>3. CASE s = r
    <3>1. req'[s] = q
      BY <2>1, <2>3
    <3> QED
      BY <2>2, <3>1 DEF Requested, Named, HoldsOld, HoldsNew, HoldsLinks, IsFresh,
                        KnowsAccount
  <2>4. CASE s # r
    <3>1. req'[s] = req[s]
      BY <2>1, <2>4
    <3> QED
      BY <1>1, <2>2, <3>1 DEF Requested, Named, HoldsOld, HoldsNew, HoldsLinks,
                              IsFresh, KnowsAccount
  <2> QED
    BY <2>3, <2>4
<1>4. TypeOK'
  BY DEF IInv, TypeOK
<1>5. \A t \in Tokens : TokenRow(t)'
  BY <1>1 DEF IInv, TokenRow
<1>6. \A l \in Links : LinkRow(l)'
  BY DEF IInv, LinkRow
<1>7. CardRow' /\ OneLivePerFamily'
  BY DEF IInv, CardRow, OneLivePerFamily, LiveToken
<1> QED
  BY <1>3, <1>4, <1>5, <1>6, <1>7 DEF IInv

\* A request that is refused leaves everything as it was.
LEMMA Refused ==
  ASSUME IInv, NEW r \in Requests, req[r].step # "revoke", Reply(r),
         UNCHANGED <<users, card, tokens, links>>
  PROVE  IInv'
BY IdleRequested, OnlyRequest

\* The reads of every handler.
LEMMA LoginReads ==
  ASSUME IInv, NEW r \in Requests, ReadForLogin(r)
  PROVE  IInv'
<1>1. PICK u \in Users :
        /\ IsRow(users[u]) /\ users[u].active /\ users[u].pwd # "random"
        /\ Begin(r, "login", [Idle EXCEPT !.op = "login", !.step = "issue",
                                !.user = u, !.pwd = users[u].pwd])
  BY DEF ReadForLogin
<1> DEFINE q == [Idle EXCEPT !.op = "login", !.step = "issue",
                   !.user = u, !.pwd = users[u].pwd]
<1>2. users[u] \in User
  BY <1>1 DEF IInv, TypeOK
<1>3. q \in Request
  BY <1>2 DEF Idle, Request, User
<1>4. Requested(q)
  BY <1>1, <1>2 DEF Idle, User, Requested, Named, HoldsOld, HoldsNew, HoldsLinks,
                    IsFresh, KnowsAccount
<1>5. req[r].op # "reset" /\ req' = [req EXCEPT ![r] = q]
  BY <1>1 DEF Idle
<1> HIDE DEF q
<1> QED
  BY <1>3, <1>4, <1>5, OnlyRequest DEF ReadForLogin

LEMMA RefreshReads ==
  ASSUME IInv, NEW r \in Requests, ReadForRefresh(r)
  PROVE  IInv'
<1>1. PICK t \in Tokens :
        /\ IsRow(tokens[t]) /\ tokens[t].answered
        /\ tokens[t].revoked \/ users[tokens[t].user].active
        /\ Begin(r, "refresh",
                 [Idle EXCEPT !.op = "refresh",
                    !.step = IF tokens[t].revoked THEN "revoke" ELSE "issue",
                    !.user = tokens[t].user, !.pwd = tokens[t].pwd, !.old = t])
  BY DEF ReadForRefresh
<1> DEFINE step == IF tokens[t].revoked THEN "revoke" ELSE "issue"
<1> DEFINE q == [Idle EXCEPT !.op = "refresh", !.step = step,
                   !.user = tokens[t].user, !.pwd = tokens[t].pwd, !.old = t]
<1>2. tokens[t] \in Token /\ TokenRow(t)
  BY <1>1 DEF IInv, TypeOK
<1>3. q \in Request
  BY <1>2 DEF Idle, Request, Token
<1>4. Requested(q)
  <2>1. /\ q.op = "refresh" /\ q.step = step /\ q.user = tokens[t].user
        /\ q.pwd = tokens[t].pwd /\ q.old = t
    BY DEF Idle
  <2>2. Named(q)
    BY <1>1, <1>2, <2>1 DEF Named, Token, TokenRow
  <2>3. HoldsOld(q)
    BY <1>1, <1>2, <2>1 DEF HoldsOld
  <2>4. IsFresh(q)
    BY <1>1, <1>2, <2>1 DEF IsFresh, TokenRow
  <2> QED
    BY <2>1, <2>2, <2>3, <2>4 DEF Requested, HoldsNew, HoldsLinks, KnowsAccount
<1>5. req[r].op # "reset" /\ req' = [req EXCEPT ![r] = q]
  BY <1>1 DEF Idle
<1> HIDE DEF q
<1> QED
  BY <1>3, <1>4, <1>5, OnlyRequest DEF ReadForRefresh

LEMMA ForgotReads ==
  ASSUME IInv, NEW r \in Requests, ReadForForgot(r)
  PROVE  IInv'
<1>1. PICK u \in Users :
        /\ IsRow(users[u])
        /\ Begin(r, "forgot", [Idle EXCEPT !.op = "mail", !.step = "mark", !.user = u])
  BY DEF ReadForForgot
<1> DEFINE q == [Idle EXCEPT !.op = "mail", !.step = "mark", !.user = u]
<1>2. q \in Request /\ Requested(q)
  BY <1>1 DEF Idle, Request, Requested, Named, HoldsOld, HoldsNew, HoldsLinks, IsFresh,
              KnowsAccount
<1>3. req[r].op # "reset" /\ req' = [req EXCEPT ![r] = q]
  BY <1>1 DEF Idle
<1> HIDE DEF q
<1> QED
  BY <1>2, <1>3, OnlyRequest DEF ReadForForgot

LEMMA MarkReads ==
  ASSUME IInv, NEW r \in Requests, MarkLinks(r)
  PROVE  IInv'
<1> DEFINE q == [req[r] EXCEPT !.step = "link", !.seen = OpenLinks(req[r].user),
                   !.over = {l \in Links : IsRow(links[l]) /\ links[l].user = req[r].user}]
<1>1. req[r] \in Request /\ req[r].step = "mark" /\ Requested(req[r])
  BY DEF MarkLinks, IInv, TypeOK
<1>2. q \in Request
  BY <1>1 DEF Request, OpenLinks
<1>3. Requested(q)
  <2>1. /\ q.op = req[r].op /\ q.step = "link" /\ q.user = req[r].user
        /\ q.seen = OpenLinks(q.user)
        /\ q.over = {l \in Links : IsRow(links[l]) /\ links[l].user = q.user}
    BY <1>1 DEF Request
  <2>2. Named(q)
    BY <1>1, <2>1 DEF Requested, Named
  <2>3. HoldsLinks(q)
    BY <2>1 DEF HoldsLinks, OpenLinks
  <2> QED
    BY <2>1, <2>2, <2>3 DEF Requested, HoldsOld, HoldsNew, IsFresh, KnowsAccount
<1>4. req' = [req EXCEPT ![r] = q]
  BY DEF MarkLinks
<1> HIDE DEF q
<1> QED
  BY <1>1, <1>2, <1>3, <1>4, OnlyRequest DEF MarkLinks

LEMMA LinkReads ==
  ASSUME IInv, NEW r \in Requests, ReadLink(r)
  PROVE  IInv'
<1>1. PICK l \in Links :
        /\ IsRow(links[l])
        /\ Begin(r, "reset", [Idle EXCEPT !.op = "reset", !.step = "use",
                                !.user = links[l].user, !.link = l])
  BY DEF ReadLink
<1> DEFINE q == [Idle EXCEPT !.op = "reset", !.step = "use",
                   !.user = links[l].user, !.link = l]
<1>2. links[l] \in Link
  BY <1>1 DEF IInv, TypeOK
<1>3. q \in Request /\ Requested(q)
  BY <1>2 DEF Link, Idle, Request, Requested, Named, HoldsOld, HoldsNew, HoldsLinks,
              IsFresh, KnowsAccount
<1>4. req[r].op # "reset" /\ req' = [req EXCEPT ![r] = q]
  BY <1>1 DEF Idle
<1> HIDE DEF q
<1> QED
  BY <1>3, <1>4, OnlyRequest DEF ReadLink

\* The four reads about the card, and that of sendInvitation.
LEMMA CardReads ==
  ASSUME IInv, NEW r \in Requests,
         \/ ReadForInvite(r) \/ ReadForResend(r) \/ ReadForRevoke(r) \/ ReadForRemove(r)
  PROVE  IInv'
<1>1. PICK op \in {"invite", "mail", "revoke", "remove"},
           step \in {"account", "find", "access", "card"}, u \in Users \cup {None} :
        /\ step # "card" => u \in Users
        /\ step = "card" => u = card.user
        /\ step = "account" => card.user = None
        /\ IsIdle(r)
        /\ req' = [req EXCEPT ![r] = [Idle EXCEPT !.op = op, !.step = step, !.user = u]]
  <2>0. card.user \in Users \cup {None}
    BY DEF IInv, TypeOK
  <2>1. CASE ReadForInvite(r)
    BY <2>0, <2>1 DEF ReadForInvite
  <2>2. CASE ReadForResend(r)
    BY <2>0, <2>2 DEF ReadForResend
  <2>3. CASE ReadForRevoke(r)
    BY <2>0, <2>3 DEF ReadForRevoke
  <2>4. CASE ReadForRemove(r)
    BY <2>0, <2>4 DEF ReadForRemove
  <2> QED
    BY <2>1, <2>2, <2>3, <2>4
<1> DEFINE q == [Idle EXCEPT !.op = op, !.step = step, !.user = u]
<1>2. q \in Request
  BY DEF Idle, Request
<1>3. Requested(q)
  BY <1>1 DEF Idle, Requested, Named, HoldsOld, HoldsNew, HoldsLinks, IsFresh,
              KnowsAccount
<1>4. req[r].op # "reset" /\ req' = [req EXCEPT ![r] = q]
  BY <1>1 DEF Idle
<1>5. UNCHANGED <<users, card, tokens, links>>
  BY DEF ReadForInvite, ReadForResend, ReadForRevoke, ReadForRemove
<1> HIDE DEF q
<1> QED
  BY <1>2, <1>3, <1>4, <1>5, OnlyRequest

LEMMA InvitationReads ==
  ASSUME IInv, NEW r \in Requests, SendInvitation(r)
  PROVE  IInv'
<1>1. req[r] \in Request /\ req[r].step = "find" /\ Requested(req[r])
  BY DEF SendInvitation, IInv, TypeOK
<1>2. CASE Reply(r)
  BY <1>1, <1>2, Refused DEF SendInvitation
<1>3. CASE IsRow(users[req[r].user]) /\ Advance(r, [req[r] EXCEPT !.step = "mark"])
  <2> DEFINE q == [req[r] EXCEPT !.step = "mark"]
  <2>1. q \in Request /\ q.step = "mark" /\ q.user = req[r].user
    BY <1>1 DEF Request
  <2>2. Requested(q)
    BY <1>1, <1>3, <2>1 DEF Requested, Named, HoldsOld, HoldsNew, HoldsLinks, IsFresh,
                            KnowsAccount
  <2>3. req' = [req EXCEPT ![r] = q]
    BY <1>3
  <2> HIDE DEF q
  <2> QED
    BY <1>1, <2>1, <2>2, <2>3, OnlyRequest DEF SendInvitation
<1> QED
  BY <1>2, <1>3 DEF SendInvitation

-----------------------------------------------------------------------------
(* Steps that write tokens.                                                *)

\* Tokens are added, handed out and revoked, and change in nothing else.
Grow ==
  /\ tokens' \in [Tokens -> Token \cup {None, Gone}]
  /\ \A t \in Tokens :
       /\ tokens[t] = Gone => tokens'[t] = Gone
       /\ IsRow(tokens[t]) =>
            /\ IsRow(tokens'[t])
            /\ tokens'[t].user = tokens[t].user /\ tokens'[t].pwd = tokens[t].pwd
            /\ tokens'[t].root = tokens[t].root /\ tokens'[t].late = tokens[t].late
            /\ tokens[t].answered => tokens'[t].answered
            /\ tokens[t].revoked => tokens'[t].revoked

\* What a request holds it goes on holding.
LEMMA GrowKeepsRequests ==
  ASSUME IInv, Assumptions, Grow, UNCHANGED <<users, card, links>>,
         NEW q, Named(q), HoldsOld(q), HoldsNew(q), HoldsLinks(q), KnowsAccount(q)
  PROVE  Named(q)' /\ HoldsOld(q)' /\ HoldsNew(q)' /\ HoldsLinks(q)' /\ KnowsAccount(q)'
<1>1. Named(q)' /\ HoldsLinks(q)' /\ KnowsAccount(q)'
  BY DEF Named, HoldsLinks, KnowsAccount
<1>2. \A t \in Tokens : tokens[t] # None =>
        /\ tokens'[t] # None
        /\ IsRow(tokens'[t]) => IsRow(tokens[t])
  BY DEF Grow, Assumptions
<1>3. HoldsOld(q)'
  BY <1>2 DEF Grow, HoldsOld
<1>4. HoldsNew(q)'
  <2>1. CASE q.step = "rotate"
    <3>1. q.old \in Tokens /\ tokens[q.old] # None
      BY <2>1 DEF HoldsOld
    <3> QED
      BY <1>2, <2>1, <3>1 DEF Grow, HoldsNew
  <2> QED
    BY <2>1 DEF HoldsNew
<1> QED
  BY <1>1, <1>3, <1>4

\* The same for what the tables promise of each other.
LEMMA GrowKeepsTables ==
  ASSUME IInv, Assumptions, Grow, UNCHANGED <<users, card, links>>
  PROVE  /\ \A l \in Links : LinkRow(l)'
         /\ CardRow'
         /\ \A t \in Tokens : IsRow(tokens[t]) =>
              /\ IsRow(users'[tokens'[t].user])
              /\ tokens'[tokens'[t].root] # None
<1>1. (\A l \in Links : LinkRow(l)') /\ CardRow'
  BY DEF IInv, LinkRow, CardRow
<1>2. \A t \in Tokens : tokens[t] # None => tokens'[t] # None
  BY DEF Grow, Assumptions
<1>3. \A t \in Tokens : IsRow(tokens[t]) => tokens[t].root \in Tokens
  BY DEF IInv, TypeOK, Token
<1> QED
  BY <1>1, <1>2, <1>3 DEF IInv, TokenRow, Grow

\* A row that is typed has its fields.
LEMMA TokenFields ==
  ASSUME IInv, NEW t \in Tokens, IsRow(tokens[t])
  PROVE  tokens[t] \in Token /\ TokenRow(t)
BY DEF IInv, TypeOK

LEMMA GrowKeepsRow ==
  ASSUME IInv, Assumptions, Grow, UNCHANGED <<users, card, links>>,
         NEW t \in Tokens, IsRow(tokens[t]),
         Pending(tokens[t].user) => Pending(tokens[t].user)' \/ tokens'[t].revoked
  PROVE  TokenRow(t)'
<1>1. tokens[t] \in Token /\ TokenRow(t)
  BY TokenFields
<1>2. /\ IsRow(tokens'[t]) /\ tokens'[t].user = tokens[t].user
      /\ tokens'[t].pwd = tokens[t].pwd /\ tokens'[t].late = tokens[t].late
      /\ tokens[t].revoked => tokens'[t].revoked
  BY DEF Grow
<1>3. IsRow(users'[tokens'[t].user]) /\ tokens'[tokens'[t].root] # None
  BY GrowKeepsTables
<1> QED
  BY <1>1, <1>2, <1>3 DEF TokenRow

\* A request that has not moved goes on holding what it held.
LEMMA GrowKeepsRequest ==
  ASSUME IInv, Assumptions, Grow, UNCHANGED <<users, card, links>>,
         NEW s \in Requests, req'[s] = req[s],
         req[s].step = "issue" /\ Pending(req[s].user) => Pending(req[s].user)'
  PROVE  Requested(req[s])'
<1> DEFINE q == req[s]
<1>1. Requested(q)
  BY DEF IInv
<1>2. Named(q) /\ HoldsOld(q) /\ HoldsNew(q) /\ HoldsLinks(q) /\ KnowsAccount(q)
  BY <1>1 DEF Requested
<1>3. /\ Named(req[s])' /\ HoldsOld(req[s])' /\ HoldsNew(req[s])'
      /\ HoldsLinks(req[s])' /\ KnowsAccount(req[s])'
  BY <1>2, GrowKeepsRequests DEF Named, HoldsOld, HoldsNew, HoldsLinks, KnowsAccount
<1>4. IsFresh(req[s])'
  <2> SUFFICES ASSUME q.step = "issue", IsRow(users[q.user])
               PROVE  IsFresh(req[s])'
    BY DEF IsFresh
  <2>1. CASE Pending(q.user)
    BY <2>1 DEF IsFresh
  <2>2. CASE q.stale \/ users[q.user].pwd = q.pwd
    BY <2>2 DEF IsFresh
  <2>3. CASE q.op = "refresh" /\ tokens[q.old].late
    BY <1>2, <2>3 DEF IsFresh, HoldsOld, Grow
  <2> QED
    BY <1>1, <2>1, <2>2, <2>3 DEF Requested, IsFresh
<1> QED
  BY <1>3, <1>4 DEF Requested

\* A token marked as revoked, or as handed out, is still a token.
LEMMA LogoutKeepsInv ==
  ASSUME IInv, Assumptions, Logout
  PROVE  IInv'
<1>1. PICK t \in Tokens :
        LiveToken(t) /\ tokens' = [tokens EXCEPT ![t].revoked = TRUE]
  BY DEF Logout
<1>2. tokens[t] \in Token
  BY <1>1, TokenFields DEF LiveToken
<1>3. [tokens[t] EXCEPT !.revoked = TRUE] \in Token
  BY <1>2 DEF Token
<1>4. \A s \in Tokens : tokens'[s] = IF s = t THEN [tokens[t] EXCEPT !.revoked = TRUE]
                                     ELSE tokens[s]
  BY <1>1 DEF IInv, TypeOK
<1>5. Grow
  <2>1. tokens' \in [Tokens -> Token \cup {None, Gone}]
    BY <1>1, <1>3 DEF IInv, TypeOK
  <2> QED
    BY <1>1, <1>2, <1>3, <1>4, <2>1 DEF Grow, LiveToken, Token, Assumptions
<1>6. UNCHANGED <<users, card, links, req>>
  BY DEF Logout
<1>7. \A s \in Requests : Requested(req[s])'
  BY <1>5, <1>6, GrowKeepsRequest DEF Pending
<1>8. \A s \in Tokens : TokenRow(s)'
  <2>1. \A s \in Tokens : IsRow(tokens'[s]) => IsRow(tokens[s])
    BY <1>1, <1>4 DEF LiveToken
  <2>2. \A u : Pending(u) => Pending(u)'
    BY <1>6 DEF Pending
  <2>3. ASSUME NEW s \in Tokens, IsRow(tokens[s])
        PROVE  TokenRow(s)'
    <3>1. Pending(tokens[s].user) => Pending(tokens[s].user)'
      BY <1>5, <1>6, <2>3 DEF Pending, Grow
    <3> QED
      BY <1>5, <1>6, <2>3, <3>1, GrowKeepsRow
  <2> QED
    BY <2>1, <2>3 DEF TokenRow
<1>9. OneLivePerFamily'
  BY <1>2, <1>3, <1>4 DEF IInv, OneLivePerFamily, LiveToken, Token
<1> QED
  BY <1>5, <1>6, <1>7, <1>8, <1>9, GrowKeepsTables DEF IInv, TypeOK, Grow

LEMMA RevokeAllKeepsInv ==
  ASSUME IInv, Assumptions, NEW r \in Requests, RevokeAll(r)
  PROVE  IInv'
<1> DEFINE u == req[r].user
<1> DEFINE Stale(s) == [req[s] EXCEPT !.stale = TRUE]
<1>1. /\ req[r].step = "revoke" /\ UNCHANGED <<users, card, links>>
      /\ tokens' = [t \in Tokens |->
           IF IsRow(tokens[t]) /\ tokens[t].user = u
             THEN [tokens[t] EXCEPT !.revoked = TRUE] ELSE tokens[t]]
      /\ req' = [s \in Requests |->
           IF s = r THEN Idle
           ELSE IF req[s].step = "issue" /\ req[s].user = u THEN Stale(s) ELSE req[s]]
  BY DEF RevokeAll
<1>2. \A t \in Tokens : IsRow(tokens[t]) =>
        tokens[t] \in Token /\ [tokens[t] EXCEPT !.revoked = TRUE] \in Token
  BY TokenFields DEF Token
<1>3. Grow
  <2>1. tokens' \in [Tokens -> Token \cup {None, Gone}]
    BY <1>1, <1>2 DEF IInv, TypeOK
  <2>2. ASSUME NEW t \in Tokens, IsRow(tokens[t])
        PROVE  /\ IsRow(tokens'[t])
               /\ tokens'[t].user = tokens[t].user /\ tokens'[t].pwd = tokens[t].pwd
               /\ tokens'[t].root = tokens[t].root /\ tokens'[t].late = tokens[t].late
               /\ tokens'[t].answered = tokens[t].answered
               /\ tokens[t].revoked => tokens'[t].revoked
    <3>1. tokens[t] \in Token /\ [tokens[t] EXCEPT !.revoked = TRUE] \in Token
      BY <1>2, <2>2
    <3>2. tokens'[t] = tokens[t] \/ tokens'[t] = [tokens[t] EXCEPT !.revoked = TRUE]
      BY <1>1
    <3> QED
      BY <2>2, <3>1, <3>2 DEF Token, Assumptions
  <2>3. \A t \in Tokens : tokens[t] = Gone => tokens'[t] = Gone
    BY <1>1
  <2> QED
    BY <2>1, <2>2, <2>3 DEF Grow
<1>4. \A v : v # u /\ Pending(v) => Pending(v)'
  BY <1>1 DEF Pending
<1>5. \A s \in Requests : Requested(req[s])'
  <2> SUFFICES ASSUME NEW s \in Requests
               PROVE  Requested(req[s])'
    OBVIOUS
  <2>0. req[s] \in Request /\ Requested(req[s])
    BY DEF IInv, TypeOK
  <2>1. CASE s = r
    <3>1. req'[s] = Idle
      BY <1>1, <2>1
    <3> QED
      BY <3>1 DEF Idle, Requested, Named, HoldsOld, HoldsNew, HoldsLinks, IsFresh,
                  KnowsAccount
  <2>2. CASE s # r /\ req[s].step = "issue" /\ req[s].user = u
    <3>1. req'[s] = Stale(s)
      BY <1>1, <2>2
    <3>2. /\ req'[s].op = req[s].op /\ req'[s].step = "issue" /\ req'[s].stale
          /\ req'[s].user = req[s].user /\ req'[s].pwd = req[s].pwd
          /\ req'[s].old = req[s].old
      BY <2>0, <2>2, <3>1 DEF Request
    <3>3. Named(req[s])' /\ HoldsOld(req[s])'
      <4> DEFINE q == req[s]
      <4>1. /\ Named(q) /\ HoldsOld(q) /\ HoldsNew(q) /\ HoldsLinks(q)
            /\ KnowsAccount(q)
        BY <2>0 DEF Requested
      <4> QED
        BY <1>1, <1>3, <2>2, <3>2, <4>1, GrowKeepsRequests DEF Named, HoldsOld
    <3> QED
      BY <3>2, <3>3 DEF Requested, HoldsNew, HoldsLinks, IsFresh, KnowsAccount
  <2>3. CASE s # r /\ ~ (req[s].step = "issue" /\ req[s].user = u)
    <3>1. req'[s] = req[s]
      BY <1>1, <2>3
    <3>2. CASE req[s].user # u
      <4>1. Pending(req[s].user) => Pending(req[s].user)'
        BY <1>1, <3>1, <3>2 DEF Pending
      <4> QED
        BY <1>1, <1>3, <3>1, <4>1, GrowKeepsRequest
    <3>3. CASE req[s].step # "issue"
      BY <1>1, <1>3, <3>1, <3>3, GrowKeepsRequest
    <3> QED
      BY <2>3, <3>2, <3>3
  <2> QED
    BY <2>1, <2>2, <2>3
<1>6. \A t \in Tokens : TokenRow(t)'
  <2> SUFFICES ASSUME NEW t \in Tokens, IsRow(tokens[t])
               PROVE  TokenRow(t)'
    BY <1>1 DEF TokenRow
  <2>1. tokens[t].user = u => tokens'[t].revoked
    BY <1>1, <1>2 DEF Token
  <2> QED
    BY <1>1, <1>3, <1>4, <2>1, GrowKeepsRow
<1>7. OneLivePerFamily'
  <2>1. \A t \in Tokens : LiveToken(t)' => LiveToken(t) /\ tokens'[t] = tokens[t]
    BY <1>1, <1>2 DEF LiveToken, Token
  <2> QED
    BY <2>1 DEF IInv, OneLivePerFamily
<1>8. req' \in [Requests -> Request]
  <2>1. ASSUME NEW s \in Requests
        PROVE  req[s] \in Request /\ Stale(s) \in Request
    <3>1. req[s] \in Request
      BY DEF IInv, TypeOK
    <3> QED
      BY <3>1 DEF Request
  <2> HIDE DEF Stale
  <2> QED
    BY <1>1, <2>1, IdleRequested
<1> QED
  BY <1>1, <1>3, <1>5, <1>6, <1>7, <1>8, GrowKeepsTables DEF IInv, TypeOK, Grow

\* The refresh token of a new session: alone in its family after a login, in
\* that of the token it replaces, and not yet handed out, after a refresh.
LEMMA IssueKeepsInv ==
  ASSUME IInv, Assumptions, NEW r \in Requests, Issue(r)
  PROVE  IInv'
<1> DEFINE q == req[r]
<1> DEFINE login == q.op = "login"
<1> DEFINE row(t) ==
      [user |-> q.user, pwd |-> q.pwd,
       root |-> IF login THEN t ELSE tokens[q.old].root,
       revoked |-> FALSE, answered |-> login,
       late |-> q.stale \/ (~ login /\ tokens[q.old].late)]
<1>1. /\ q \in Request /\ Requested(q) /\ q.step = "issue"
      /\ q.user \in Users /\ q.op \in {"login", "refresh"} /\ q.pwd \in Password
  BY DEF Issue, IInv, TypeOK, Requested, Named
<1>2. CASE ~ IsRow(users[q.user])
  <2>1. Reply(r) /\ UNCHANGED <<users, card, tokens, links>>
    BY <1>2 DEF Issue
  <2> QED
    BY <1>1, <2>1, Refused
<1>3. CASE IsRow(users[q.user])
  <2>1. PICK t \in NewId(tokens) :
          /\ tokens' = [tokens EXCEPT ![t] = row(t)]
          /\ \/ login /\ Reply(r)
             \/ ~ login /\ Advance(r, [q EXCEPT !.step = "rotate", !.new = t])
    BY <1>3 DEF Issue
  <2>2. t \in Tokens /\ tokens[t] = None /\ UNCHANGED <<users, card, links>>
    BY DEF NewId, IInv, TypeOK, Issue
  <2>3. ~ login => /\ q.old \in Tokens /\ IsRow(tokens[q.old]) /\ tokens[q.old] \in Token
                   /\ tokens[q.old].user = q.user /\ tokens[q.old].answered
                   /\ TokenRow(q.old) /\ q.old # t
    <3>1. ~ login => q.old \in Tokens /\ IsRow(tokens[q.old])
                     /\ tokens[q.old].user = q.user /\ tokens[q.old].answered
      BY <1>1, <1>3 DEF Requested, HoldsOld
    <3> QED
      BY <2>2, <3>1, TokenFields
  <2>4. row(t) \in Token
    BY <1>1, <2>2, <2>3 DEF Token, Request
  <2>5. IsRow(row(t))
    BY <2>4 DEF Assumptions
  <2>6. \A s \in Tokens : tokens'[s] = IF s = t THEN row(t) ELSE tokens[s]
    BY <2>1 DEF IInv, TypeOK
  <2>7. Grow
    <3>1. tokens' \in [Tokens -> Token \cup {None, Gone}]
      BY <2>1, <2>4 DEF IInv, TypeOK
    <3> HIDE DEF row
    <3> QED
      BY <2>2, <2>6, <3>1 DEF Grow, Assumptions
  <2>8. \A u : Pending(u) => Pending(u)'
    BY <1>1, <2>1, PendingStays DEF IInv
  <2>9. \A s \in Requests \ {r} : req'[s] = req[s]
    BY <2>1 DEF IInv, TypeOK
  <2>10. ASSUME NEW s \in Requests \ {r}
         PROVE  Requested(req[s])'
    <3>1. Pending(req[s].user) => Pending(req[s].user)'
      BY <2>8, <2>9 DEF Pending
    <3> QED
      BY <2>2, <2>7, <2>9, <3>1, GrowKeepsRequest
  <2>11. Requested(req[r])' /\ req' \in [Requests -> Request]
    <3>1. CASE login
      <4>1. req'[r] = Idle /\ req' = [req EXCEPT ![r] = Idle]
        BY <2>1, <3>1 DEF IInv, TypeOK
      <4>2. Requested(req[r])'
        BY <4>1 DEF Idle, Requested, Named, HoldsOld, HoldsNew, HoldsLinks, IsFresh,
                    KnowsAccount
      <4> QED
        BY <4>1, <4>2, IdleRequested DEF IInv, TypeOK
    <3>2. CASE ~ login
      <4> DEFINE p == [q EXCEPT !.step = "rotate", !.new = t]
      <4>1. req' = [req EXCEPT ![r] = p] /\ req'[r] = p
        BY <2>1, <3>2 DEF IInv, TypeOK
      <4>2. /\ p \in Request /\ p.step = "rotate" /\ p.user = q.user /\ p.old = q.old
            /\ p.new = t /\ p.op = q.op
        BY <1>1, <2>2 DEF Request
      <4> HIDE DEF p
      <4>3. tokens'[t] = row(t) /\ tokens'[q.old] = tokens[q.old]
        BY <2>2, <2>3, <2>6, <3>2
      <4>4. Named(req[r])'
        BY <1>1, <2>2, <4>1, <4>2 DEF Requested, Named
      <4>5. HoldsOld(req[r])'
        BY <2>3, <3>2, <4>1, <4>2, <4>3 DEF HoldsOld
      <4>6. HoldsNew(req[r])'
        <5>1. /\ row(t).user = q.user /\ row(t).root = tokens[q.old].root
              /\ row(t) # None
          BY <2>5, <3>2
        <5> HIDE DEF row
        <5> QED
          BY <2>2, <2>3, <2>5, <3>2, <4>1, <4>2, <4>3, <5>1 DEF HoldsNew
      <4> QED
        BY <4>1, <4>2, <4>4, <4>5, <4>6
           DEF Requested, HoldsLinks, IsFresh, KnowsAccount, IInv, TypeOK
    <3> QED
      BY <3>1, <3>2
  <2>12. TokenRow(t)'
    <3>1. tokens'[t] = row(t)
      BY <2>2, <2>6
    <3>2. IsRow(users'[q.user])
      BY <1>3, <2>2
    <3>3. tokens'[row(t).root] # None
      <4>1. CASE login
        BY <2>5, <3>1, <4>1
      <4>2. CASE ~ login
        <5>1. tokens[q.old].root \in Tokens /\ tokens[tokens[q.old].root] # None
          BY <2>3, <4>2 DEF Token, TokenRow
        <5> QED
          BY <2>2, <2>6, <4>2, <5>1
      <4> QED
        BY <4>1, <4>2
    <3>4. \/ row(t).late \/ users[q.user].pwd = q.pwd \/ Pending(q.user)
      BY <1>1, <1>3 DEF Requested, IsFresh
    <3>5. Pending(q.user) => Pending(tokens[t].user)'
      BY <2>8, <3>1 DEF Pending
    <3>6. row(t).user = q.user /\ row(t).pwd = q.pwd
      OBVIOUS
    <3> HIDE DEF row
    <3> QED
      BY <2>2, <3>1, <3>2, <3>3, <3>4, <3>5, <3>6 DEF TokenRow
  <2>13. ASSUME NEW s \in Tokens \ {t}
         PROVE  TokenRow(s)'
    <3>1. CASE IsRow(tokens[s])
      <4>1. Pending(tokens[s].user) => Pending(tokens[s].user)'
        BY <2>6, <2>8 DEF Pending
      <4> QED
        BY <2>2, <2>7, <3>1, <4>1, GrowKeepsRow
    <3>2. CASE ~ IsRow(tokens[s])
      BY <2>6, <3>2 DEF TokenRow
    <3> QED
      BY <3>1, <3>2
  <2>14. OneLivePerFamily'
    <3>1. \A s \in Tokens \ {t} : LiveToken(s)' => LiveToken(s) /\ tokens'[s] = tokens[s]
      BY <2>6 DEF LiveToken
    <3>2. tokens'[t].answered => \A s \in Tokens \ {t} :
            LiveToken(s) => tokens[s].root # tokens'[t].root
      <4>1. tokens'[t] = row(t)
        BY <2>2, <2>6
      <4>2. row(t).answered => row(t).root = t
        OBVIOUS
      <4>3. \A s \in Tokens : LiveToken(s) => tokens[s].root # t
        BY <2>2 DEF LiveToken, IInv, TokenRow
      <4> QED
        BY <4>1, <4>2, <4>3
    <3> QED
      BY <2>2, <3>1, <3>2 DEF IInv, OneLivePerFamily
  <2> QED
    BY <2>2, <2>7, <2>10, <2>11, <2>12, <2>13, <2>14, GrowKeepsTables
       DEF IInv, TypeOK, Grow
<1> QED
  BY <1>2, <1>3

\* Of the refreshes of one token the first hands its own out; the others do
\* not.
LEMMA RotateKeepsInv ==
  ASSUME IInv, Assumptions, NEW r \in Requests, Rotate(r)
  PROVE  IInv'
<1> DEFINE q == req[r]
<1>1. q \in Request /\ Requested(q) /\ q.step = "rotate" /\ q.user \in Users
  BY DEF Rotate, IInv, TypeOK, Requested, Named
<1>2. CASE ~ LiveToken(q.old)
  <2> DEFINE p == [q EXCEPT !.step = "revoke"]
  <2>1. p \in Request /\ p.step = "revoke" /\ p.user = q.user
    BY <1>1 DEF Request
  <2>2. req' = [req EXCEPT ![r] = p] /\ UNCHANGED <<users, card, tokens, links>>
    BY <1>2 DEF Rotate
  <2> HIDE DEF p
  <2>3. Requested(p)
    BY <1>1, <2>1 DEF Requested, Named, HoldsOld, HoldsNew, HoldsLinks, IsFresh,
                      KnowsAccount
  <2> QED
    BY <1>1, <2>1, <2>2, <2>3, OnlyRequest
<1>3. CASE LiveToken(q.old)
  <2> DEFINE old == [tokens[q.old] EXCEPT !.revoked = TRUE]
  <2> DEFINE new == [tokens[q.new] EXCEPT !.answered = TRUE]
  <2>1. /\ tokens' = [tokens EXCEPT ![q.old].revoked = TRUE, ![q.new].answered = TRUE]
        /\ Reply(r) /\ UNCHANGED <<users, card, links>>
    BY <1>3 DEF Rotate
  <2>2. /\ q.old \in Tokens /\ tokens[q.old] \in Token /\ TokenRow(q.old)
        /\ IsRow(tokens[q.old]) /\ tokens[q.old].answered
        /\ tokens[q.old].user = q.user
    <3>1. q.old \in Tokens /\ IsRow(tokens[q.old])
          /\ tokens[q.old].user = q.user /\ tokens[q.old].answered
      BY <1>1, <1>3 DEF Requested, HoldsOld, LiveToken
    <3> QED
      BY <3>1, TokenFields
  <2>3. /\ q.new \in Tokens /\ tokens[q.new] \in Token /\ IsRow(tokens[q.new])
        /\ tokens[q.new].root = tokens[q.old].root /\ q.new # q.old
    <3>1. IsRow(users[q.user])
      BY <2>2 DEF TokenRow
    <3>2. q.new \in Tokens /\ IsRow(tokens[q.new]) /\ q.new # q.old
          /\ tokens[q.new].root = tokens[q.old].root
      BY <1>1, <2>2, <3>1 DEF Requested, HoldsNew
    <3> QED
      BY <3>2, TokenFields
  <2>4. old \in Token /\ new \in Token /\ IsRow(old) /\ IsRow(new)
    <3>1. old \in Token /\ new \in Token
      BY <2>2, <2>3 DEF Token
    <3> HIDE DEF old, new
    <3> QED
      BY <3>1 DEF Assumptions
  <2>5. tokens' = [tokens EXCEPT ![q.old] = old, ![q.new] = new]
    BY <2>1, <2>2, <2>3 DEF IInv, TypeOK
  <2>6. \A s \in Tokens : tokens'[s] = IF s = q.old THEN old
                                       ELSE IF s = q.new THEN new ELSE tokens[s]
    <3> HIDE DEF old, new
    <3> QED
      BY <2>3, <2>5 DEF IInv, TypeOK
  <2>7. /\ old.user = tokens[q.old].user /\ old.pwd = tokens[q.old].pwd
        /\ old.root = tokens[q.old].root /\ old.late = tokens[q.old].late
        /\ old.answered = tokens[q.old].answered /\ old.revoked
    BY <2>2 DEF Token
  <2>8. /\ new.user = tokens[q.new].user /\ new.pwd = tokens[q.new].pwd
        /\ new.root = tokens[q.new].root /\ new.late = tokens[q.new].late
        /\ new.answered /\ new.revoked = tokens[q.new].revoked
    BY <2>3 DEF Token
  <2> HIDE DEF old, new
  <2>9. Grow
    <3>1. tokens' \in [Tokens -> Token \cup {None, Gone}]
      BY <2>4, <2>5 DEF IInv, TypeOK
    <3> QED
      BY <2>2, <2>3, <2>4, <2>6, <2>7, <2>8, <3>1 DEF Grow, Assumptions
  <2>10. \A u : Pending(u) => Pending(u)'
    BY <1>1, <2>1, PendingStays DEF IInv
  <2>11. \A s \in Requests : req'[s] = IF s = r THEN Idle ELSE req[s]
    BY <2>1 DEF IInv, TypeOK
  <2>12. ASSUME NEW s \in Requests
         PROVE  Requested(req[s])'
    <3>1. CASE s = r
      <4>1. req'[s] = Idle
        BY <2>11, <3>1
      <4> QED
        BY <4>1 DEF Idle, Requested, Named, HoldsOld, HoldsNew, HoldsLinks, IsFresh,
                    KnowsAccount
    <3>2. CASE s # r
      <4>1. req'[s] = req[s]
        BY <2>11, <3>2
      <4>2. Pending(req[s].user) => Pending(req[s].user)'
        BY <2>10, <4>1 DEF Pending
      <4> QED
        BY <2>1, <2>9, <4>1, <4>2, GrowKeepsRequest
    <3> QED
      BY <3>1, <3>2
  <2>13. ASSUME NEW s \in Tokens
         PROVE  TokenRow(s)'
    <3>1. CASE IsRow(tokens[s])
      <4>1. Pending(tokens[s].user) => Pending(tokens[s].user)'
        BY <2>9, <2>10, <3>1 DEF Pending, Grow
      <4> QED
        BY <2>1, <2>9, <3>1, <4>1, GrowKeepsRow
    <3>2. CASE ~ IsRow(tokens[s])
      BY <2>2, <2>3, <2>6, <3>2 DEF TokenRow
    <3> QED
      BY <3>1, <3>2
  <2>14. OneLivePerFamily'
    <3>1. \A s \in Tokens : LiveToken(s)' =>
            LiveToken(s) /\ s # q.old /\ tokens'[s].root = tokens[s].root
            /\ (s # q.new => tokens'[s] = tokens[s])
      BY <2>2, <2>3, <2>6, <2>7, <2>8 DEF LiveToken
    <3>2. \A s \in Tokens \ {q.old, q.new} :
            LiveToken(s) /\ tokens[s].answered => tokens[s].root # tokens[q.new].root
      BY <1>3, <2>2, <2>3 DEF IInv, OneLivePerFamily
    <3> QED
      BY <2>3, <3>1, <3>2 DEF IInv, OneLivePerFamily
  <2>15. req' \in [Requests -> Request]
    BY <2>1, IdleRequested DEF IInv, TypeOK
  <2> QED
    BY <2>1, <2>9, <2>12, <2>13, <2>14, <2>15, GrowKeepsTables DEF IInv, TypeOK, Grow
<1> QED
  BY <1>2, <1>3

-----------------------------------------------------------------------------
(* Steps that write links.                                                 *)

\* Links are added and closed, and change in nothing else.
Close ==
  /\ links' \in [Links -> Link \cup {None, Gone}]
  /\ \A l \in Links :
       /\ links[l] = Gone => links'[l] = Gone
       /\ IsRow(links[l]) =>
            /\ IsRow(links'[l])
            /\ links'[l].user = links[l].user /\ links'[l].over = links[l].over
            /\ links[l].used => links'[l].used

\* It is enough to look at the links that are new.
LEMMA CloseKeepsInv ==
  ASSUME IInv, Assumptions, NEW r \in Requests, NEW p \in Request, Requested(p),
         ~ (req[r].op = "reset" /\ req[r].step = "revoke"),
         req' = [req EXCEPT ![r] = p], UNCHANGED <<users, card, tokens>>, Close,
         \A l \in Links : links[l] = None => LinkRow(l)'
  PROVE  IInv'
<1>1. \A u : Pending(u) => Pending(u)'
  BY PendingStays DEF IInv
<1>2. \A l \in Links : links[l] # None =>
        links'[l] # None /\ (IsRow(links'[l]) => IsRow(links[l]))
  BY DEF Close, Assumptions
<1>3. ASSUME NEW q \in Request, Requested(q)
      PROVE  /\ Named(q)' /\ HoldsOld(q)' /\ HoldsNew(q)' /\ HoldsLinks(q)'
             /\ IsFresh(q)' /\ KnowsAccount(q)'
  <2>1. Named(q)' /\ HoldsOld(q)' /\ HoldsNew(q)' /\ KnowsAccount(q)'
    BY <1>3 DEF Requested, Named, HoldsOld, HoldsNew, KnowsAccount
  <2>2. IsFresh(q)'
    BY <1>1, <1>3 DEF Requested, IsFresh
  <2>3. HoldsLinks(q)'
    <3>1. q.seen \subseteq Links /\ q.over \subseteq Links
      BY DEF Request
    <3> QED
      BY <1>2, <1>3, <3>1 DEF Requested, HoldsLinks, Close
  <2> QED
    BY <2>1, <2>2, <2>3
<1>4. ASSUME NEW s \in Requests
      PROVE  Requested(req[s])'
  <2>1. req'[s] = IF s = r THEN p ELSE req[s]
    BY DEF IInv, TypeOK
  <2>2. PICK q \in Request : q = req'[s] /\ Requested(q)
    BY <2>1 DEF IInv, TypeOK
  <2>3. /\ Named(q)' /\ HoldsOld(q)' /\ HoldsNew(q)' /\ HoldsLinks(q)'
        /\ IsFresh(q)' /\ KnowsAccount(q)'
    BY <1>3, <2>2
  <2> QED
    BY <2>2, <2>3 DEF Requested, Named, HoldsOld, HoldsNew, HoldsLinks, IsFresh,
                      KnowsAccount
<1>5. \A t \in Tokens : TokenRow(t)'
  BY <1>1 DEF IInv, TokenRow
<1>6. CardRow' /\ OneLivePerFamily'
  BY DEF IInv, CardRow, OneLivePerFamily, LiveToken
<1>7. ASSUME NEW l \in Links, links[l] # None, IsRow(links'[l])
      PROVE  LinkRow(l)'
  <2>1. IsRow(links[l]) /\ links[l] \in Link /\ links'[l].over = links[l].over
    BY <1>2, <1>7 DEF Close, IInv, TypeOK
  <2>2. links[l].over \subseteq Links
    BY <2>1 DEF Link
  <2> QED
    BY <1>2, <2>1, <2>2 DEF IInv, LinkRow, Close
<1>8. \A l \in Links : LinkRow(l)'
  BY <1>7 DEF LinkRow
<1> QED
  BY <1>4, <1>5, <1>6, <1>8 DEF IInv, TypeOK, Close

LEMMA CreateKeepsInv ==
  ASSUME IInv, Assumptions, NEW r \in Requests, CreateLink(r)
  PROVE  IInv'
<1> DEFINE q == req[r]
<1>1. q \in Request /\ Requested(q) /\ q.step = "link" /\ q.user \in Users
      /\ q.seen \subseteq Links /\ q.over \subseteq Links
  BY DEF CreateLink, IInv, TypeOK, Requested, Named, Request
<1>2. CASE UNCHANGED links
  BY <1>1, <1>2, Refused DEF CreateLink
<1>3. CASE IsRow(users[q.user]) /\ ~ UNCHANGED links
  <2>1. PICK l \in NewId(links) :
          links' = [m \in Links |->
            IF m = l THEN [user |-> q.user, used |-> FALSE, over |-> q.over]
            ELSE IF m \in q.seen THEN [links[m] EXCEPT !.used = TRUE]
            ELSE links[m]]
    BY <1>3 DEF CreateLink
  <2> DEFINE row == [user |-> q.user, used |-> FALSE, over |-> q.over]
  <2>2. l \in Links /\ links[l] = None
    BY DEF NewId, IInv, TypeOK
  <2>3. row \in Link /\ IsRow(row) /\ row.over = q.over
    <3>1. row \in Link
      BY <1>1 DEF Link
    <3> QED
      BY <3>1 DEF Assumptions
  <2>4. ASSUME NEW m \in q.seen
        PROVE  /\ IsRow(links[m]) /\ links[m] \in Link /\ m # l
               /\ [links[m] EXCEPT !.used = TRUE] \in Link
    <3>1. IsRow(links[m]) /\ m \in Links
      BY <1>1, <1>3 DEF Requested, HoldsLinks
    <3>2. links[m] \in Link
      BY <3>1 DEF IInv, TypeOK
    <3> QED
      BY <2>2, <3>1, <3>2 DEF Link
  <2>5. \A m \in q.seen : /\ IsRow(links'[m]) /\ links'[m].used
                          /\ links'[m].user = links[m].user
                          /\ links'[m].over = links[m].over
    BY <1>1, <2>1, <2>4 DEF Link, Assumptions
  <2>6. \A m \in Links \ {l} : m \notin q.seen => links'[m] = links[m]
    BY <2>1
  <2>7. links'[l] = row
    BY <2>1, <2>2
  <2> HIDE DEF row
  <2>8. Close
    <3>1. links' \in [Links -> Link \cup {None, Gone}]
      <4>1. \A m \in Links : links'[m] \in Link \cup {None, Gone}
        BY <2>1, <2>3, <2>4, <2>7 DEF IInv, TypeOK
      <4>2. links' = [m \in Links |-> links'[m]]
        BY <2>1
      <4> QED
        BY <4>1, <4>2
    <3> QED
      BY <2>2, <2>4, <2>5, <2>6, <3>1 DEF Close, Assumptions
  <2>9. LinkRow(l)'
    <3> SUFFICES ASSUME NEW m \in q.over
                 PROVE  links'[m] # None /\ (IsRow(links'[m]) => links'[m].used)
      BY <2>3, <2>7 DEF LinkRow
    <3>1. /\ m \in Links /\ links[m] # None /\ m # l
          /\ IsRow(links[m]) /\ ~ links[m].used => m \in q.seen
      BY <1>1, <2>2 DEF Requested, HoldsLinks
    <3>2. CASE m \in q.seen
      BY <2>5, <3>2
    <3>3. CASE m \notin q.seen
      BY <2>6, <3>1, <3>3
    <3> QED
      BY <3>2, <3>3
  <2>10. \A m \in Links : links[m] = None => LinkRow(m)'
    <3>1. ASSUME NEW m \in Links \ {l}, links[m] = None
          PROVE  links'[m] = None
      BY <2>4, <2>6, <3>1
    <3> QED
      BY <2>9, <3>1 DEF LinkRow
  <2>11. /\ req' = [req EXCEPT ![r] = Idle] /\ UNCHANGED <<users, card, tokens>>
    BY DEF CreateLink
  <2> QED
    BY <1>1, <2>8, <2>10, <2>11, IdleRequested, CloseKeepsInv
<1> QED
  BY <1>2, <1>3 DEF CreateLink

LEMMA UseKeepsInv ==
  ASSUME IInv, Assumptions, NEW r \in Requests, UseLink(r)
  PROVE  IInv'
<1> DEFINE q == req[r]
<1> DEFINE p == [q EXCEPT !.step = "password"]
<1>1. q \in Request /\ Requested(q) /\ q.step = "use" /\ q.link \in Links
  BY DEF UseLink, IInv, TypeOK, Requested, Named
<1>2. CASE Reply(r) /\ UNCHANGED links
  BY <1>1, <1>2, Refused DEF UseLink
<1>3. CASE /\ IsRow(links[q.link])
           /\ links' = [links EXCEPT ![q.link].used = TRUE]
           /\ req' = [req EXCEPT ![r] = p]
  <2>1. links[q.link] \in Link /\ [links[q.link] EXCEPT !.used = TRUE] \in Link
    <3>1. links[q.link] \in Link
      BY <1>1, <1>3 DEF IInv, TypeOK
    <3> QED
      BY <3>1 DEF Link
  <2>2. \A l \in Links : links'[l] = IF l = q.link THEN [links[q.link] EXCEPT !.used = TRUE]
                                     ELSE links[l]
    BY <1>3 DEF IInv, TypeOK
  <2>3. Close
    <3>1. links' \in [Links -> Link \cup {None, Gone}]
      BY <1>3, <2>1 DEF IInv, TypeOK
    <3> QED
      BY <1>3, <2>1, <2>2, <3>1 DEF Close, Link, Assumptions
  <2>4. \A l \in Links : links[l] = None => LinkRow(l)'
    BY <1>3, <2>2 DEF LinkRow
  <2>5. /\ p \in Request /\ p.step = "password" /\ p.op = q.op /\ p.user = q.user
        /\ p.link = q.link
    BY <1>1 DEF Request
  <2> HIDE DEF p
  <2>6. Requested(p)
    BY <1>1, <2>5 DEF Requested, Named, HoldsOld, HoldsNew, HoldsLinks, IsFresh,
                      KnowsAccount
  <2> QED
    BY <1>1, <1>3, <2>3, <2>4, <2>5, <2>6, CloseKeepsInv DEF UseLink
<1> QED
  BY <1>2, <1>3 DEF UseLink

-----------------------------------------------------------------------------
(* Steps that write accounts.                                              *)

\* A new password: the sessions of the old one are still to be closed.
LEMMA PasswordKeepsInv ==
  ASSUME IInv, Assumptions, NEW r \in Requests, WritePassword(r)
  PROVE  IInv'
<1> DEFINE q == req[r]
<1> DEFINE p == [q EXCEPT !.step = "revoke"]
<1>1. /\ q \in Request /\ Requested(q) /\ q.step = "password" /\ q.user \in Users
      /\ q.op = "reset" /\ q.link \in Links
  BY DEF WritePassword, IInv, TypeOK, Requested, Named
<1>2. CASE Reply(r) /\ UNCHANGED users
  BY <1>1, <1>2, Refused DEF WritePassword
<1>3. CASE /\ IsRow(users[q.user])
           /\ users' = [users EXCEPT ![q.user].pwd = q.link]
           /\ req' = [req EXCEPT ![r] = p]
  <2> DEFINE row == [users[q.user] EXCEPT !.pwd = q.link]
  <2>1. users[q.user] \in User
    BY <1>1, <1>3 DEF IInv, TypeOK
  <2>2. /\ row \in User /\ row.active = users[q.user].active
        /\ row.late = users[q.user].late /\ row.contested = users[q.user].contested
    BY <1>1, <2>1 DEF User, Password
  <2>3. \A u \in Users : users'[u] = IF u = q.user THEN row ELSE users[u]
    BY <1>3 DEF IInv, TypeOK
  <2>4. /\ p \in Request /\ p.step = "revoke" /\ p.op = "reset" /\ p.user = q.user
    BY <1>1 DEF Request
  <2> HIDE DEF row, p
  <2>5. \A s \in Requests : req'[s] = IF s = r THEN p ELSE req[s]
    BY <1>3 DEF IInv, TypeOK
  <2>6. IsRow(row) /\ \A u \in Users : IsRow(users'[u]) <=> IsRow(users[u])
    BY <1>3, <2>2, <2>3 DEF Assumptions
  <2>7. \A u \in Users : users'[u] # None <=> users[u] # None
    BY <1>3, <2>3, <2>6
  <2>8. UNCHANGED <<card, tokens, links>>
    BY DEF WritePassword
  <2>9. \A u : (u = q.user \/ Pending(u)) => Pending(u)'
    BY <1>1, <2>4, <2>5 DEF Pending
  <2>10. ASSUME NEW s \in Requests
         PROVE  Requested(req[s])'
    <3>1. CASE s = r
      <4>1. req'[s] = p
        BY <2>5, <3>1
      <4> QED
        BY <1>1, <2>4, <4>1 DEF Requested, Named, HoldsOld, HoldsNew, HoldsLinks, IsFresh,
                                KnowsAccount
    <3>2. CASE s # r
      <4>1. req'[s] = req[s] /\ Requested(req[s]) /\ req[s] \in Request
        BY <2>5, <3>2 DEF IInv, TypeOK
      <4>2. Named(req[s])'
        BY <2>7, <2>8, <4>1 DEF Requested, Named
      <4>3. req[s].step \in {"issue", "rotate", "link"} => req[s].user \in Users
        BY <4>1 DEF Requested, Named
      <4>4. HoldsOld(req[s])' /\ HoldsNew(req[s])' /\ HoldsLinks(req[s])'
        BY <2>6, <2>8, <4>1, <4>3 DEF Requested, HoldsOld, HoldsNew, HoldsLinks
      <4>5. KnowsAccount(req[s])'
        BY <2>2, <2>3, <2>8, <4>1 DEF Requested, KnowsAccount, IInv, TypeOK
      <4>6. IsFresh(req[s])'
        <5> SUFFICES ASSUME req[s].step = "issue", IsRow(users[req[s].user]),
                            req[s].user # q.user
                     PROVE  IsFresh(req[s])'
          BY <2>6, <2>9, <4>1, <4>3 DEF IsFresh, Pending
        <5>1. users'[req[s].user] = users[req[s].user]
          BY <2>3, <4>3
        <5>2. Pending(req[s].user) => Pending(req[s].user)'
          BY <2>9, <4>1 DEF Pending
        <5> QED
          BY <2>8, <4>1, <5>1, <5>2 DEF Requested, IsFresh
      <4> QED
        BY <4>2, <4>4, <4>5, <4>6 DEF Requested
    <3> QED
      BY <3>1, <3>2
  <2>11. ASSUME NEW t \in Tokens
         PROVE  TokenRow(t)'
    <3> SUFFICES ASSUME IsRow(tokens[t])
                 PROVE  TokenRow(t)'
      BY <2>8 DEF TokenRow
    <3>1. tokens[t] \in Token /\ TokenRow(t) /\ tokens[t].user \in Users
      BY TokenFields DEF Token
    <3>2. tokens[t].user = q.user \/ Pending(tokens[t].user) => Pending(tokens[t].user)'
      BY <2>8, <2>9 DEF Pending
    <3>3. tokens[t].user # q.user => users'[tokens[t].user] = users[tokens[t].user]
      BY <2>3, <3>1
    <3> QED
      BY <2>6, <2>8, <3>1, <3>2, <3>3 DEF TokenRow
  <2>12. \A l \in Links : LinkRow(l)'
    BY <2>8 DEF IInv, LinkRow
  <2>13. CardRow' /\ OneLivePerFamily'
    BY <2>2, <2>3, <2>6, <2>8 DEF IInv, TypeOK, CardRow, OneLivePerFamily, LiveToken
  <2>14. TypeOK'
    BY <1>3, <2>2, <2>3, <2>4, <2>8 DEF IInv, TypeOK, row
  <2> QED
    BY <2>10, <2>11, <2>12, <2>13, <2>14 DEF IInv
<1> QED
  BY <1>2, <1>3 DEF WritePassword

\* The account of an invitation is new to every request and to every row.
LEMMA InviteKeepsInv ==
  ASSUME IInv, Assumptions, NEW r \in Requests, CommitInvite(r)
  PROVE  IInv'
<1> DEFINE q == req[r]
<1> DEFINE p == [q EXCEPT !.op = "mail", !.step = "find"]
<1>1. q \in Request /\ Requested(q) /\ q.step = "account" /\ q.user \in Users
  BY DEF CommitInvite, IInv, TypeOK, Requested, Named
<1>2. CASE Reply(r) /\ UNCHANGED <<users, card>>
  BY <1>1, <1>2, Refused DEF CommitInvite
<1>3. CASE /\ users[q.user] = None
           /\ users' = [users EXCEPT ![q.user] =
                [active |-> TRUE, pwd |-> "random",
                 late |-> card.deleted \/ \E s \in Requests : req[s].step = "card",
                 contested |-> \E s \in Requests \ {r} : req[s].step = "account"]]
           /\ card' = [card EXCEPT !.user = q.user]
           /\ req' = [req EXCEPT ![r] = p]
  <2> DEFINE row ==
        [active |-> TRUE, pwd |-> "random",
         late |-> card.deleted \/ \E s \in Requests : req[s].step = "card",
         contested |-> \E s \in Requests \ {r} : req[s].step = "account"]
  <2>1. /\ row \in User
        /\ row.late <=> card.deleted \/ \E s \in Requests : req[s].step = "card"
        /\ row.contested <=> \E s \in Requests \ {r} : req[s].step = "account"
    BY DEF User, Password, IInv, TypeOK
  <2>2. users' = [users EXCEPT ![q.user] = row]
    BY <1>3
  <2>3. p \in Request /\ p.step = "find" /\ p.op = "mail" /\ p.user = q.user
    BY <1>1 DEF Request
  <2> HIDE DEF row, p
  <2>4. \A u \in Users : users'[u] = IF u = q.user THEN row ELSE users[u]
    BY <2>2 DEF IInv, TypeOK
  <2>5. \A s \in Requests : req'[s] = IF s = r THEN p ELSE req[s]
    BY <1>3 DEF IInv, TypeOK
  <2>6. IsRow(row)
    BY <2>1 DEF Assumptions
  <2>7. \A u \in Users : users[u] # None => u # q.user /\ users'[u] = users[u]
    BY <1>3, <2>4
  <2>8. UNCHANGED <<tokens, links>> /\ card'.user = q.user /\ card'.deleted = card.deleted
    BY <1>3 DEF CommitInvite, IInv, TypeOK
  <2>9. \A u : Pending(u) => Pending(u)'
    BY <1>1, <2>5 DEF Pending
  <2>10. ASSUME NEW s \in Requests
         PROVE  Requested(req[s])'
    <3>1. CASE s = r
      <4>1. req'[s] = p
        BY <2>5, <3>1
      <4> QED
        BY <1>1, <2>3, <4>1 DEF Requested, Named, HoldsOld, HoldsNew, HoldsLinks, IsFresh,
                                KnowsAccount
    <3>2. CASE s # r
      <4>1. req'[s] = req[s] /\ Requested(req[s]) /\ req[s] \in Request
        BY <2>5, <3>2 DEF IInv, TypeOK
      <4>2. req[s].step \in {"issue", "rotate", "mark", "link"} =>
              req[s].user \in Users /\ users'[req[s].user] = users[req[s].user]
        BY <2>7, <4>1 DEF Requested, Named
      <4>3. Named(req[s])'
        BY <4>1, <4>2 DEF Requested, Named
      <4>4. HoldsOld(req[s])' /\ HoldsNew(req[s])' /\ HoldsLinks(req[s])'
        BY <2>8, <4>1, <4>2 DEF Requested, HoldsOld, HoldsNew, HoldsLinks
      <4>5. Pending(req[s].user) => Pending(req[s].user)'
        BY <2>9, <4>1 DEF Pending
      <4>6. IsFresh(req[s])'
        BY <2>8, <4>1, <4>2, <4>5 DEF Requested, IsFresh
      <4>7. KnowsAccount(req[s])'
        BY <1>1, <2>1, <2>4, <2>8, <3>2, <4>1 DEF KnowsAccount
      <4> QED
        BY <4>3, <4>4, <4>6, <4>7 DEF Requested
    <3> QED
      BY <3>1, <3>2
  <2>11. ASSUME NEW t \in Tokens
         PROVE  TokenRow(t)'
    <3> SUFFICES ASSUME IsRow(tokens[t])
                 PROVE  TokenRow(t)'
      BY <2>8 DEF TokenRow
    <3>1. tokens[t] \in Token /\ TokenRow(t) /\ tokens[t].user \in Users
      BY TokenFields DEF Token
    <3>2. Pending(tokens[t].user) => Pending(tokens[t].user)'
      BY <2>8, <2>9 DEF Pending
    <3>3. users'[tokens[t].user] = users[tokens[t].user]
      BY <2>7, <3>1 DEF TokenRow
    <3> QED
      BY <2>8, <3>1, <3>2, <3>3 DEF TokenRow
  <2>12. \A l \in Links : LinkRow(l)'
    BY <2>8 DEF IInv, LinkRow
  <2>13. CardRow'
    <3>1. /\ users'[q.user] = row /\ card'.user = q.user
          /\ card'.deleted => row.late
      BY <1>1, <2>1, <2>4, <2>8
    <3>2. ASSUME NEW u \in Users \ {Owner}, IsRow(users'[u]), u # q.user
          PROVE  users'[u].contested
      <4>1. users'[u] = users[u] /\ (card.user = u \/ users[u].contested)
        BY <2>4, <3>2 DEF IInv, CardRow
      <4>2. card.user = u => card.user # None
        BY DEF Assumptions
      <4>3. card.user = u => users[u].contested
        BY <1>1, <4>2 DEF Requested, KnowsAccount
      <4> QED
        BY <4>1, <4>3
    <3> QED
      BY <2>6, <3>1, <3>2 DEF CardRow
  <2>15. OneLivePerFamily'
    BY <2>8 DEF IInv, OneLivePerFamily, LiveToken
  <2>14. TypeOK'
    BY <1>1, <1>3, <2>1, <2>2, <2>3, <2>8 DEF IInv, TypeOK
  <2> QED
    BY <2>10, <2>11, <2>12, <2>13, <2>14, <2>15 DEF IInv
<1> QED
  BY <1>2, <1>3 DEF CommitInvite

\* With an account go its sessions and its links.
LEMMA RevokeKeepsInv ==
  ASSUME IInv, Assumptions, NEW r \in Requests, CommitRevoke(r)
  PROVE  IInv'
<1> DEFINE u == req[r].user
<1>1. req[r] \in Request /\ req[r].step = "access" /\ u \in Users
  BY DEF CommitRevoke, IInv, TypeOK, Requested, Named
<1>2. CASE UNCHANGED <<users, tokens, links, card>>
  BY <1>1, <1>2, Refused DEF CommitRevoke
<1>3. CASE ~ UNCHANGED <<users, tokens, links, card>>
  <2>1. /\ users' = [users EXCEPT ![u] = Gone]
        /\ tokens' = [t \in DOMAIN tokens |->
             IF IsRow(tokens[t]) /\ tokens[t].user = u THEN Gone ELSE tokens[t]]
        /\ links' = [l \in DOMAIN links |->
             IF IsRow(links[l]) /\ links[l].user = u THEN Gone ELSE links[l]]
        /\ card' = [card EXCEPT !.user = IF @ = u THEN None ELSE @]
        /\ req' = [req EXCEPT ![r] = Idle]
    BY <1>3 DEF CommitRevoke
  <2>2. \A v \in Users : users'[v] = IF v = u THEN Gone ELSE users[v]
    BY <2>1 DEF IInv, TypeOK
  <2>3. \A t \in Tokens :
          tokens'[t] = IF IsRow(tokens[t]) /\ tokens[t].user = u THEN Gone ELSE tokens[t]
    BY <2>1 DEF IInv, TypeOK
  <2>4. \A l \in Links :
          links'[l] = IF IsRow(links[l]) /\ links[l].user = u THEN Gone ELSE links[l]
    BY <2>1 DEF IInv, TypeOK
  <2>5. \A s \in Requests : req'[s] = IF s = r THEN Idle ELSE req[s]
    BY <2>1 DEF IInv, TypeOK
  <2>6. /\ card'.user = (IF card.user = u THEN None ELSE card.user)
        /\ card'.deleted = card.deleted
    BY <2>1 DEF IInv, TypeOK
  <2>7. Gone # None
    BY DEF Assumptions
  <2>8. \A v : Pending(v) => Pending(v)'
    BY <1>1, <2>5 DEF Pending
  <2>9. ASSUME NEW s \in Requests
        PROVE  Requested(req[s])'
    <3>1. CASE s = r
      <4>1. req'[s] = Idle
        BY <2>5, <3>1
      <4> QED
        BY <4>1 DEF Idle, Requested, Named, HoldsOld, HoldsNew, HoldsLinks, IsFresh,
                    KnowsAccount
    <3>2. CASE s # r
      <4>1. req'[s] = req[s] /\ Requested(req[s]) /\ req[s] \in Request
        BY <2>5, <3>2 DEF IInv, TypeOK
      <4>2. req[s].step \in {"issue", "rotate", "mark", "link"} => req[s].user \in Users
        BY <4>1 DEF Requested, Named
      <4>3. Named(req[s])'
        BY <2>2, <2>7, <4>1, <4>2 DEF Requested, Named
      <4>4. HoldsOld(req[s])'
        BY <2>2, <2>3, <2>7, <4>1, <4>2 DEF Requested, HoldsOld
      <4>5. HoldsNew(req[s])'
        <5> SUFFICES ASSUME req[s].step = "rotate"
                     PROVE  HoldsNew(req[s])'
          BY <4>1 DEF HoldsNew
        <5>1. HoldsNew(req[s]) /\ HoldsOld(req[s])
          BY <4>1 DEF Requested
        <5> QED
          BY <2>2, <2>3, <2>7, <4>1, <4>2, <5>1 DEF HoldsOld, HoldsNew
      <4>6. HoldsLinks(req[s])'
        <5>1. req[s].seen \subseteq Links /\ req[s].over \subseteq Links
          BY <4>1 DEF Request
        <5> QED
          BY <2>2, <2>4, <2>7, <4>1, <4>2, <5>1 DEF Requested, HoldsLinks
      <4>7. IsFresh(req[s])'
        <5> SUFFICES ASSUME req[s].step = "issue", IsRow(users'[req[s].user])
                     PROVE  IsFresh(req[s])'
          BY <4>1 DEF IsFresh
        <5>1. users'[req[s].user] = users[req[s].user] /\ req[s].user # u
          BY <2>2, <4>2
        <5>2. Pending(req[s].user) => Pending(req[s].user)'
          BY <2>8, <4>1 DEF Pending
        <5>3. req[s].op = "refresh" => tokens'[req[s].old] = tokens[req[s].old]
          BY <2>3, <4>1, <5>1 DEF Requested, HoldsOld
        <5> QED
          BY <4>1, <5>1, <5>2, <5>3 DEF Requested, IsFresh
      <4>8. KnowsAccount(req[s])'
        <5>1. card.user # None => card.user \in Users
          BY DEF IInv, TypeOK
        <5> QED
          BY <2>2, <2>6, <4>1, <5>1 DEF Requested, KnowsAccount
      <4> QED
        BY <4>3, <4>4, <4>5, <4>6, <4>7, <4>8 DEF Requested
    <3> QED
      BY <3>1, <3>2
  <2>10. ASSUME NEW t \in Tokens
         PROVE  TokenRow(t)'
    <3> SUFFICES ASSUME IsRow(tokens'[t])
                 PROVE  TokenRow(t)'
      BY DEF TokenRow
    <3>1. IsRow(tokens[t]) /\ tokens[t].user # u /\ tokens'[t] = tokens[t]
      BY <2>3
    <3>2. /\ tokens[t] \in Token /\ TokenRow(t)
          /\ tokens[t].user \in Users /\ tokens[t].root \in Tokens
      BY <3>1, TokenFields DEF Token
    <3>3. Pending(tokens[t].user) => Pending(tokens[t].user)'
      BY <2>8, <3>1 DEF Pending
    <3>4. users'[tokens[t].user] = users[tokens[t].user]
      BY <2>2, <3>1, <3>2
    <3>5. tokens'[tokens[t].root] # None
      BY <2>3, <2>7, <3>1, <3>2 DEF TokenRow
    <3> QED
      BY <3>1, <3>2, <3>3, <3>4, <3>5 DEF TokenRow
  <2>11. ASSUME NEW l \in Links
         PROVE  LinkRow(l)'
    <3> SUFFICES ASSUME IsRow(links'[l])
                 PROVE  LinkRow(l)'
      BY DEF LinkRow
    <3>1. IsRow(links[l]) /\ links'[l] = links[l] /\ links[l] \in Link
      BY <2>4 DEF IInv, TypeOK
    <3>2. links[l].over \subseteq Links
      BY <3>1 DEF Link
    <3> QED
      BY <2>4, <2>7, <3>1, <3>2 DEF IInv, LinkRow
  <2>12. CardRow'
    BY <2>2, <2>6 DEF IInv, TypeOK, CardRow
  <2>13. OneLivePerFamily'
    BY <2>3 DEF IInv, OneLivePerFamily, LiveToken
  <2>14. TypeOK'
    <3>1. tokens' \in [Tokens -> Token \cup {None, Gone}]
      BY <2>1 DEF IInv, TypeOK
    <3>2. links' \in [Links -> Link \cup {None, Gone}]
      BY <2>1 DEF IInv, TypeOK
    <3> QED
      BY <2>1, <3>1, <3>2, IdleRequested DEF IInv, TypeOK
  <2> QED
    BY <2>9, <2>10, <2>11, <2>12, <2>13, <2>14 DEF IInv
<1> QED
  BY <1>2, <1>3

\* The account that is closed is the one of the card, or that one is late.
LEMMA RemoveKeepsInv ==
  ASSUME IInv, Assumptions, NEW r \in Requests, CommitRemove(r)
  PROVE  IInv'
<1> DEFINE u == req[r].user
<1>1. req[r] \in Request /\ req[r].step = "card" /\ Requested(req[r])
      /\ u \in Users \cup {None}
  BY DEF CommitRemove, IInv, TypeOK, Request
<1>2. UNCHANGED <<tokens, links>> /\ req' = [req EXCEPT ![r] = Idle]
  BY DEF CommitRemove
<1>3. card' = card \/ (card'.user = card.user /\ card'.deleted)
  BY DEF CommitRemove, IInv, TypeOK
<1>4. /\ \/ u = None /\ UNCHANGED users
         \/ /\ u \in Users /\ IsRow(users[u])
            /\ users' = [users EXCEPT ![u].active = FALSE]
         \/ UNCHANGED <<users, card>>
      /\ card' \in [user : Users \cup {None}, deleted : BOOLEAN]
  BY <1>1 DEF CommitRemove, IInv, TypeOK
<1>5. ASSUME NEW v \in Users
      PROVE  /\ users'[v] \in User \cup {None, Gone}
             /\ IsRow(users'[v]) <=> IsRow(users[v])
             /\ users'[v] = None <=> users[v] = None
             /\ IsRow(users[v]) => /\ users'[v].pwd = users[v].pwd
                                   /\ users'[v].late = users[v].late
                                   /\ users'[v].contested = users[v].contested
                                   /\ users'[v].active => users[v].active
  <2>1. CASE UNCHANGED users
    BY <2>1 DEF IInv, TypeOK
  <2>2. CASE /\ u \in Users /\ IsRow(users[u])
             /\ users' = [users EXCEPT ![u].active = FALSE]
    <3>1. users[u] \in User
      BY <2>2 DEF IInv, TypeOK
    <3>2. /\ users'[v] = IF v = u THEN [users[u] EXCEPT !.active = FALSE] ELSE users[v]
          /\ users[v] \in User \cup {None, Gone}
      BY <2>2 DEF IInv, TypeOK
    <3>3. [users[u] EXCEPT !.active = FALSE] \in User
      BY <3>1 DEF User
    <3>4. {None, Gone} \cap User = {}
      BY DEF Assumptions
    <3>5. CASE v = u
      <4>1. users'[v] \in User /\ users[v] \in User
        BY <3>1, <3>2, <3>3, <3>5
      <4>2. IsRow(users'[v]) /\ IsRow(users[v])
        BY <3>4, <4>1
      <4>3. /\ users'[v].pwd = users[v].pwd /\ users'[v].late = users[v].late
            /\ users'[v].contested = users[v].contested /\ ~ users'[v].active
        BY <3>1, <3>2, <3>5 DEF User
      <4> QED
        BY <4>1, <4>2, <4>3
    <3>6. CASE v # u
      BY <3>2, <3>6
    <3> QED
      BY <3>5, <3>6
  <2> QED
    BY <1>4, <2>1, <2>2
<1>6. \A s \in Requests : req'[s] = IF s = r THEN Idle ELSE req[s]
  BY <1>2 DEF IInv, TypeOK
<1>7. ASSUME NEW s \in Requests
      PROVE  Requested(req[s])'
  <2>1. CASE s = r
    <3>1. req'[s] = Idle
      BY <1>6, <2>1
    <3> QED
      BY <3>1 DEF Idle, Requested, Named, HoldsOld, HoldsNew, HoldsLinks, IsFresh,
                  KnowsAccount
  <2>2. CASE s # r
    <3>1. req'[s] = req[s] /\ Requested(req[s]) /\ req[s] \in Request
      BY <1>6, <2>2 DEF IInv, TypeOK
    <3>2. req[s].step \in {"issue", "rotate", "mark", "link"} => req[s].user \in Users
      BY <3>1 DEF Requested, Named
    <3>3. Named(req[s])'
      BY <1>5, <3>1, <3>2 DEF Requested, Named
    <3>4. HoldsOld(req[s])' /\ HoldsNew(req[s])' /\ HoldsLinks(req[s])'
      BY <1>2, <1>5, <3>1, <3>2 DEF Requested, HoldsOld, HoldsNew, HoldsLinks
    <3>5. Pending(req[s].user) => Pending(req[s].user)'
      BY <1>1, <1>6, <3>1 DEF Pending, Requested, Named
    <3>6. IsFresh(req[s])'
      BY <1>2, <1>5, <3>1, <3>2, <3>5 DEF Requested, IsFresh
    <3>7. KnowsAccount(req[s])'
      <4>1. card'.user = card.user
        BY <1>3
      <4>2. card.user # None => card.user \in Users /\ IsRow(users[card.user])
        BY DEF IInv, TypeOK, CardRow
      <4> QED
        BY <1>5, <3>1, <4>1, <4>2 DEF Requested, KnowsAccount
    <3> QED
      BY <3>3, <3>4, <3>6, <3>7 DEF Requested
  <2> QED
    BY <2>1, <2>2
<1>8. ASSUME NEW t \in Tokens
      PROVE  TokenRow(t)'
  <2> SUFFICES ASSUME IsRow(tokens[t])
               PROVE  TokenRow(t)'
    BY <1>2 DEF TokenRow
  <2>1. tokens[t] \in Token /\ TokenRow(t) /\ tokens[t].user \in Users
    BY TokenFields DEF Token
  <2>2. Pending(tokens[t].user) => Pending(tokens[t].user)'
    BY <1>1, <1>2, <1>6 DEF Pending
  <2> QED
    BY <1>2, <1>5, <2>1, <2>2 DEF TokenRow
<1>9. (\A l \in Links : LinkRow(l)') /\ OneLivePerFamily'
  BY <1>2 DEF IInv, LinkRow, OneLivePerFamily, LiveToken
<1>10. CardRow'
  <2>0. card'.user = card.user
        /\ \A v \in Users \ {Owner} :
             IsRow(users'[v]) => card'.user = v \/ users'[v].contested
    BY <1>3, <1>5 DEF IInv, CardRow
  <2> SUFFICES ASSUME card.user # None
               PROVE  /\ IsRow(users'[card.user])
                      /\ card'.deleted =>
                           ~ users'[card.user].active \/ users'[card.user].late
    BY <2>0 DEF CardRow
  <2>1. card.user \in Users /\ IsRow(users[card.user]) /\ card'.user = card.user
    BY <1>3 DEF IInv, TypeOK, CardRow
  <2>2. CASE card' = card
    BY <1>5, <2>1, <2>2 DEF IInv, CardRow
  <2>3. CASE card' # card
    <3>1. u = card.user \/ users[card.user].late
      BY <1>1 DEF Requested, KnowsAccount
    <3>2. CASE users[card.user].late
      BY <1>5, <2>1, <3>2
    <3>3. CASE u = card.user
      <4>1. users' = [users EXCEPT ![u].active = FALSE] /\ u # None
        BY <1>4, <2>3, <3>3
      <4>2. users[u] \in User
        BY <2>1, <3>3 DEF IInv, TypeOK
      <4>3. ~ users'[u].active
        BY <2>1, <3>3, <4>1, <4>2 DEF IInv, TypeOK, User
      <4> QED
        BY <1>5, <2>1, <3>3, <4>3
    <3> QED
      BY <3>1, <3>2, <3>3
  <2> QED
    BY <2>2, <2>3
<1>11. TypeOK'
  <2>1. users' \in [Users -> User \cup {None, Gone}]
    <3>1. users' = [v \in Users |-> users'[v]]
      BY <1>4 DEF IInv, TypeOK
    <3> QED
      BY <1>5, <3>1
  <2> QED
    BY <1>2, <1>4, <2>1, IdleRequested DEF IInv, TypeOK
<1> QED
  BY <1>7, <1>8, <1>9, <1>10, <1>11 DEF IInv

-----------------------------------------------------------------------------
(* The theorems.                                                           *)

LEMMA InitInv == ASSUME Assumptions PROVE Init => IInv
<1> SUFFICES ASSUME Init
             PROVE  IInv
  OBVIOUS
<1>1. TypeOK
  BY IdleRequested DEF Init, Assumptions, TypeOK, User, Password
<1>2. \A r \in Requests : Requested(req[r])
  BY IdleRequested DEF Init
<1>3. /\ \A t \in Tokens : TokenRow(t)
      /\ \A l \in Links : LinkRow(l)
  BY DEF Init, TokenRow, LinkRow
<1>4. CardRow /\ OneLivePerFamily
  BY DEF Init, CardRow, OneLivePerFamily, LiveToken
<1> QED
  BY <1>1, <1>2, <1>3, <1>4 DEF IInv

LEMMA StutterKeepsInv ==
  ASSUME IInv, UNCHANGED vars
  PROVE  IInv'
<1>1. TypeOK' /\ CardRow' /\ OneLivePerFamily'
  BY DEF vars, IInv, TypeOK, CardRow, OneLivePerFamily, LiveToken
<1>2. \A t \in Tokens : TokenRow(t)'
  BY DEF vars, IInv, TokenRow, Pending
<1>3. \A l \in Links : LinkRow(l)'
  BY DEF vars, IInv, LinkRow
<1>4. \A r \in Requests : Requested(req[r])'
  BY DEF vars, IInv, Requested, Named, HoldsOld, HoldsNew, HoldsLinks, IsFresh,
         KnowsAccount, Pending
<1> QED
  BY <1>1, <1>2, <1>3, <1>4 DEF IInv

\* The invariant holds of every reachable state.
LEMMA Invariance == ASSUME Assumptions PROVE Spec => []IInv
<1>1. Init => IInv
  BY InitInv
<1>2. ASSUME IInv, NEW r \in Requests,
             \/ ReadForLogin(r) \/ ReadForRefresh(r) \/ Issue(r) \/ Rotate(r)
             \/ RevokeAll(r) \/ ReadForForgot(r) \/ MarkLinks(r) \/ CreateLink(r)
             \/ ReadLink(r) \/ UseLink(r) \/ WritePassword(r)
      PROVE  IInv'
  BY <1>2, LoginReads, RefreshReads, IssueKeepsInv, RotateKeepsInv, RevokeAllKeepsInv,
     ForgotReads, MarkReads, CreateKeepsInv, LinkReads, UseKeepsInv, PasswordKeepsInv
<1>3. ASSUME IInv, NEW r \in Requests,
             \/ ReadForInvite(r) \/ CommitInvite(r) \/ ReadForResend(r)
             \/ SendInvitation(r) \/ ReadForRevoke(r) \/ CommitRevoke(r)
             \/ ReadForRemove(r) \/ CommitRemove(r)
      PROVE  IInv'
  BY <1>3, CardReads, InviteKeepsInv, InvitationReads, RevokeKeepsInv, RemoveKeepsInv
<1>4. IInv /\ [Next]_vars => IInv'
  BY <1>2, <1>3, LogoutKeepsInv, StutterKeepsInv DEF Next
<1> QED
  BY <1>1, <1>4, PTL DEF Spec

\* Accounts, sessions, links and requests keep their shape: no handler goes on
\* with a row that another has deleted.
THEOREM TypeCorrect == ASSUME Assumptions PROVE Spec => []TypeOK
<1>1. IInv => TypeOK
  BY DEF IInv
<1> QED
  BY <1>1, Invariance, PTL

\* However many clients refresh one token at once, one of them goes on.
THEOREM OneSessionGoesOn == ASSUME Assumptions PROVE Spec => []OneLivePerFamily
<1>1. IInv => OneLivePerFamily
  BY DEF IInv
<1> QED
  BY <1>1, Invariance, PTL

\* A link closes every link that was there when it began to be issued.
THEOREM EarlierLinksClosed == ASSUME Assumptions PROVE Spec => []NewestLinkOnly
<1>1. IInv => NewestLinkOnly
  BY DEF IInv, LinkRow, NewestLinkOnly
<1> QED
  BY <1>1, Invariance, PTL

\* No session outlives the password it was opened with, but for those that were
\* being opened while a reset closed the rest, and for a reset cut off before
\* its last write.
THEOREM OldPasswordLetsNobodyIn ==
  ASSUME Assumptions PROVE Spec => []ResetClosesSessions
<1>1. IInv => ResetClosesSessions
  BY DEF IInv, TokenRow, Pending, ResetClosesSessions, LiveToken
<1> QED
  BY <1>1, Invariance, PTL

\* None of the accounts a removed professional was ever given works, but for
\* two kinds: one whose invitation overlapped the removal, and one that lost
\* its place on the card to another invitation under way at the same time.
THEOREM RemovedStaysOut == ASSUME Assumptions PROVE Spec => []RemovedIsOut
<1>1. IInv => RemovedIsOut
  BY DEF IInv, CardRow, RemovedIsOut, Assumptions
<1> QED
  BY <1>1, Invariance, PTL

=============================================================================
