------------------------------- MODULE Gateway -------------------------------
(***************************************************************************)
(* The keys a business is paid with: the configuration of the gateway in   *)
(* payments.service.ts, and what the keys are for, signing a checkout and  *)
(* checking the signature of an event (wompi.provider.ts).                 *)
(*                                                                         *)
(* A request r is a handler in flight; req[r].step names what it does next:*)
(*   write - the upsert of saveConfig                                      *)
(*   count, use - the second query of credentials, and what follows it     *)
(* Wompi signs the events of a payment with the events secret of the       *)
(* account it was charged with.                                            *)
(***************************************************************************)
EXTENDS Naturals, Tables

CONSTANTS
  Requests,  \* handlers that can run at the same time
  Secrets,   \* requiredSecrets
  Signing,   \* the one a checkout is signed with
  Events,    \* the one events are signed with
  Values,    \* keys the owner can type
  Pays,      \* payments of appointments
  Envs       \* what the environment of the server may hold

VARIABLES
  env,      \* the keys in the environment, None without them
  row,      \* the row of payment_provider_config
  charged,  \* the account each payment was charged on
  stale,    \* payments charged before the configuration was last saved
  refused,  \* history: payments an event of which was refused
  req       \* the requests in flight

vars == <<env, row, charged, stale, refused, req>>

Keys == [Secrets -> Values \cup {None}]
Config == [enabled : BOOLEAN, keys : Keys]
Account == [events : Values \cup {None}]  \* what is known of the secret it signs with

\* What the parameters must be.  envCredentials asks for the secret that signs
\* a checkout; the others may be missing in the environment.
Assumptions ==
  /\ {Signing, Events} \subseteq Secrets
  /\ Envs \subseteq {None} \cup {keys \in Keys : keys[Signing] # None}
  /\ None \notin Values \cup Config \cup Keys \cup Account

Idle == [op |-> "none", step |-> "idle", config |-> None, typed |-> {},
         pay |-> None, keys |-> None, behind |-> FALSE]

IsIdle(r) == req[r] = Idle
Advance(r, fields) == req' = [req EXCEPT ![r] = fields]
Reply(r) == req' = [req EXCEPT ![r] = Idle]

Init ==
  /\ env \in Envs
  /\ row = None /\ charged = [p \in Pays |-> None]
  /\ stale = {} /\ refused = {}
  /\ req = [r \in Requests |-> Idle]

-----------------------------------------------------------------------------
(* The configuration.                                                      *)

Stored == IF row = None THEN [k \in Secrets |-> None] ELSE row.keys

\* Mutant of Merged: a key that is not typed again is forgotten.
MergedAfresh(patch) == patch

\* Keys that are not typed again stay.
Merged(patch) ==
  [k \in Secrets |-> IF patch[k] # None THEN patch[k] ELSE Stored[k]]

Complete(keys) == \A k \in Secrets : keys[k] # None

\* saveConfig switches on only what is complete.  The public key has to be of
\* the environment, or the request is refused.
ReadForSave(r) ==
  /\ IsIdle(r)
  /\ \E enabled \in BOOLEAN, patch \in Keys :
       /\ enabled => Complete(Merged(patch))
       /\ Advance(r, [Idle EXCEPT !.op = "save", !.step = "write",
                        !.config = [enabled |-> enabled, keys |-> Merged(patch)],
                        !.typed = {k \in Secrets : patch[k] # None}])
  /\ UNCHANGED <<row, charged, stale, refused>>

\* Whatever read the configuration before is now behind.
WriteConfig(r) ==
  /\ req[r].step = "write"
  /\ row' = req[r].config
  /\ stale' = {p \in Pays : charged[p] # None}
  /\ req' = [s \in Requests |->
       IF s = r \/ IsIdle(s) THEN Idle ELSE [req[s] EXCEPT !.behind = TRUE]]
  /\ UNCHANGED <<charged, refused>>

\* getConfig: what the panel says of all this.
getConfig ==
  [enabled |-> row # None /\ row.enabled,
   configured |-> {k \in Secrets : Stored[k] # None},
   usingEnvFallback |-> row = None /\ env # None]

-----------------------------------------------------------------------------
(* credentials, for a checkout or for an event.                            *)

\* Mutant of Begin: a checkout also uses the keys of a row that is off.
BeginAnyRow(r, op, p) ==
  /\ IsIdle(r)
  /\ Advance(r, LET q == [Idle EXCEPT !.op = op, !.pay = p] IN
       IF row # None /\ (row.enabled \/ op = "checkout")
         THEN [q EXCEPT !.step = "use", !.keys = row.keys]
         ELSE [q EXCEPT !.step = "count"])
  /\ UNCHANGED <<row, charged, stale, refused>>

\* The row that is enabled, if there is one.  What is switched on is complete.
Begin(r, op, p) ==
  /\ IsIdle(r)
  /\ Advance(r, LET q == [Idle EXCEPT !.op = op, !.pay = p] IN
       IF row # None /\ row.enabled
         THEN [q EXCEPT !.step = "use", !.keys = row.keys]
         ELSE [q EXCEPT !.step = "count"])
  /\ UNCHANGED <<row, charged, stale, refused>>

\* Both queries at once, for the public page.
onlinePaymentsEnabled ==
  IF row = None THEN env # None ELSE row.enabled

startCheckout(r) == Begin(r, "checkout", None)

handleWebhook(r) == \E p \in Pays : charged[p] # None /\ Begin(r, "event", p)

Refuse(r) ==
  /\ refused' = IF req[r].op = "event" THEN refused \cup {req[r].pay} ELSE refused
  /\ Reply(r)

\* The environment's keys are for a business that never configured its own.
CountRows(r) ==
  /\ req[r].step = "count"
  /\ \/ /\ row # None \/ env = None
        /\ Refuse(r)
     \/ /\ row = None /\ env # None
        /\ Advance(r, [req[r] EXCEPT !.step = "use", !.keys = env])
        /\ UNCHANGED refused
  /\ UNCHANGED <<row, charged, stale>>

\* createCheckout: the customer is sent to pay on the account of these keys.
Charge(r) ==
  LET q == req[r] IN
  /\ q.op = "checkout" /\ q.step = "use"
  /\ \E p \in NewId(charged) :
       /\ charged' = [charged EXCEPT ![p] = [events |-> q.keys[Events]]]
       /\ stale' = IF q.behind THEN stale \cup {p} ELSE stale
  /\ Reply(r)
  /\ UNCHANGED <<row, refused>>

\* parseWebhook: the signature is made again with the secret of now, if there is
\* one.  What an account signs with whose secret was not among the keys, nobody
\* here knows.
CheckSignature(r) ==
  LET q == req[r]
      secret == q.keys[Events]
      signed == charged[q.pay].events IN
  /\ q.op = "event" /\ q.step = "use"
  /\ \/ secret # None /\ signed \in {secret, None} /\ Reply(r) /\ UNCHANGED refused
     \/ (signed # secret \/ secret = None) /\ Refuse(r)
  /\ UNCHANGED <<row, charged, stale>>

Next ==
  /\ \E r \in Requests :
       \/ ReadForSave(r) \/ WriteConfig(r)
       \/ startCheckout(r) \/ handleWebhook(r) \/ CountRows(r)
       \/ Charge(r) \/ CheckSignature(r)
  /\ UNCHANGED env

Spec == Init /\ [][Next]_vars
-----------------------------------------------------------------------------
(* Properties.                                                             *)

Request ==
  [op : {"none", "save", "checkout", "event"}, step : {"idle", "write", "count", "use"},
   config : Config \cup {None}, typed : SUBSET Secrets, pay : Pays \cup {None},
   keys : Keys \cup {None}, behind : BOOLEAN]

\* The row and the requests have their shape, and what is switched on is
\* complete, stored or about to be.
TypeOK ==
  /\ env \in Envs
  /\ row \in Config \cup {None}
  /\ row # None /\ row.enabled => Complete(row.keys)
  /\ charged \in [Pays -> Account \cup {None}]
  /\ stale \subseteq Pays /\ refused \subseteq Pays
  /\ req \in [Requests -> Request]
  /\ \A r \in Requests :
       req[r].step = "write" /\ req[r].config.enabled => Complete(req[r].config.keys)

\* Saving changes no key but those that were typed, unless another save was
\* written since it read.
KeysKept ==
  [][\A r \in Requests, k \in Secrets :
       req[r].step = "write" /\ req'[r] = Idle /\ k \notin req[r].typed =>
         req[r].behind \/ row'.keys[k] = Stored[k]]_vars

\* The public page offers to pay online when the panel says that it does.
PanelAgrees ==
  LET shown == getConfig IN
  /\ onlinePaymentsEnabled <=> shown.enabled \/ shown.usingEnvFallback
  /\ shown.enabled => shown.configured = Secrets

\* Payments charged with the keys of an environment that has no events secret:
\* envCredentials does not ask for one, and parseWebhook refuses without it.
Unsigned == {p \in Pays : charged[p] # None /\ charged[p].events = None}

\* The outcome of a payment can always be learnt from its events, as long as
\* nobody saves the configuration after the customer was sent to pay, unless it
\* was charged with the environment and that lacks the events secret.
EventsAccepted == refused \subseteq stale \cup Unsigned
=============================================================================
