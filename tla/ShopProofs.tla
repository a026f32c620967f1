----------------------------- MODULE ShopProofs -----------------------------
(***************************************************************************)
(* Theorems about the whole business.                                      *)
(***************************************************************************)
EXTENDS Shop, Sequences, FiniteSetTheorems, TLAPS

-----------------------------------------------------------------------------
(* The settings, for every set of sections, fields and values.             *)

\* What an update is about to write still agrees with its section, but for
\* its own field, unless another update has been written since it read.
Current(r) ==
  ~ G!IsIdle(r) /\ ~ updates[r].behind =>
    \A f \in Fields \ {updates[r].field} :
      updates[r].value[f] = G!Parse(stored[updates[r].section])[f]

SettingsInv == G!TypeOK /\ \A r \in Requests : Current(r)

-----------------------------------------------------------------------------
(* What reading and merging give.                                          *)

\* Every column reads as accepted values.
LEMMA ParseIsGood ==
  ASSUME G!Assumptions, NEW column \in {None} \cup G!Column
  PROVE  G!Parse(column) \in [Fields -> Good]
BY DEF G!Assumptions, G!Column, G!Parse, G!Valid

\* A column that is valid reads as what it holds, wherever it holds something.
LEMMA ValidReadsAsIs ==
  ASSUME G!Assumptions, NEW column \in G!Column, G!Valid(column),
         NEW f \in Fields, column[f] # Missing
  PROVE  G!Parse(column)[f] = column[f]
BY DEF G!Assumptions, G!Column, G!Parse

\* A patch of one field of what was read is a column, and leaves the others.
LEMMA MergeIsColumn ==
  ASSUME G!Assumptions, NEW column \in {None} \cup G!Column,
         NEW f \in Fields, NEW v \in G!PatchValues
  PROVE  /\ G!Merge(G!Parse(column), f, v) \in G!Column
         /\ \A g \in Fields \ {f} : G!Merge(G!Parse(column), f, v)[g] = G!Parse(column)[g]
BY ParseIsGood DEF G!Merge, G!PatchValues, G!Column

\* An update in flight is not the idle request.
LEMMA UpdateIsNotIdle ==
  ASSUME G!Assumptions
  PROVE  \A u \in G!Update : u # G!Idle
BY DEF G!Assumptions, G!Update, G!Idle

-----------------------------------------------------------------------------
(* The invariant.                                                          *)

LEMMA SettingsInit == G!Init => SettingsInv
BY DEF G!Init, SettingsInv, G!TypeOK, Current, G!IsIdle, G!Column

LEMMA UpdateReads ==
  ASSUME G!Assumptions, SettingsInv, NEW r \in Requests, G!ReadForUpdate(r)
  PROVE  SettingsInv'
<1>1. PICK s \in Sections, f \in Fields, v \in G!PatchValues :
        LET merged == G!Merge(G!Parse(stored[s]), f, v) IN
        /\ G!Valid(merged)
        /\ updates' = [updates EXCEPT ![r] =
             [section |-> s, value |-> merged, field |-> f, behind |-> FALSE]]
  BY DEF G!ReadForUpdate
<1> DEFINE merged == G!Merge(G!Parse(stored[s]), f, v)
<1> DEFINE update == [section |-> s, value |-> merged, field |-> f, behind |-> FALSE]
<1>2. stored[s] \in {None} \cup G!Column
  BY DEF SettingsInv, G!TypeOK
<1>3. merged \in G!Column /\ \A g \in Fields \ {f} : merged[g] = G!Parse(stored[s])[g]
  BY <1>2, MergeIsColumn
<1>4. update \in G!Update
  BY <1>3 DEF G!Update
<1>5. updates' = [updates EXCEPT ![r] = update] /\ stored' = stored
  BY <1>1 DEF G!ReadForUpdate
<1> HIDE DEF merged, update
<1>6. updates' \in [Requests -> {G!Idle} \cup G!Update]
  BY <1>4, <1>5 DEF SettingsInv, G!TypeOK
<1>7. ASSUME NEW t \in Requests
      PROVE  (~ G!IsIdle(t) => G!Valid(updates[t].value))' /\ Current(t)'
  <2>1. CASE t = r
    <3>1. updates'[t] = update
      BY <1>5, <2>1 DEF SettingsInv, G!TypeOK
    <3>2. /\ update.section = s /\ update.value = merged /\ update.field = f
          /\ G!Valid(merged)
      BY <1>1 DEF update, merged
    <3> QED
      BY <3>1, <3>2, <1>3, <1>5 DEF Current, G!IsIdle, G!Parse, G!Valid
  <2>2. CASE t # r
    <3>1. updates'[t] = updates[t]
      BY <1>5, <2>2 DEF SettingsInv, G!TypeOK
    <3> QED
      BY <3>1, <1>5 DEF SettingsInv, G!TypeOK, Current, G!IsIdle, G!Parse, G!Valid
  <2> QED
    BY <2>1, <2>2
<1> QED
  BY <1>5, <1>6, <1>7 DEF SettingsInv, G!TypeOK

LEMMA UpsertWrites ==
  ASSUME G!Assumptions, SettingsInv, NEW r \in Requests, G!Upsert(r)
  PROVE  SettingsInv'
<1> DEFINE s == updates[r].section
<1>1. updates[r] \in G!Update /\ s \in Sections /\ updates[r].value \in G!Column
  BY DEF G!Upsert, SettingsInv, G!TypeOK, G!IsIdle, G!Update
<1>2. stored' = [stored EXCEPT ![s] = updates[r].value]
  BY DEF G!Upsert
<1>3. ASSUME NEW t \in Requests
      PROVE  \/ updates'[t] = G!Idle
             \/ /\ updates[t] \in G!Update /\ updates'[t] = [updates[t] EXCEPT !.behind = TRUE]
             \/ updates'[t] = updates[t] /\ updates[t] \in G!Update /\ updates[t].section # s
  <2>1. updates'[t] = IF t = r THEN G!Idle
                  ELSE IF updates[t].section = s THEN [updates[t] EXCEPT !.behind = TRUE]
                  ELSE updates[t]
    BY DEF G!Upsert
  <2>2. CASE updates[t] = G!Idle
    <3>1. updates[t].section # s
      BY <1>1, <2>2 DEF G!Idle, G!Assumptions
    <3> QED
      BY <2>1, <2>2, <3>1
  <2>3. CASE updates[t] \in G!Update
    BY <2>1, <2>3
  <2> QED
    BY <2>2, <2>3 DEF SettingsInv, G!TypeOK
<1>4. stored' \in [Sections -> {None} \cup G!Column]
  BY <1>1, <1>2 DEF SettingsInv, G!TypeOK
<1>5. updates' \in [Requests -> {G!Idle} \cup G!Update]
  <2>1. updates' = [t \in Requests |-> updates'[t]]
    BY DEF G!Upsert
  <2>2. \A t \in Requests : updates'[t] \in {G!Idle} \cup G!Update
    BY <1>3 DEF G!Update
  <2> QED
    BY <2>1, <2>2
<1>6. ASSUME NEW t \in Requests
      PROVE  (~ G!IsIdle(t) => G!Valid(updates[t].value))' /\ Current(t)'
  <2>1. CASE updates'[t] = G!Idle
    BY <2>1 DEF G!IsIdle, Current
  <2>2. CASE updates[t] \in G!Update /\ updates'[t] = [updates[t] EXCEPT !.behind = TRUE]
    <3>1. updates[t] # G!Idle /\ updates'[t].behind /\ updates'[t].value = updates[t].value
      BY <2>2, UpdateIsNotIdle DEF G!Update
    <3> QED
      BY <3>1 DEF SettingsInv, G!TypeOK, G!IsIdle, Current, G!Valid
  <2>3. CASE updates'[t] = updates[t] /\ updates[t] \in G!Update /\ updates[t].section # s
    <3>1. updates[t] # G!Idle /\ updates[t].section \in Sections
      BY <2>3, UpdateIsNotIdle DEF G!Update
    <3>2. stored'[updates[t].section] = stored[updates[t].section]
      BY <1>2, <2>3, <3>1 DEF SettingsInv, G!TypeOK
    <3> QED
      BY <2>3, <3>1, <3>2 DEF SettingsInv, G!TypeOK, G!IsIdle, Current, G!Valid, G!Parse
  <2> QED
    BY <1>3, <2>1, <2>2, <2>3
<1> QED
  BY <1>4, <1>5, <1>6 DEF SettingsInv, G!TypeOK

LEMMA SettingsStutter ==
  ASSUME SettingsInv, UNCHANGED G!vars
  PROVE  SettingsInv'
BY DEF SettingsInv, G!TypeOK, Current, G!IsIdle, G!Valid, G!Parse, G!vars

\* The invariant holds of every reachable state.
LEMMA SettingsInvariance == ASSUME G!Assumptions PROVE G!Spec => []SettingsInv
<1>1. G!Init => SettingsInv
  BY SettingsInit
<1>2. SettingsInv /\ [G!Next]_(G!vars) => SettingsInv'
  BY UpdateReads, UpsertWrites, SettingsStutter DEF G!Next
<1> QED
  BY <1>1, <1>2, PTL DEF G!Spec

-----------------------------------------------------------------------------
(* The theorems.                                                           *)

\* The columns keep their shape, and no update is about to write a section
\* its schema refuses.
THEOREM SettingsTyped == ASSUME G!Assumptions PROVE G!Spec => []G!TypeOK
<1>1. SettingsInv => G!TypeOK
  BY DEF SettingsInv
<1> QED
  BY <1>1, SettingsInvariance, PTL

\* The upsert of an update that is not behind changes what is read of its own
\* field, and of no other.
LEMMA UpsertKeepsFields ==
  ASSUME G!Assumptions, SettingsInv, NEW r \in Requests, G!Upsert(r), ~ updates[r].behind,
         NEW s \in Sections, NEW f \in Fields,
         <<s, f>> # <<updates[r].section, updates[r].field>>
  PROVE  G!getSchedulingContext(stored')[s][f] = G!getSchedulingContext(stored)[s][f]
<1>1. /\ updates[r] # G!Idle /\ updates[r].section \in Sections
      /\ updates[r].value \in G!Column /\ G!Valid(updates[r].value)
  BY DEF G!Upsert, SettingsInv, G!TypeOK, G!IsIdle, G!Update
<1>2. stored' = [stored EXCEPT ![updates[r].section] = updates[r].value]
  BY DEF G!Upsert
<1>3. CASE s # updates[r].section
  BY <1>2, <1>3 DEF G!getSchedulingContext, SettingsInv, G!TypeOK
<1>4. CASE s = updates[r].section
  <2>1. stored'[s] = updates[r].value /\ f # updates[r].field
    BY <1>1, <1>2, <1>4 DEF SettingsInv, G!TypeOK
  <2>2. updates[r].value[f] = G!Parse(stored[s])[f]
    BY <1>1, <1>4, <2>1 DEF SettingsInv, Current, G!IsIdle
  <2>3. G!Parse(stored[s])[f] \in Good
    BY ParseIsGood DEF SettingsInv, G!TypeOK
  <2>4. G!Parse(updates[r].value)[f] = updates[r].value[f]
    <3>1. updates[r].value[f] # Missing
      BY <2>2, <2>3 DEF G!Assumptions
    <3> QED
      BY <1>1, <3>1, ValidReadsAsIs
  <2> QED
    BY <2>1, <2>2, <2>4 DEF G!getSchedulingContext
<1> QED
  BY <1>3, <1>4

\* Two owners who edit the settings at once lose nothing the other wrote, as
\* long as their sections differ or one reads after the other has written.
THEOREM NothingElseChanges == ASSUME G!Assumptions PROVE G!Spec => G!FieldsKept
<1> DEFINE Kept(r, s, f) ==
      ~ G!IsIdle(r) /\ updates'[r] = G!Idle /\ <<s, f>> # <<updates[r].section, updates[r].field>> =>
        \/ s = updates[r].section /\ updates[r].behind
        \/ G!getSchedulingContext(stored')[s][f] = G!getSchedulingContext(stored)[s][f]
<1>1. ASSUME SettingsInv, G!Next, NEW r \in Requests, NEW s \in Sections, NEW f \in Fields
      PROVE  Kept(r, s, f)
  <2> SUFFICES ASSUME updates[r] # G!Idle, updates'[r] = G!Idle,
                      <<s, f>> # <<updates[r].section, updates[r].field>>,
                      ~ (s = updates[r].section /\ updates[r].behind)
               PROVE  G!getSchedulingContext(stored')[s][f] =
                        G!getSchedulingContext(stored)[s][f]
    BY DEF G!IsIdle
  <2>1. PICK t \in Requests : G!ReadForUpdate(t) \/ G!Upsert(t)
    BY <1>1 DEF G!Next
  <2>2. CASE G!ReadForUpdate(t)
    BY <2>2 DEF G!ReadForUpdate, G!getSchedulingContext
  <2>3. CASE G!Upsert(t)
    <3>1. t = r
      <4>1. updates[r] \in G!Update
        BY <1>1 DEF SettingsInv, G!TypeOK
      <4>2. [updates[r] EXCEPT !.behind = TRUE] \in G!Update
        BY <4>1 DEF G!Update
      <4> QED
        BY <2>3, <4>1, <4>2, UpdateIsNotIdle DEF G!Upsert
    <3>2. CASE updates[r].behind
      BY <1>1, <2>3, <3>1, <3>2 DEF G!Upsert, SettingsInv, G!TypeOK, G!getSchedulingContext
    <3>3. CASE ~ updates[r].behind
      BY <1>1, <2>3, <3>1, <3>3, UpsertKeepsFields
    <3> QED
      BY <3>2, <3>3
  <2> QED
    BY <2>1, <2>2, <2>3
<1>2. SettingsInv /\ [G!Next]_(G!vars) =>
        [\A r \in Requests, s \in Sections, f \in Fields : Kept(r, s, f)]_(G!vars)
  BY <1>1
<1> QED
  BY <1>2, SettingsInvariance, PTL DEF G!Spec, G!FieldsKept

-----------------------------------------------------------------------------
(* The keys of the gateway, for every set of keys, values and payments.    *)

\* The keys a checkout or an event is given now, None when there are none.
Active == IF config = None THEN env ELSE IF config.enabled THEN config.keys ELSE None

\* Whoever has read the configuration and is not behind has what is there now.
UpToDate(q) ==
  /\ q.step = "write" =>
       /\ q.config \in K!Config
       /\ ~ q.behind => \A k \in Secrets \ q.typed : q.config.keys[k] = K!Stored[k]
  /\ q.step = "count" => (~ q.behind => config = None \/ ~ config.enabled)
  /\ q.step = "use" =>
       /\ q.keys \in K!Keys
       /\ ~ q.behind => q.keys = Active

\* An event is of a payment that was charged, before the save its handler
\* missed if it missed one.
OfCharged(q) ==
  q.op = "event" =>
    /\ q.pay \in Charges /\ charged[q.pay] # None
    /\ q.behind => q.pay \in stale

\* A payment that was charged since the last save was charged with the keys
\* in use.
ChargedAsNow(p) ==
  /\ p \in stale => charged[p] # None
  /\ charged[p] # None /\ p \notin stale => Active # None /\ charged[p].events = Active[Events]

KeysInv ==
  /\ K!TypeOK
  /\ \A r \in Requests : UpToDate(saves[r]) /\ OfCharged(saves[r])
  /\ \A p \in Charges : ChargedAsNow(p)
  /\ K!EventsAccepted

USE DEF K!IsIdle, K!Advance, K!Reply

-----------------------------------------------------------------------------
(* Steps that only change what a request knows.                            *)

LEMMA IdleUpToDate ==
  K!Idle \in K!Request /\ UpToDate(K!Idle) /\ OfCharged(K!Idle) /\ K!Idle.step = "idle"
BY DEF K!Idle, K!Request, UpToDate, OfCharged

LEMMA KeysOfNow ==
  ASSUME K!Assumptions, KeysInv
  PROVE  Active \in K!Keys \cup {None} /\ K!Stored \in K!Keys
BY DEF K!Assumptions, KeysInv, K!TypeOK, Active, K!Stored, K!Keys, K!Config

LEMMA OnlySave ==
  ASSUME KeysInv, NEW r \in Requests, NEW q \in K!Request, UpToDate(q), OfCharged(q),
         q.step = "write" /\ q.config.enabled => K!Complete(q.config.keys),
         saves' = [saves EXCEPT ![r] = q], UNCHANGED <<env, config, charged, stale>>,
         refused' \subseteq stale \cup K!Unsigned
  PROVE  KeysInv'
<1>1. \A s \in Requests : saves'[s] = IF s = r THEN q ELSE saves[s]
  BY DEF KeysInv, K!TypeOK
<1>2. ASSUME NEW s \in Requests
      PROVE  /\ UpToDate(saves[s])' /\ OfCharged(saves[s])'
             /\ saves'[s].step = "write" /\ saves'[s].config.enabled =>
                  K!Complete(saves'[s].config.keys)
  <2>1. PICK p \in K!Request :
          /\ p = saves'[s] /\ UpToDate(p) /\ OfCharged(p)
          /\ p.step = "write" /\ p.config.enabled => K!Complete(p.config.keys)
    BY <1>1 DEF KeysInv, K!TypeOK
  <2> QED
    BY <2>1 DEF UpToDate, OfCharged, K!Stored, Active
<1>3. K!TypeOK'
  <2>1. refused' \subseteq Charges
    BY DEF KeysInv, K!TypeOK, K!Unsigned
  <2>2. \A s \in Requests :
          saves'[s].step = "write" /\ saves'[s].config.enabled => K!Complete(saves'[s].config.keys)
    BY <1>2
  <2> QED
    BY <2>1, <2>2 DEF KeysInv, K!TypeOK, K!Complete
<1>4. \A p \in Charges : ChargedAsNow(p)'
  BY DEF KeysInv, ChargedAsNow, Active
<1> QED
  BY <1>2, <1>3, <1>4 DEF KeysInv, K!EventsAccepted, K!Unsigned

\* A save starts from what is stored.
LEMMA SaveReads ==
  ASSUME KeysInv, K!Assumptions, NEW r \in Requests, K!ReadForSave(r), UNCHANGED env
  PROVE  KeysInv'
<1>1. PICK enabled \in BOOLEAN, patch \in K!Keys :
        /\ enabled => K!Complete(K!Merged(patch))
        /\ K!Advance(r, [K!Idle EXCEPT !.op = "save", !.step = "write",
                         !.config = [enabled |-> enabled, keys |-> K!Merged(patch)],
                         !.typed = {k \in Secrets : patch[k] # None}])
  BY DEF K!ReadForSave
<1> DEFINE chosen == [enabled |-> enabled, keys |-> K!Merged(patch)]
<1> DEFINE q == [K!Idle EXCEPT !.op = "save", !.step = "write", !.config = chosen,
                   !.typed = {k \in Secrets : patch[k] # None}]
<1>2. K!Merged(patch) \in K!Keys
  BY KeysOfNow DEF K!Merged, K!Keys
<1>3. chosen \in K!Config
  BY <1>2 DEF K!Config
<1>4. \A k \in Secrets : patch[k] = None => chosen.keys[k] = K!Stored[k]
  BY DEF K!Merged
<1>5. chosen.enabled => K!Complete(chosen.keys)
  BY <1>1
<1> HIDE DEF chosen
<1>6. q \in K!Request
  BY <1>3 DEF K!Idle, K!Request
<1>7. /\ q.op = "save" /\ q.step = "write" /\ q.config = chosen
      /\ q.typed = {k \in Secrets : patch[k] # None}
  BY DEF K!Idle
<1>8. saves' = [saves EXCEPT ![r] = q]
  BY <1>1 DEF chosen
<1> HIDE DEF q
<1>9. UpToDate(q) /\ OfCharged(q)
  BY <1>3, <1>4, <1>7 DEF UpToDate, OfCharged
<1> QED
  BY <1>5, <1>6, <1>7, <1>8, <1>9, OnlySave DEF K!ReadForSave, KeysInv, K!EventsAccepted

\* A checkout or an event starts from the row.
LEMMA CredentialsRead ==
  ASSUME KeysInv, K!Assumptions, NEW r \in Requests, NEW op \in {"checkout", "event"},
         NEW p \in Charges \cup {None}, K!Begin(r, op, p), UNCHANGED env,
         op = "event" => p \in Charges /\ charged[p] # None
  PROVE  KeysInv'
<1> DEFINE first == [K!Idle EXCEPT !.op = op, !.pay = p]
<1> DEFINE q == IF config # None /\ config.enabled
                  THEN [first EXCEPT !.step = "use", !.keys = config.keys]
                  ELSE [first EXCEPT !.step = "count"]
<1>1. first \in K!Request /\ first.op = op /\ first.pay = p /\ ~ first.behind
  BY DEF K!Idle, K!Request
<1>2. saves' = [saves EXCEPT ![r] = q]
  BY DEF K!Begin
<1>3. config # None => config.keys \in K!Keys /\ (config.enabled => K!Complete(config.keys))
  BY DEF KeysInv, K!TypeOK, K!Config
<1> HIDE DEF first
<1>4. /\ q \in K!Request /\ q.op = op /\ q.pay = p /\ ~ q.behind
      /\ \/ q.step = "use" /\ q.keys = config.keys /\ config # None /\ config.enabled
         \/ q.step = "count" /\ ~ (config # None /\ config.enabled)
  BY <1>1, <1>3 DEF K!Request
<1> HIDE DEF q
<1>5. UpToDate(q) /\ OfCharged(q)
  BY <1>3, <1>4 DEF UpToDate, OfCharged, Active
<1> QED
  BY <1>2, <1>4, <1>5, OnlySave DEF K!Begin, KeysInv, K!EventsAccepted

\* An event that is refused was of a payment charged before the last save, or
\* without a secret for events.
LEMMA RefusedIsStale ==
  ASSUME KeysInv, NEW r \in Requests, NEW given,
         saves[r].behind \/ given = Active,
         given = None \/ given[Events] = None \/ given[Events] # charged[saves[r].pay].events
  PROVE  saves[r].op = "event" => saves[r].pay \in stale \cup K!Unsigned
BY DEF KeysInv, OfCharged, ChargedAsNow, K!Unsigned

LEMMA RefuseKeepsInv ==
  ASSUME KeysInv, NEW r \in Requests, K!Refuse(r), UNCHANGED <<env, config, charged, stale>>,
         saves[r].op = "event" => saves[r].pay \in stale \cup K!Unsigned
  PROVE  KeysInv'
<1>1. refused' \subseteq stale \cup K!Unsigned /\ saves' = [saves EXCEPT ![r] = K!Idle]
  BY DEF K!Refuse, KeysInv, K!EventsAccepted
<1> QED
  BY <1>1, IdleUpToDate, OnlySave

LEMMA CountKeepsInv ==
  ASSUME KeysInv, K!Assumptions, NEW r \in Requests, K!CountRows(r), UNCHANGED env
  PROVE  KeysInv'
<1>1. /\ saves[r] \in K!Request /\ saves[r].step = "count"
      /\ UpToDate(saves[r]) /\ OfCharged(saves[r])
  BY DEF K!CountRows, KeysInv, K!TypeOK
<1>2. CASE (config # None \/ env = None) /\ K!Refuse(r)
  <2>1. saves[r].behind \/ None = Active
    BY <1>1, <1>2 DEF UpToDate, Active
  <2> QED
    BY <1>2, <2>1, RefusedIsStale, RefuseKeepsInv DEF K!CountRows
<1>3. CASE /\ config = None /\ env # None /\ UNCHANGED refused
           /\ K!Advance(r, [saves[r] EXCEPT !.step = "use", !.keys = env])
  <2> DEFINE q == [saves[r] EXCEPT !.step = "use", !.keys = env]
  <2>1. env \in K!Keys
    BY <1>3 DEF KeysInv, K!TypeOK, K!Assumptions
  <2>2. /\ q \in K!Request /\ q.step = "use" /\ q.keys = env /\ q.op = saves[r].op
        /\ q.pay = saves[r].pay /\ q.behind = saves[r].behind
    BY <1>1, <2>1 DEF K!Request
  <2>3. saves' = [saves EXCEPT ![r] = q]
    BY <1>3
  <2> HIDE DEF q
  <2>4. UpToDate(q) /\ OfCharged(q)
    BY <1>1, <1>3, <2>1, <2>2 DEF UpToDate, OfCharged, Active
  <2> QED
    BY <1>3, <2>2, <2>3, <2>4, OnlySave DEF K!CountRows, KeysInv, K!EventsAccepted
<1> QED
  BY <1>2, <1>3 DEF K!CountRows

LEMMA SignatureKeepsInv ==
  ASSUME KeysInv, K!Assumptions, NEW r \in Requests, K!CheckSignature(r), UNCHANGED env
  PROVE  KeysInv'
<1>1. /\ saves[r] \in K!Request /\ saves[r].step = "use"
      /\ UpToDate(saves[r]) /\ OfCharged(saves[r])
      /\ UNCHANGED <<env, config, charged, stale>>
  BY DEF K!CheckSignature, KeysInv, K!TypeOK
<1>2. CASE K!Reply(r) /\ UNCHANGED refused
  <2>1. refused' \subseteq stale \cup K!Unsigned
    BY <1>2 DEF KeysInv, K!EventsAccepted
  <2> QED
    BY <1>1, <1>2, <2>1, IdleUpToDate, OnlySave
<1>3. CASE /\ charged[saves[r].pay].events # saves[r].keys[Events] \/ saves[r].keys[Events] = None
           /\ K!Refuse(r)
  <2>1. saves[r].behind \/ saves[r].keys = Active
    BY <1>1 DEF UpToDate
  <2> QED
    BY <1>1, <1>3, <2>1, RefusedIsStale, RefuseKeepsInv
<1> QED
  BY <1>2, <1>3 DEF K!CheckSignature

-----------------------------------------------------------------------------
(* The two writes.                                                         *)

\* After a save every payment that was charged is stale, and so is whatever
\* was read.
LEMMA WriteKeepsInv ==
  ASSUME KeysInv, K!Assumptions, NEW r \in Requests, K!WriteConfig(r), UNCHANGED env
  PROVE  KeysInv'
<1>1. /\ saves[r].step = "write" /\ saves[r].config \in K!Config
      /\ config' = saves[r].config /\ stale' = {p \in Charges : charged[p] # None}
      /\ UNCHANGED <<charged, refused>>
      /\ saves' = [s \in Requests |->
           IF s = r \/ K!IsIdle(s) THEN K!Idle ELSE [saves[s] EXCEPT !.behind = TRUE]]
  BY DEF K!WriteConfig, KeysInv, UpToDate
<1>2. config' # None /\ (config'.enabled => K!Complete(config'.keys))
  BY <1>1 DEF K!Assumptions, KeysInv, K!TypeOK
<1>3. stale \subseteq stale' /\ stale' \subseteq Charges
  BY <1>1 DEF KeysInv, K!TypeOK, ChargedAsNow
<1>4. ASSUME NEW s \in Requests
      PROVE  /\ saves'[s] \in K!Request
             /\ UpToDate(saves[s])' /\ OfCharged(saves[s])'
             /\ saves'[s].step = "write" /\ saves'[s].config.enabled =>
                  K!Complete(saves'[s].config.keys)
  <2>1. CASE saves'[s] = K!Idle
    BY <2>1, IdleUpToDate DEF UpToDate, OfCharged, K!Idle
  <2>2. CASE saves'[s] = [saves[s] EXCEPT !.behind = TRUE]
    <3> DEFINE q == saves[s]
    <3>1. /\ q \in K!Request /\ UpToDate(q) /\ OfCharged(q)
          /\ q.step = "write" /\ q.config.enabled => K!Complete(q.config.keys)
      BY DEF KeysInv, K!TypeOK
    <3>2. /\ saves'[s] \in K!Request /\ saves'[s].behind /\ saves'[s].step = q.step
          /\ saves'[s].op = q.op /\ saves'[s].pay = q.pay /\ saves'[s].keys = q.keys
          /\ saves'[s].config = q.config
      BY <2>2, <3>1 DEF K!Request
    <3>3. UpToDate(saves[s])'
      BY <3>1, <3>2 DEF UpToDate
    <3>4. OfCharged(saves[s])'
      BY <1>1, <3>1, <3>2 DEF OfCharged
    <3> QED
      BY <3>1, <3>2, <3>3, <3>4
  <2> QED
    BY <1>1, <2>1, <2>2
<1>5. \A p \in Charges : ChargedAsNow(p)'
  BY <1>1 DEF ChargedAsNow
<1>6. K!EventsAccepted'
  BY <1>1, <1>3 DEF KeysInv, K!EventsAccepted, K!Unsigned
<1>7. K!TypeOK'
  <2>1. saves' \in [Requests -> K!Request]
    <3>1. saves' = [s \in Requests |-> saves'[s]]
      BY <1>1
    <3> QED
      BY <1>4, <3>1
  <2> QED
    BY <1>1, <1>2, <1>3, <1>4, <2>1 DEF KeysInv, K!TypeOK
<1> QED
  BY <1>4, <1>5, <1>6, <1>7 DEF KeysInv

LEMMA ChargeKeepsInv ==
  ASSUME KeysInv, K!Assumptions, NEW r \in Requests, K!Charge(r), UNCHANGED env
  PROVE  KeysInv'
<1> DEFINE q == saves[r]
<1>1. q \in K!Request /\ UpToDate(q) /\ q.step = "use" /\ q.op = "checkout"
  BY DEF K!Charge, KeysInv, K!TypeOK
<1>2. PICK p \in K!NewId(charged) :
        /\ charged' = [charged EXCEPT ![p] = [events |-> q.keys[Events]]]
        /\ stale' = IF q.behind THEN stale \cup {p} ELSE stale
  BY DEF K!Charge
<1>3. /\ p \in Charges /\ charged[p] = None /\ UNCHANGED <<config, refused>>
      /\ saves' = [saves EXCEPT ![r] = K!Idle]
  BY DEF K!NewId, KeysInv, K!TypeOK, K!Charge
<1>4. /\ [events |-> q.keys[Events]] \in K!Account \ {None}
      /\ ~ q.behind => q.keys = Active /\ Active # None
  BY <1>1 DEF UpToDate, K!Keys, K!Account, K!Assumptions
<1>5. \A x \in Charges : charged'[x] = IF x = p THEN [events |-> q.keys[Events]] ELSE charged[x]
  BY <1>2 DEF KeysInv, K!TypeOK
<1>6. ASSUME NEW s \in Requests
      PROVE  UpToDate(saves[s])' /\ OfCharged(saves[s])'
  <2>1. CASE s = r
    <3>1. saves'[s] = K!Idle
      BY <1>3, <2>1 DEF KeysInv, K!TypeOK
    <3> QED
      BY <3>1 DEF K!Idle, UpToDate, OfCharged
  <2>2. CASE s # r
    <3>1. saves'[s] = saves[s] /\ UpToDate(saves[s]) /\ OfCharged(saves[s])
      BY <1>3, <2>2 DEF KeysInv, K!TypeOK
    <3> QED
      BY <1>2, <1>3, <1>5, <3>1 DEF UpToDate, OfCharged, K!Stored, Active
  <2> QED
    BY <2>1, <2>2
<1>7. ASSUME NEW x \in Charges
      PROVE  ChargedAsNow(x)'
  <2>1. CASE x = p
    BY <1>2, <1>3, <1>4, <1>5, <2>1 DEF ChargedAsNow, Active
  <2>2. CASE x # p
    BY <1>2, <1>3, <1>5, <2>2 DEF KeysInv, ChargedAsNow, Active
  <2> QED
    BY <2>1, <2>2
<1>8. K!TypeOK' /\ K!EventsAccepted'
  <2>1. charged' \in [Charges -> K!Account \cup {None}] /\ stale' \subseteq Charges
    BY <1>2, <1>3, <1>4 DEF KeysInv, K!TypeOK
  <2>2. saves' \in [Requests -> K!Request]
    BY <1>3, IdleUpToDate DEF KeysInv, K!TypeOK
  <2>3. \A s \in Requests : saves'[s] = IF s = r THEN K!Idle ELSE saves[s]
    BY <1>3 DEF KeysInv, K!TypeOK
  <2>4. K!EventsAccepted'
    BY <1>2, <1>3, <1>5, <2>1 DEF KeysInv, K!TypeOK, K!EventsAccepted, K!Unsigned
  <2> QED
    BY <1>3, <2>1, <2>2, <2>3, <2>4, IdleUpToDate DEF KeysInv, K!TypeOK
<1> QED
  BY <1>6, <1>7, <1>8 DEF KeysInv

-----------------------------------------------------------------------------
(* The theorems.                                                           *)

LEMMA KeysInit == K!Init => KeysInv
<1> SUFFICES ASSUME K!Init
             PROVE  KeysInv
  OBVIOUS
<1>1. K!TypeOK
  BY IdleUpToDate DEF K!Init, K!TypeOK
<1>2. \A r \in Requests : UpToDate(saves[r]) /\ OfCharged(saves[r])
  BY IdleUpToDate DEF K!Init
<1>3. \A p \in Charges : ChargedAsNow(p)
  BY DEF K!Init, ChargedAsNow
<1> QED
  BY <1>1, <1>2, <1>3 DEF K!Init, KeysInv, K!EventsAccepted

LEMMA KeysStutter ==
  ASSUME KeysInv, UNCHANGED K!vars
  PROVE  KeysInv'
BY DEF K!vars, KeysInv, K!TypeOK, K!Complete, UpToDate, OfCharged, ChargedAsNow, K!EventsAccepted,
       K!Unsigned, Active, K!Stored

LEMMA KeysStep ==
  ASSUME KeysInv, K!Assumptions, K!Next
  PROVE  KeysInv'
<1>1. PICK r \in Requests :
        \/ K!ReadForSave(r) \/ K!WriteConfig(r)
        \/ K!startCheckout(r) \/ K!handleWebhook(r) \/ K!CountRows(r)
        \/ K!Charge(r) \/ K!CheckSignature(r)
  BY DEF K!Next
<1>0. UNCHANGED env
  BY DEF K!Next
<1>2. CASE K!startCheckout(r) \/ K!handleWebhook(r)
  BY <1>0, <1>2, CredentialsRead DEF K!startCheckout, K!handleWebhook
<1>3. CASE K!ReadForSave(r) \/ K!WriteConfig(r) \/ K!CountRows(r)
  BY <1>0, <1>3, SaveReads, WriteKeepsInv, CountKeepsInv
<1>4. CASE K!Charge(r) \/ K!CheckSignature(r)
  BY <1>0, <1>4, ChargeKeepsInv, SignatureKeepsInv
<1> QED
  BY <1>1, <1>2, <1>3, <1>4

\* The invariant holds of every reachable state.
LEMMA KeysInvariance == ASSUME K!Assumptions PROVE K!Spec => []KeysInv
<1>1. K!Init => KeysInv
  BY KeysInit
<1>2. KeysInv /\ [K!Next]_(K!vars) => KeysInv'
  BY KeysStep, KeysStutter
<1> QED
  BY <1>1, <1>2, PTL DEF K!Spec

\* What is switched on is complete, however saves overlap.
THEOREM KeysTyped == ASSUME K!Assumptions PROVE K!Spec => []K!TypeOK
<1>1. KeysInv => K!TypeOK
  BY DEF KeysInv
<1> QED
  BY <1>1, KeysInvariance, PTL

\* The events of a payment that was charged after the last save are accepted, if
\* the keys it was charged with hold the secret of events.
THEOREM NoEventLost == ASSUME K!Assumptions PROVE K!Spec => []K!EventsAccepted
<1>1. KeysInv => K!EventsAccepted
  BY DEF KeysInv
<1> QED
  BY <1>1, KeysInvariance, PTL

\* The public page and the panel always say the same of paying online.
THEOREM PanelIsRight == ASSUME K!Assumptions PROVE K!Spec => []K!PanelAgrees
<1>1. KeysInv => K!PanelAgrees
  BY DEF KeysInv, K!TypeOK, K!PanelAgrees, K!getConfig, K!onlinePaymentsEnabled, K!Complete, K!Stored
<1> QED
  BY <1>1, KeysInvariance, PTL

\* A key that is not typed again stays, unless a save was missed.
THEOREM UntypedKeysStay == ASSUME K!Assumptions PROVE K!Spec => K!KeysKept
<1> DEFINE Kept(r, k) ==
      saves[r].step = "write" /\ saves'[r] = K!Idle /\ k \notin saves[r].typed =>
        saves[r].behind \/ config'.keys[k] = K!Stored[k]
<1>1. ASSUME KeysInv, K!Next, NEW r \in Requests, NEW k \in Secrets
      PROVE  Kept(r, k)
  <2> SUFFICES ASSUME saves[r].step = "write", saves'[r] = K!Idle, k \notin saves[r].typed,
                      ~ saves[r].behind
               PROVE  config'.keys[k] = K!Stored[k]
    OBVIOUS
  <2>0. /\ saves[r] \in K!Request /\ saves[r] # K!Idle
        /\ saves[r].config.keys[k] = K!Stored[k]
    BY <1>1, IdleUpToDate DEF KeysInv, K!TypeOK, UpToDate
  <2>1. ASSUME NEW t \in Requests, NEW q, t # r, saves' = [saves EXCEPT ![t] = q]
        PROVE  FALSE
    BY <1>1, <2>0, <2>1 DEF KeysInv, K!TypeOK
  <2>2. ASSUME NEW t \in Requests, K!WriteConfig(t)
        PROVE  config'.keys[k] = K!Stored[k]
    <3>1. t = r
      <4>1. t # r => saves'[r] = [saves[r] EXCEPT !.behind = TRUE]
        BY <2>0, <2>2 DEF K!WriteConfig
      <4>2. [saves[r] EXCEPT !.behind = TRUE].step = "write"
        BY <2>0 DEF K!Request
      <4> QED
        BY <4>1, <4>2, IdleUpToDate
    <3> QED
      BY <2>0, <2>2, <3>1 DEF K!WriteConfig
  <2>3. PICK t \in Requests :
          \/ K!ReadForSave(t) \/ K!WriteConfig(t)
          \/ K!startCheckout(t) \/ K!handleWebhook(t) \/ K!CountRows(t)
          \/ K!Charge(t) \/ K!CheckSignature(t)
    BY <1>1 DEF K!Next
  <2>4. CASE K!ReadForSave(t) \/ K!startCheckout(t) \/ K!handleWebhook(t)
    BY <2>0, <2>1, <2>4 DEF K!ReadForSave, K!startCheckout, K!handleWebhook, K!Begin
  <2>5. CASE K!CountRows(t) \/ K!Charge(t) \/ K!CheckSignature(t)
    <3>1. t # r
      BY <2>5 DEF K!CountRows, K!Charge, K!CheckSignature
    <3>2. \E q : saves' = [saves EXCEPT ![t] = q]
      BY <2>5 DEF K!CountRows, K!Charge, K!CheckSignature, K!Refuse
    <3> QED
      BY <2>1, <3>1, <3>2
  <2> QED
    BY <2>2, <2>3, <2>4, <2>5
<1>2. KeysInv /\ [K!Next]_(K!vars) => [\A r \in Requests, k \in Secrets : Kept(r, k)]_(K!vars)
  BY <1>1
<1> QED
  BY <1>2, KeysInvariance, PTL DEF K!Spec, K!KeysKept

HIDE DEF K!IsIdle, K!Advance, K!Reply

-----------------------------------------------------------------------------
(* The menu, for every set of services, categories, names and requests.   *)

\* What slugs are made of: the words of names and the numbers appended.
Words == Seq(Nat \ {0}) \ {<<>>}

\* A row that was removed carries 0 and its own id, unless an update came
\* late; one that is listed carries neither.
Numbered(i) ==
  items[i] # None =>
    /\ items[i].slug \in Words \/ \E w \in Words : items[i].slug = M!Marked(w, i)
    /\ ~ items[i].deleted => items[i].slug \in Words
    /\ items[i].deleted /\ ~ items[i].late => items[i].slug \notin Words

\* A writer knows a row that exists and a slug fit for it.
Prepared(q) ==
  /\ q.op \in {"update", "remove"} => q.item \in Items /\ items[q.item] # None
  /\ q.op = "create" => q.item = None /\ q.category \in Categories \cup {None}
  /\ q.op = "update" => q.category \in Categories \cup {None, "kept"}
  /\ q.step = "look" => q.op \in {"create", "update"} /\ q.name \in Names /\ q.tries > 0
  /\ q.op = "create" => q.name \in Names
  /\ q.op = "update" => q.name \in Names \cup {<<>>}
  /\ q.step = "write" /\ q.op \in {"create", "remove"} => q.slug \in Words
  /\ q.step = "write" /\ q.op = "update" => q.slug \in Words \cup {<<>>}
  /\ q.step = "look" => q.slug = <<>>

\* Position n of a sequence, and no other, holds i.
Holds(s, i) == \E n \in 1 .. Len(s) : \A m \in 1 .. Len(s) : (s[m] = i) <=> (m = n)
Lacks(s, i) == \A m \in 1 .. Len(s) : s[m] # i

\* What was read of the menu is still so of the services nobody touched.
Faithful(q) ==
  /\ q.step = "menu" =>
       /\ q.read \in {{"grouped"}, {"loose"}, {"grouped", "loose"}}
       /\ \A i \in q.same :
            IF \/ "grouped" \in q.read /\ i \in M!Grouped
               \/ "loose" \in q.read /\ i \in M!Loose
              THEN Holds(q.shown, i) ELSE Lacks(q.shown, i)
  /\ q.step # "menu" => q.read = {}

MenuRequest ==
  [op : {"none", "create", "update", "remove", "menu"},
   step : {"idle", "look", "write", "menu"}, item : Items \cup {None},
   name : Names \cup {<<>>}, slug : Seq(Nat), tries : Nat,
   category : Categories \cup {None, "kept"},
   read : SUBSET {"grouped", "loose"}, shown : Seq(Items), same : SUBSET Items]

MenuInv ==
  /\ M!TypeOK /\ writes \in [Requests -> MenuRequest]
  /\ \A i \in Items : Numbered(i)
  /\ \A i, j \in Items :
       items[i] # None /\ items[j] # None /\ items[i].slug = items[j].slug => i = j
  /\ \A r \in Requests : Prepared(writes[r]) /\ Faithful(writes[r])

USE DEF M!IsIdle, M!Begin, M!Listed

-----------------------------------------------------------------------------
(* Slugs and sequences.                                                    *)

\* What a removal makes of a slug is no word any more, and tells whose it was.
LEMMA MarkedIsNoWord ==
  ASSUME M!Assumptions, NEW w \in Words, NEW i \in Items
  PROVE  /\ M!Marked(w, i) \in Seq(Nat) /\ M!Contains(M!Marked(w, i), 0)
         /\ M!Marked(w, i) \notin Words
         /\ M!Marked(w, i)[Len(M!Marked(w, i))] = i
<1>1. i \in Nat /\ i # 0 /\ w \in Seq(Nat)
  BY DEF M!Assumptions, Words
<1> DEFINE m == w \o <<0, i>>
<1>2. /\ m \in Seq(Nat) /\ Len(m) = Len(w) + 2 /\ Len(w) \in Nat
      /\ m[Len(w) + 1] = 0 /\ m[Len(w) + 2] = i
  BY <1>1
<1>3. m \notin Seq(Nat \ {0})
  BY <1>2
<1>4. M!Marked(w, i) = m /\ Len(m) \in Nat
  BY <1>2 DEF M!Marked
<1> HIDE DEF m
<1>5. M!Contains(m, 0)
  BY <1>2 DEF M!Contains
<1>6. m \notin Words
  BY <1>3 DEF Words
<1> QED
  BY <1>2, <1>4, <1>5, <1>6

\* Every candidate is a word.
LEMMA CandidateIsWord ==
  ASSUME M!Assumptions, NEW name \in Names, NEW n \in Nat, n > 0
  PROVE  M!Candidate(name, n) \in Words
<1>1. name \in Seq(Nat \ {0}) /\ name # <<>>
  BY DEF M!Assumptions
<1>2. Append(name, n) \in Seq(Nat \ {0}) /\ Len(Append(name, n)) = Len(name) + 1
  BY <1>1
<1>3. Append(name, n) # <<>>
  BY <1>1, <1>2
<1> QED
  BY <1>1, <1>2, <1>3 DEF M!Candidate, Words

\* What is finite, and of what size, is the same inside the catalogue and here.
LEMMA SameFinite ==
  ASSUME NEW T
  PROVE  M!IsFiniteSet(T) <=> IsFiniteSet(T)
BY DEF M!IsFiniteSet, IsFiniteSet

LEMMA SameSize ==
  ASSUME NEW T
  PROVE  M!Cardinality(T) = Cardinality(T)
BY DEF M!Cardinality, Cardinality, M!ExistsBijection, ExistsBijection,
       M!Bijection, Bijection, M!Injection, Injection, M!Surjection, Surjection,
       M!IsInjective, IsInjective

\* A set in a row holds its elements once each and nothing else.
LEMMA SetInARow ==
  ASSUME M!Assumptions, NEW T \in SUBSET Items
  PROVE  /\ M!SetToSeq(T) \in Seq(Items)
         /\ \A i \in T : Holds(M!SetToSeq(T), i)
         /\ \A i \in Items \ T : Lacks(M!SetToSeq(T), i)
<1>1. IsFiniteSet(T)
  BY FS_Subset, SameFinite DEF M!Assumptions
<1> DEFINE n == Cardinality(T)
<1>2. n \in Nat /\ ExistsBijection(1 .. n, T)
  BY <1>1, FS_CardinalityType
<1>3. PICK f \in [1 .. n -> T] :
        /\ \A a, b \in 1 .. n : f[a] = f[b] => a = b
        /\ \A i \in T : \E a \in 1 .. n : f[a] = i
  BY <1>2 DEF ExistsBijection, Bijection, Injection, Surjection, IsInjective
<1>4. \E g \in [1 .. n -> T] : IsInjective(g)
  BY <1>3 DEF IsInjective
<1>5. M!SetToSeq(T) \in [1 .. n -> T] /\ IsInjective(M!SetToSeq(T))
  BY <1>4, SameSize DEF M!SetToSeq, M!IsInjective, IsInjective
<1>6. M!SetToSeq(T) \in Injection(1 .. n, T)
  BY <1>5 DEF Injection
<1>7. Cardinality(1 .. n) = Cardinality(T)
  BY <1>2, FS_Interval
<1>8. M!SetToSeq(T) \in Surjection(1 .. n, T)
  BY <1>1, <1>6, <1>7, FS_Injection
<1>9. PICK s : s = M!SetToSeq(T)
  OBVIOUS
<1>10. /\ s \in [1 .. n -> T] /\ \A a, b \in 1 .. n : s[a] = s[b] => a = b
       /\ \A i \in T : \E a \in 1 .. n : s[a] = i
  BY <1>5, <1>8, <1>9 DEF IsInjective, Surjection
<1>11. s \in Seq(Items)
  BY <1>2, <1>10
<1>12. Len(s) = n
  BY <1>2, <1>10
<1>13. ASSUME NEW i \in T
       PROVE  Holds(s, i)
  <2>1. PICK a \in 1 .. n : s[a] = i
    BY <1>10
  <2>2. \A m \in 1 .. n : (s[m] = i) <=> (m = a)
    BY <1>10, <2>1
  <2> QED
    BY <1>12, <2>2 DEF Holds
<1>14. ASSUME NEW i \in Items \ T
       PROVE  Lacks(s, i)
  <2>1. \A m \in 1 .. n : s[m] \in T
    BY <1>10
  <2> QED
    BY <1>12, <2>1 DEF Lacks
<1> QED
  BY <1>9, <1>11, <1>13, <1>14

\* Of two sequences one after the other.
LEMMA OneAfterTheOther ==
  ASSUME NEW s \in Seq(Items), NEW t \in Seq(Items), NEW i \in Items
  PROVE  /\ Holds(s, i) /\ Lacks(t, i) => Holds(s \o t, i)
         /\ Lacks(s, i) /\ Holds(t, i) => Holds(s \o t, i)
         /\ Lacks(s, i) /\ Lacks(t, i) => Lacks(s \o t, i)
<1>1. PICK k \in Nat, l \in Nat :
        k = Len(s) /\ l = Len(t)
  OBVIOUS
<1>2. PICK u : u = s \o t
  OBVIOUS
<1>3. Len(u) = k + l
  BY <1>1, <1>2
<1>4. \A m \in 1 .. k : u[m] = s[m]
  BY <1>1, <1>2
<1>5. \A m \in 1 .. l : u[m + k] = t[m]
  BY <1>1, <1>2
<1>6. \A m \in 1 .. Len(u) : m \in 1 .. k \/ \E j \in 1 .. l : m = j + k
  <2> SUFFICES ASSUME NEW m \in 1 .. Len(u), m \notin 1 .. k
               PROVE  \E j \in 1 .. l : m = j + k
    OBVIOUS
  <2>1. m - k \in 1 .. l /\ m = (m - k) + k
    BY <1>3
  <2> QED
    BY <1>3, <2>1
<1>7. ASSUME Holds(s, i), Lacks(t, i)
      PROVE  Holds(u, i)
  <2>1. PICK n \in 1 .. k : \A m \in 1 .. k : (s[m] = i) <=> (m = n)
    BY <1>1, <1>7 DEF Holds
  <2>2. \A m \in 1 .. l : t[m] # i
    BY <1>1, <1>7 DEF Lacks
  <2>3. ASSUME NEW m \in 1 .. Len(u)
        PROVE  (u[m] = i) <=> (m = n)
    <3>1. CASE m \in 1 .. k
      BY <1>4, <2>1, <3>1
    <3>2. CASE \E j \in 1 .. l : m = j + k
      <4>1. PICK j \in 1 .. l : m = j + k
        BY <3>2
      <4>2. u[j + k] = t[j] /\ t[j] # i
        BY <1>5, <2>2
      <4>3. m # n /\ u[m] # i
        BY <4>1, <4>2
      <4> QED
        BY <4>3
    <3> QED
      BY <1>6, <3>1, <3>2
  <2>4. n \in 1 .. Len(u)
    BY <1>3
  <2>5. \E x \in 1 .. Len(u) : \A m \in 1 .. Len(u) : (u[m] = i) <=> (m = x)
    BY <2>3, <2>4, Zenon
  <2> QED
    BY <2>5 DEF Holds
<1>8. ASSUME Lacks(s, i), Holds(t, i)
      PROVE  Holds(u, i)
  <2>1. PICK n \in 1 .. l : \A m \in 1 .. l : (t[m] = i) <=> (m = n)
    BY <1>1, <1>8 DEF Holds
  <2>2. \A m \in 1 .. k : s[m] # i
    BY <1>1, <1>8 DEF Lacks
  <2>3. ASSUME NEW m \in 1 .. Len(u)
        PROVE  (u[m] = i) <=> (m = n + k)
    <3>1. CASE m \in 1 .. k
      BY <1>4, <2>1, <2>2, <3>1
    <3>2. CASE \E j \in 1 .. l : m = j + k
      <4>1. PICK j \in 1 .. l : m = j + k
        BY <3>2
      <4>2. u[j + k] = t[j] /\ ((t[j] = i) <=> (j = n))
        BY <1>5, <2>1
      <4> QED
        BY <4>1, <4>2
    <3> QED
      BY <1>6, <3>1, <3>2
  <2>4. n + k \in 1 .. Len(u)
    BY <1>3
  <2>5. \E x \in 1 .. Len(u) : \A m \in 1 .. Len(u) : (u[m] = i) <=> (m = x)
    BY <2>3, <2>4, Zenon
  <2> QED
    BY <2>5 DEF Holds
<1>9. ASSUME Lacks(s, i), Lacks(t, i)
      PROVE  Lacks(u, i)
  <2>1. (\A m \in 1 .. k : s[m] # i) /\ (\A m \in 1 .. l : t[m] # i)
    BY <1>1, <1>9 DEF Lacks
  <2>2. ASSUME NEW m \in 1 .. Len(u)
        PROVE  u[m] # i
    <3>1. CASE m \in 1 .. k
      BY <1>4, <2>1, <3>1
    <3>2. CASE \E j \in 1 .. l : m = j + k
      <4>1. PICK j \in 1 .. l : m = j + k
        BY <3>2
      <4>2. u[j + k] = t[j] /\ t[j] # i
        BY <1>5, <2>1
      <4> QED
        BY <4>1, <4>2
    <3> QED
      BY <1>6, <3>1, <3>2
  <2> QED
    BY <2>2 DEF Lacks
<1> QED
  BY <1>2, <1>7, <1>8, <1>9

-----------------------------------------------------------------------------
(* Steps that only change what a request knows.                            *)

LEMMA IdleFits ==
  ASSUME M!Assumptions
  PROVE  M!Idle \in MenuRequest /\ Prepared(M!Idle) /\ Faithful(M!Idle)
BY DEF M!Idle, MenuRequest, Prepared, Faithful

LEMMA WriterReadsNoMenu ==
  ASSUME NEW q, q.step # "menu", q.read = {}
  PROVE  Faithful(q)
BY DEF Faithful

LEMMA OnlyMenuRequest ==
  ASSUME MenuInv, NEW r \in Requests, NEW q \in MenuRequest, Prepared(q), Faithful(q),
         writes' = [writes EXCEPT ![r] = q], UNCHANGED <<items, categories>>
  PROVE  MenuInv'
<1>1. writes' \in [Requests -> MenuRequest]
  BY DEF MenuInv
<1>2. ASSUME NEW s \in Requests
      PROVE  /\ writes'[s] \in MenuRequest /\ Prepared(writes[s])' /\ Faithful(writes[s])'
  <2>1. PICK p \in MenuRequest : p = writes'[s] /\ Prepared(p) /\ Faithful(p)
    BY DEF MenuInv
  <2> QED
    BY <2>1 DEF Prepared, Faithful, M!Grouped, M!Loose
<1>3. M!TypeOK'
  BY <1>2 DEF MenuInv, M!TypeOK, MenuRequest
<1> QED
  BY <1>1, <1>2, <1>3 DEF MenuInv, Numbered

\* Requests that begin to write.
LEMMA WriterBegins ==
  ASSUME M!Assumptions, MenuInv, NEW r \in Requests,
         M!ReadForCreate(r) \/ M!ReadForUpdate(r) \/ M!ReadForRemove(r)
  PROVE  MenuInv'
<1>1. CASE M!ReadForCreate(r)
  <2>1. PICK name \in Names, c \in Categories \cup {None} :
          writes' = [writes EXCEPT ![r] =
            [M!Idle EXCEPT !.op = "create", !.step = "look", !.name = name, !.category = c]]
    BY <1>1 DEF M!ReadForCreate
  <2>2. PICK q : q = [M!Idle EXCEPT !.op = "create", !.step = "look", !.name = name,
                        !.category = c]
    OBVIOUS
  <2>3. /\ q.op = "create" /\ q.step = "look" /\ q.item = None /\ q.name = name
        /\ q.slug = <<>> /\ q.tries = 1 /\ q.category = c /\ q.read = {}
    BY <2>2 DEF M!Idle
  <2>4. q \in MenuRequest
    <3>1. PICK d \in MenuRequest : d = M!Idle
      BY IdleFits
    <3>2. q = [d EXCEPT !.op = "create", !.step = "look", !.name = name, !.category = c]
      BY <2>2, <3>1
    <3> QED
      BY <3>2 DEF MenuRequest
  <2>5. Prepared(q) /\ Faithful(q)
    BY <2>3, WriterReadsNoMenu DEF Prepared
  <2> QED
    BY <1>1, <2>1, <2>2, <2>4, <2>5, OnlyMenuRequest DEF M!ReadForCreate
<1>2. CASE M!ReadForUpdate(r)
  <2>1. PICK i \in Items, name \in Names \cup {<<>>}, c \in M!GivenCategories,
             step \in {"write", "look"} :
          /\ items[i] # None /\ (step = "look" => name # <<>>)
          /\ writes' = [writes EXCEPT ![r] =
               [M!Idle EXCEPT !.op = "update", !.step = step, !.item = i, !.name = name,
                  !.category = c]]
    BY <1>2 DEF M!ReadForUpdate
  <2>2. PICK q : q = [M!Idle EXCEPT !.op = "update", !.step = step, !.item = i,
                        !.name = name, !.category = c]
    OBVIOUS
  <2>3. c \in Categories \cup {None, "kept"}
    BY DEF M!GivenCategories
  <2>4. /\ q.op = "update" /\ q.step = step /\ q.item = i /\ q.name = name
        /\ q.slug = <<>> /\ q.tries = 1 /\ q.category = c /\ q.read = {}
    BY <2>2 DEF M!Idle
  <2>5. q \in MenuRequest
    <3>1. PICK d \in MenuRequest : d = M!Idle
      BY IdleFits
    <3>2. q = [d EXCEPT !.op = "update", !.step = step, !.item = i, !.name = name,
                 !.category = c]
      BY <2>2, <3>1
    <3> QED
      BY <2>3, <3>2 DEF MenuRequest
  <2>6. Prepared(q) /\ Faithful(q)
    BY <2>1, <2>3, <2>4, WriterReadsNoMenu DEF Prepared
  <2> QED
    BY <1>2, <2>1, <2>2, <2>5, <2>6, OnlyMenuRequest DEF M!ReadForUpdate
<1>3. CASE M!ReadForRemove(r)
  <2>1. PICK i \in Items :
          /\ M!Listed(i)
          /\ writes' = [writes EXCEPT ![r] =
               [M!Idle EXCEPT !.op = "remove", !.step = "write", !.item = i,
                  !.slug = items[i].slug]]
    BY <1>3 DEF M!ReadForRemove
  <2>2. PICK slug : slug = items[i].slug
    OBVIOUS
  <2>3. PICK q : q = [M!Idle EXCEPT !.op = "remove", !.step = "write", !.item = i,
                        !.slug = slug]
    OBVIOUS
  <2>4. slug \in Words /\ slug \in Seq(Nat)
    BY <2>1, <2>2 DEF MenuInv, Numbered, M!TypeOK, M!Item
  <2>5. /\ q.op = "remove" /\ q.step = "write" /\ q.item = i /\ q.slug = slug
        /\ q.read = {}
    BY <2>3 DEF M!Idle
  <2>6. q \in MenuRequest
    <3>1. PICK d \in MenuRequest : d = M!Idle
      BY IdleFits
    <3>2. q = [d EXCEPT !.op = "remove", !.step = "write", !.item = i, !.slug = slug]
      BY <2>3, <3>1
    <3> QED
      BY <2>4, <3>2 DEF MenuRequest
  <2>7. Prepared(q) /\ Faithful(q)
    BY <2>1, <2>4, <2>5, WriterReadsNoMenu DEF Prepared
  <2> QED
    BY <1>3, <2>1, <2>2, <2>3, <2>6, <2>7, OnlyMenuRequest DEF M!ReadForRemove
<1> QED
  BY <1>1, <1>2, <1>3

LEMMA LookUpKeepsMenu ==
  ASSUME M!Assumptions, MenuInv, NEW r \in Requests, M!LookUp(r)
  PROVE  MenuInv'
<1>1. PICK q \in MenuRequest : q = writes[r] /\ Prepared(q) /\ Faithful(q) /\ q.step = "look"
  BY DEF MenuInv, M!LookUp
<1>2. q.name \in Names /\ q.tries \in Nat /\ q.tries > 0
  BY <1>1 DEF Prepared, MenuRequest
<1>3. PICK slug \in Words : slug = M!Candidate(q.name, q.tries)
  BY <1>2, CandidateIsWord
<1>4. slug \in Seq(Nat)
  BY DEF Words
<1>5. PICK p : p \in {[q EXCEPT !.tries = @ + 1],
                      [q EXCEPT !.step = "write", !.slug = slug, !.tries = 1]}
               /\ writes' = [writes EXCEPT ![r] = p]
  BY <1>1, <1>3 DEF M!LookUp
<1>6. p \in MenuRequest
  <2>1. CASE p = [q EXCEPT !.tries = @ + 1]
    BY <1>2, <2>1 DEF MenuRequest
  <2>2. CASE p = [q EXCEPT !.step = "write", !.slug = slug, !.tries = 1]
    BY <1>4, <2>2 DEF MenuRequest
  <2> QED
    BY <1>5, <2>1, <2>2
<1>7. Prepared(p) /\ Faithful(p)
  <2>1. CASE p = [q EXCEPT !.tries = @ + 1]
    <3>1. /\ p.step = "look" /\ p.tries > 0 /\ p.op = q.op /\ p.item = q.item
          /\ p.category = q.category /\ p.name = q.name /\ p.slug = q.slug
          /\ p.read = q.read
      BY <1>1, <1>2, <2>1 DEF MenuRequest
    <3> QED
      BY <1>1, <3>1 DEF Prepared, Faithful
  <2>2. CASE p = [q EXCEPT !.step = "write", !.slug = slug, !.tries = 1]
    <3>1. /\ p.step = "write" /\ p.op = q.op /\ p.item = q.item
          /\ p.category = q.category /\ p.name = q.name /\ p.slug = slug
          /\ p.read = q.read
      BY <1>1, <2>2 DEF MenuRequest
    <3> QED
      BY <1>1, <3>1 DEF Prepared, Faithful
  <2> QED
    BY <1>5, <2>1, <2>2
<1> QED
  BY <1>5, <1>6, <1>7, OnlyMenuRequest DEF M!LookUp

\* A request that is refused, or answered with the menu.
LEMMA AnswerKeepsMenu ==
  ASSUME M!Assumptions, MenuInv, NEW r \in Requests, writes' = [writes EXCEPT ![r] = M!Idle],
         UNCHANGED <<items, categories>>
  PROVE  MenuInv'
BY IdleFits, OnlyMenuRequest

-----------------------------------------------------------------------------
(* Steps that write.                                                       *)

\* A row is written that keeps its slug to itself.
LEMMA RowWritten ==
  ASSUME M!Assumptions, MenuInv, NEW r \in Requests, NEW i \in Items, NEW row \in M!Item,
         items' = [items EXCEPT ![i] = row], UNCHANGED categories, M!Written(r, i),
         row.slug \in Words \/ \E w \in Words : row.slug = M!Marked(w, i),
         ~ row.deleted => row.slug \in Words,
         row.deleted /\ ~ row.late => row.slug \notin Words,
         \A j \in Items \ {i} : items[j] # None => items[j].slug # row.slug,
         row.category # None => categories[row.category] # "deleted"
  PROVE  MenuInv'
<1>1. /\ row # None
      /\ \A j \in Items : items'[j] = IF j = i THEN row ELSE items[j]
      /\ items \in [Items -> M!Item \cup {None}]
  BY DEF MenuInv, M!TypeOK, M!Assumptions
<1>2. ASSUME NEW s \in Requests
      PROVE  writes'[s] \in MenuRequest /\ Prepared(writes[s])' /\ Faithful(writes[s])'
  <2>1. CASE s = r
    <3>1. writes'[s] = M!Idle
      BY <2>1 DEF M!Written
    <3> QED
      BY <3>1, IdleFits DEF M!Idle, Prepared, Faithful
  <2>2. CASE s # r
    <3>1. PICK p \in MenuRequest : p = writes[s] /\ Prepared(p) /\ Faithful(p)
      BY DEF MenuInv
    <3>2. PICK q : q = [p EXCEPT !.same = @ \ {i}]
      OBVIOUS
    <3>3. q = writes'[s]
      BY <2>2, <3>1, <3>2 DEF M!Written
    <3>4. /\ q \in MenuRequest /\ q.op = p.op /\ q.step = p.step /\ q.item = p.item
          /\ q.name = p.name /\ q.slug = p.slug /\ q.tries = p.tries
          /\ q.category = p.category /\ q.read = p.read /\ q.shown = p.shown
          /\ q.same = p.same \ {i} /\ p.same \subseteq Items
      BY <3>2 DEF MenuRequest
    <3>5. Prepared(writes[s])'
      <4>1. \A j \in Items : items[j] # None => items'[j] # None
        BY <1>1
      <4> QED
        BY <3>1, <3>3, <3>4, <4>1 DEF Prepared
    <3>6. \A j \in q.same : (j \in M!Grouped <=> j \in M!Grouped') /\ (j \in M!Loose <=> j \in M!Loose')
      BY <1>1, <3>4 DEF M!Grouped, M!Loose
    <3>7. Faithful(writes[s])'
      BY <3>1, <3>3, <3>4, <3>6 DEF Faithful
    <3> QED
      BY <3>3, <3>4, <3>5, <3>7
  <2> QED
    BY <2>1, <2>2
<1>3. writes' \in [Requests -> MenuRequest]
  <2>1. writes' = [s \in Requests |-> writes'[s]]
    BY DEF M!Written
  <2> QED
    BY <1>2, <2>1
<1>4. M!TypeOK'
  <2>1. items' \in [Items -> M!Item \cup {None}]
    BY <1>1
  <2>2. \A j \in Items : items'[j] # None /\ items'[j].category # None =>
          categories'[items'[j].category] # "deleted"
    BY <1>1 DEF MenuInv, M!TypeOK
  <2> QED
    BY <1>2, <2>1, <2>2 DEF MenuInv, M!TypeOK, MenuRequest
<1>5. \A j \in Items : Numbered(j)'
  BY <1>1 DEF MenuInv, Numbered
<1>6. \A j, k \in Items :
        items'[j] # None /\ items'[k] # None /\ items'[j].slug = items'[k].slug => j = k
  BY <1>1 DEF MenuInv
<1> QED
  BY <1>2, <1>3, <1>4, <1>5, <1>6 DEF MenuInv

LEMMA CreateKeepsMenu ==
  ASSUME M!Assumptions, MenuInv, NEW r \in Requests, M!CommitCreate(r)
  PROVE  MenuInv'
<1>1. PICK q \in MenuRequest : q = writes[r] /\ Prepared(q) /\ q.op = "create" /\ q.step = "write"
  BY DEF MenuInv, M!CommitCreate
<1>2. /\ q.item = None /\ q.slug \in Words /\ q.slug # <<>> /\ q.slug \in Seq(Nat)
      /\ q.name \in Names /\ q.category \in Categories \cup {None}
  BY <1>1 DEF Prepared, MenuRequest, Words
<1>3. CASE /\ M!Admits(q)
           /\ \E i \in M!NewId(items) :
                /\ items' = [items EXCEPT ![i] =
                     [name |-> q.name, slug |-> q.slug, category |-> q.category,
                      active |-> TRUE, deleted |-> FALSE, late |-> FALSE]]
                /\ M!Written(r, i)
  <2>1. PICK i \in M!NewId(items) :
          /\ items' = [items EXCEPT ![i] =
               [name |-> q.name, slug |-> q.slug, category |-> q.category,
                active |-> TRUE, deleted |-> FALSE, late |-> FALSE]]
          /\ M!Written(r, i)
    BY <1>3
  <2>2. i \in Items
    BY DEF M!NewId, MenuInv, M!TypeOK
  <2>3. PICK row :
          row = [name |-> q.name, slug |-> q.slug, category |-> q.category,
                 active |-> TRUE, deleted |-> FALSE, late |-> FALSE]
    OBVIOUS
  <2>4. /\ row \in M!Item /\ row.slug = q.slug /\ ~ row.deleted
        /\ row.category = q.category
    BY <1>2, <2>3 DEF M!Item
  <2>5. \A j \in Items \ {i} : items[j] # None => items[j].slug # row.slug
    BY <1>2, <1>3, <2>4 DEF M!Admits, M!SlugTaken, M!Assumptions
  <2>6. row.category # None => categories[row.category] # "deleted"
    BY <1>2, <1>3, <2>4 DEF M!Admits
  <2>7. items' = [items EXCEPT ![i] = row] /\ UNCHANGED categories
    BY <2>1, <2>3 DEF M!CommitCreate
  <2>8. row.slug \in Words
    BY <1>2, <2>4
  <2> QED
    BY <2>1, <2>2, <2>4, <2>5, <2>6, <2>7, <2>8, RowWritten
<1>4. CASE writes' = [writes EXCEPT ![r] = M!Idle] /\ UNCHANGED items
  BY <1>4, AnswerKeepsMenu DEF M!CommitCreate
<1> QED
  BY <1>1, <1>3, <1>4 DEF M!CommitCreate

LEMMA UpdateKeepsMenu ==
  ASSUME M!Assumptions, MenuInv, NEW r \in Requests, M!CommitUpdate(r)
  PROVE  MenuInv'
<1>1. PICK q \in MenuRequest : q = writes[r] /\ Prepared(q) /\ q.op = "update" /\ q.step = "write"
  BY DEF MenuInv, M!CommitUpdate
<1>2. /\ q.item \in Items /\ items[q.item] # None
      /\ q.slug \in Words \cup {<<>>} /\ q.slug \in Seq(Nat)
      /\ q.name \in Names \cup {<<>>} /\ q.category \in Categories \cup {None, "kept"}
  BY <1>1 DEF Prepared, MenuRequest
<1>3. PICK i \in Items, old \in M!Item :
        /\ i = q.item /\ old = items[i]
        /\ old.slug \in Words \/ \E w \in Words : old.slug = M!Marked(w, i)
        /\ ~ old.deleted => old.slug \in Words
        /\ old.category # None => categories[old.category] # "deleted"
  BY <1>2 DEF MenuInv, M!TypeOK, Numbered
<1>4. CASE /\ M!Admits(q)
           /\ \E active \in BOOLEAN :
                items' = [items EXCEPT ![q.item] = M!Updated(q, items[q.item], active)]
           /\ M!Written(r, q.item)
  <2>1. PICK active \in BOOLEAN : items' = [items EXCEPT ![i] = M!Updated(q, old, active)]
    BY <1>3, <1>4
  <2>2. PICK name \in Names, category \in Categories \cup {None}, slug \in Seq(Nat),
             late \in BOOLEAN :
          /\ name = IF q.name = <<>> THEN old.name ELSE q.name
          /\ category = IF q.category = "kept" THEN old.category ELSE q.category
          /\ slug = IF q.slug = <<>> THEN old.slug ELSE q.slug
          /\ late = (old.late \/ old.deleted)
    BY <1>2 DEF M!Item
  <2>3. PICK row :
          row = [old EXCEPT !.name = name, !.active = active, !.category = category,
                            !.slug = slug, !.late = late]
    OBVIOUS
  <2>4. /\ row \in M!Item /\ row.slug = slug /\ row.deleted = old.deleted
        /\ row.category = category /\ row.late = late
    BY <2>3 DEF M!Item
  <2>5. items' = [items EXCEPT ![i] = row]
    BY <2>1, <2>2, <2>3 DEF M!Updated
  <2>6. \A j \in Items \ {i} : items[j] # None => items[j].slug # row.slug
    <3>1. CASE q.slug = <<>>
      BY <1>2, <1>3, <2>2, <2>4, <3>1 DEF MenuInv
    <3>2. CASE q.slug # <<>>
      BY <1>3, <1>4, <2>2, <2>4, <3>2 DEF M!Admits, M!SlugTaken
    <3> QED
      BY <3>1, <3>2
  <2>7. row.category # None => categories[row.category] # "deleted"
    BY <1>2, <1>3, <1>4, <2>2, <2>4 DEF M!Admits
  <2>8. row.slug \in Words \/ \E w \in Words : row.slug = M!Marked(w, i)
    BY <1>2, <1>3, <2>2, <2>4
  <2>9. /\ ~ row.deleted => row.slug \in Words
        /\ row.deleted => row.late
    BY <1>2, <1>3, <2>2, <2>4
  <2>10. UNCHANGED categories /\ M!Written(r, i)
    BY <1>3, <1>4 DEF M!CommitUpdate
  <2> QED
    BY <2>4, <2>5, <2>6, <2>7, <2>8, <2>9, <2>10, RowWritten
<1>5. CASE writes' = [writes EXCEPT ![r] = M!Idle] /\ UNCHANGED items
  BY <1>5, AnswerKeepsMenu DEF M!CommitUpdate
<1>6. items[q.item].active \in BOOLEAN
  BY <1>3 DEF M!Item
<1>7. (IF "arrange" \in Handlers["menu"] THEN BOOLEAN ELSE {items[q.item].active}) \subseteq BOOLEAN
  BY <1>6
<1> QED
  BY <1>1, <1>4, <1>5, <1>7 DEF M!CommitUpdate

LEMMA RemoveKeepsMenu ==
  ASSUME M!Assumptions, MenuInv, NEW r \in Requests, M!CommitRemove(r)
  PROVE  MenuInv'
<1>1. PICK q \in MenuRequest : q = writes[r] /\ Prepared(q) /\ q.op = "remove" /\ q.step = "write"
  BY DEF MenuInv, M!CommitRemove
<1>2. q.item \in Items /\ items[q.item] # None /\ q.slug \in Words
  BY <1>1 DEF Prepared
<1>3. PICK i \in Items, old \in M!Item, w \in Words :
        /\ i = q.item /\ old = items[i] /\ w = q.slug
        /\ old.category # None => categories[old.category] # "deleted"
  BY <1>2 DEF MenuInv, M!TypeOK
<1>4. PICK slug \in Seq(Nat) :
        slug = M!Marked(w, i) /\ slug \notin Words /\ slug[Len(slug)] = i
  BY <1>3, MarkedIsNoWord
<1>5. PICK row : row = [old EXCEPT !.deleted = TRUE, !.active = FALSE, !.slug = slug]
  OBVIOUS
<1>6. /\ row \in M!Item /\ row.deleted /\ row.slug = slug
      /\ row.category = old.category
  BY <1>5 DEF M!Item
<1>7. items' = [items EXCEPT ![i] = row]
  <2>1. items' = [items EXCEPT ![i] =
          [items[i] EXCEPT !.deleted = TRUE, !.active = FALSE, !.slug = slug]]
    BY <1>1, <1>3, <1>4 DEF M!CommitRemove
  <2> QED
    BY <1>3, <1>5, <2>1
<1>8. ASSUME NEW j \in Items \ {i}, items[j] # None
      PROVE  items[j].slug # slug
  <2>1. items[j].slug \in Words \/ \E v \in Words : items[j].slug = M!Marked(v, j)
    BY <1>8 DEF MenuInv, Numbered
  <2>2. \A v \in Words : M!Marked(v, j)[Len(M!Marked(v, j))] = j
    BY MarkedIsNoWord
  <2> QED
    BY <1>4, <2>1, <2>2
<1>9. UNCHANGED categories /\ M!Written(r, i)
  BY <1>1, <1>3 DEF M!CommitRemove
<1>10. row.slug \in Words \/ \E v \in Words : row.slug = M!Marked(v, i)
  BY <1>4, <1>6
<1>11. row.category # None => categories[row.category] # "deleted"
  BY <1>3, <1>6
<1>12. \A j \in Items \ {i} : items[j] # None => items[j].slug # row.slug
  BY <1>6, <1>8
<1> QED
  BY <1>4, <1>6, <1>7, <1>9, <1>10, <1>11, <1>12, RowWritten

LEMMA ChangeCategoryKeepsMenu ==
  ASSUME M!Assumptions, MenuInv, NEW c \in Categories, NEW to \in {"on", "off", "deleted"},
         M!ChangeCategory(c, to)
  PROVE  MenuInv'
<1>1. /\ \A d \in Categories : categories'[d] = IF d = c THEN to ELSE categories[d]
      /\ categories' \in [Categories -> {"on", "off", "deleted"}]
  BY DEF M!ChangeCategory, MenuInv, M!TypeOK
<1>2. ASSUME NEW i \in Items
      PROVE  /\ items'[i] \in M!Item \cup {None}
             /\ (items'[i] = None) <=> (items[i] = None)
             /\ items[i] # None =>
                  /\ items'[i].slug = items[i].slug /\ items'[i].deleted = items[i].deleted
                  /\ items'[i].late = items[i].late /\ items'[i].active = items[i].active
                  /\ items[i].category # c => items'[i] = items[i]
                  /\ items'[i].category \in {items[i].category, None}
                  /\ to = "deleted" => items'[i].category # c
  <2>1. None \notin M!Item /\ None # c
    BY DEF M!Assumptions
  <2>2. CASE to = "deleted" /\ items[i] # None /\ items[i].category = c
    <3>1. PICK old \in M!Item : old = items[i]
      BY <2>2 DEF MenuInv, M!TypeOK
    <3>2. PICK row : row = [old EXCEPT !.category = None]
      OBVIOUS
    <3>3. items'[i] = row
      BY <2>2, <3>1, <3>2 DEF M!ChangeCategory
    <3>4. /\ row \in M!Item /\ row.slug = old.slug /\ row.deleted = old.deleted
          /\ row.late = old.late /\ row.active = old.active /\ row.category = None
      BY <3>2 DEF M!Item
    <3> QED
      BY <2>1, <2>2, <3>1, <3>3, <3>4
  <2>3. CASE ~ (to = "deleted" /\ items[i] # None /\ items[i].category = c)
    <3>1. items'[i] = items[i]
      BY <2>3 DEF M!ChangeCategory
    <3> QED
      BY <2>3, <3>1 DEF MenuInv, M!TypeOK
  <2> QED
    BY <2>2, <2>3
<1>3. ASSUME NEW r \in Requests
      PROVE  writes'[r] \in MenuRequest /\ Prepared(writes[r])' /\ Faithful(writes[r])'
  <2>1. PICK p \in MenuRequest : p = writes[r] /\ Prepared(p) /\ Faithful(p)
    BY DEF MenuInv
  <2>2. PICK same \in SUBSET Items :
          /\ same = {i \in p.same : items[i] = None \/ items[i].category # c}
          /\ \A i \in same : i \in p.same /\ (items[i] = None \/ items[i].category # c)
    <3>1. p.same \subseteq Items
      BY DEF MenuRequest
    <3>2. PICK kept : kept = {i \in p.same : items[i] = None \/ items[i].category # c}
      OBVIOUS
    <3>3. /\ kept \in SUBSET Items
          /\ \A i \in kept : i \in p.same /\ (items[i] = None \/ items[i].category # c)
      BY <3>1, <3>2
    <3> QED
      BY <3>2, <3>3
  <2>3. PICK q : q = [p EXCEPT !.same = same]
    OBVIOUS
  <2>4. q = writes'[r]
    BY <2>1, <2>2, <2>3 DEF M!ChangeCategory
  <2>5. /\ q \in MenuRequest /\ q.op = p.op /\ q.step = p.step /\ q.item = p.item
        /\ q.name = p.name /\ q.slug = p.slug /\ q.tries = p.tries
        /\ q.category = p.category /\ q.read = p.read /\ q.shown = p.shown
        /\ q.same = same
    BY <2>3 DEF MenuRequest
  <2>6. Prepared(writes[r])'
    BY <1>2, <2>1, <2>4, <2>5 DEF Prepared
  <2>7. ASSUME NEW i \in q.same
        PROVE  (i \in M!Grouped <=> i \in M!Grouped') /\ (i \in M!Loose <=> i \in M!Loose')
    <3>1. i \in Items /\ items'[i] = items[i]
      BY <1>2, <2>2, <2>5
    <3>2. CASE items[i] = None
      BY <3>1, <3>2 DEF M!Grouped, M!Loose
    <3>3. CASE items[i] # None
      <4>1. items[i].category # c
        BY <2>2, <2>5, <3>3
      <4>2. items[i].category \in Categories \cup {None}
        BY <3>1, <3>3 DEF MenuInv, M!TypeOK, M!Item
      <4>3. items[i].category # None => categories'[items[i].category] = categories[items[i].category]
        BY <1>1, <4>1, <4>2
      <4> QED
        BY <3>1, <4>3 DEF M!Grouped, M!Loose
    <3> QED
      BY <3>2, <3>3
  <2>8. Faithful(writes[r])'
    BY <2>1, <2>2, <2>4, <2>5, <2>7 DEF Faithful
  <2> QED
    BY <2>4, <2>5, <2>6, <2>8
<1>4. writes' \in [Requests -> MenuRequest]
  <2>1. writes' = [r \in Requests |-> writes'[r]]
    BY DEF M!ChangeCategory
  <2> QED
    BY <1>3, <2>1
<1>5. items' \in [Items -> M!Item \cup {None}]
  <2>1. items' = [i \in Items |-> items'[i]]
    BY DEF M!ChangeCategory
  <2> QED
    BY <1>2, <2>1
<1>6. ASSUME NEW i \in Items, items'[i] # None, items'[i].category # None
      PROVE  categories'[items'[i].category] # "deleted"
  <2>1. /\ items[i] # None /\ items'[i].category = items[i].category
        /\ to = "deleted" => items[i].category # c
    BY <1>2, <1>6
  <2>2. items[i].category \in Categories /\ categories[items[i].category] # "deleted"
    BY <1>6, <2>1 DEF MenuInv, M!TypeOK, M!Item
  <2> QED
    BY <1>1, <2>1, <2>2
<1>7. M!TypeOK'
  BY <1>1, <1>3, <1>5, <1>6 DEF M!TypeOK, MenuRequest
<1>8. \A i \in Items : Numbered(i)'
  BY <1>2 DEF MenuInv, Numbered
<1>9. \A i, j \in Items :
        items'[i] # None /\ items'[j] # None /\ items'[i].slug = items'[j].slug => i = j
  BY <1>2 DEF MenuInv
<1> QED
  BY <1>3, <1>4, <1>7, <1>8, <1>9 DEF MenuInv

-----------------------------------------------------------------------------
(* Steps that read the menu.                                               *)

LEMMA ReadKeepsMenu ==
  ASSUME M!Assumptions, MenuInv, NEW r \in Requests, M!ReadMenu(r)
  PROVE  MenuInv'
<1>1. PICK of \in {"grouped", "loose"}, T \in SUBSET Items :
        /\ T = IF of = "grouped" THEN M!Grouped ELSE M!Loose
        /\ writes' = [writes EXCEPT ![r] =
             [M!Idle EXCEPT !.op = "menu", !.step = "menu", !.read = {of},
                !.shown = M!SetToSeq(T), !.same = Items]]
  <2>1. M!Grouped \subseteq Items /\ M!Loose \subseteq Items
    BY DEF M!Grouped, M!Loose
  <2>2. CASE writes' = [writes EXCEPT ![r] =
               [M!Idle EXCEPT !.op = "menu", !.step = "menu", !.read = {"grouped"},
                  !.shown = M!SetToSeq(M!Grouped), !.same = Items]]
    <3>1. "grouped" \in {"grouped", "loose"} /\ M!Grouped \in SUBSET Items
      BY <2>1
    <3> QED
      BY <2>2, <3>1
  <2>3. CASE writes' = [writes EXCEPT ![r] =
               [M!Idle EXCEPT !.op = "menu", !.step = "menu", !.read = {"loose"},
                  !.shown = M!SetToSeq(M!Loose), !.same = Items]]
    <3>1. "loose" \in {"grouped", "loose"} /\ M!Loose \in SUBSET Items
      BY <2>1
    <3> QED
      BY <2>3, <3>1
  <2> QED
    BY <2>2, <2>3 DEF M!ReadMenu
<1>2. PICK shown \in Seq(Items) :
        /\ shown = M!SetToSeq(T)
        /\ \A i \in T : Holds(shown, i)
        /\ \A i \in Items \ T : Lacks(shown, i)
  BY SetInARow
<1>3. PICK q : q = [M!Idle EXCEPT !.op = "menu", !.step = "menu", !.read = {of},
                      !.shown = shown, !.same = Items]
  OBVIOUS
<1>4. /\ q.op = "menu" /\ q.step = "menu" /\ q.read = {of} /\ q.shown = shown
      /\ q.same = Items
  BY <1>3 DEF M!Idle
<1>5. q \in MenuRequest
  <2>1. PICK d \in MenuRequest : d = M!Idle
    BY IdleFits
  <2>2. q = [d EXCEPT !.op = "menu", !.step = "menu", !.read = {of},
               !.shown = shown, !.same = Items]
    BY <1>3, <2>1
  <2> QED
    BY <2>2 DEF MenuRequest
<1>6. Prepared(q)
  BY <1>4 DEF Prepared
<1>7. Faithful(q)
  <2>1. CASE of = "grouped"
    BY <1>1, <1>2, <1>4, <2>1 DEF Faithful
  <2>2. CASE of = "loose"
    BY <1>1, <1>2, <1>4, <2>2 DEF Faithful
  <2> QED
    BY <2>1, <2>2
<1> QED
  BY <1>1, <1>2, <1>3, <1>5, <1>6, <1>7, OnlyMenuRequest DEF M!ReadMenu

\* The sizes of what can have been read.
LEMMA QueriesCounted ==
  /\ M!Cardinality({"grouped"}) = 1 /\ M!Cardinality({"loose"}) = 1
  /\ M!Cardinality({"grouped", "loose"}) = 2 /\ M!Cardinality({}) = 0
<1>1. /\ Cardinality({"grouped"}) = 1 /\ IsFiniteSet({"grouped"})
      /\ Cardinality({"loose"}) = 1
  BY FS_Singleton
<1>2. "loose" \notin {"grouped"}
  OBVIOUS
<1>3. Cardinality({"grouped"} \cup {"loose"}) = Cardinality({"grouped"}) + 1
  BY <1>1, <1>2, FS_AddElement
<1>4. {"grouped"} \cup {"loose"} = {"grouped", "loose"}
  OBVIOUS
<1> QED
  BY <1>1, <1>3, <1>4, FS_EmptySet, SameSize

LEMMA RestKeepsMenu ==
  ASSUME M!Assumptions, MenuInv, NEW r \in Requests, M!ReadRest(r)
  PROVE  MenuInv'
<1>1. PICK p \in MenuRequest : p = writes[r] /\ Prepared(p) /\ Faithful(p) /\ p.step = "menu"
  BY DEF MenuInv, M!ReadRest
<1>2. p.read \in {{"grouped"}, {"loose"}}
  BY <1>1, QueriesCounted DEF M!ReadRest, Faithful
<1>3. PICK T \in SUBSET Items :
        /\ T = IF p.read = {"loose"} THEN M!Grouped ELSE M!Loose
        /\ writes' = [writes EXCEPT ![r] =
             [p EXCEPT !.read = {"grouped", "loose"}, !.shown = p.shown \o M!SetToSeq(T)]]
  <2>1. (IF p.read = {"loose"} THEN M!Grouped ELSE M!Loose) \in SUBSET Items
    BY DEF M!Grouped, M!Loose
  <2> QED
    BY <1>1, <2>1 DEF M!ReadRest
<1>4. PICK t \in Seq(Items) :
        /\ t = M!SetToSeq(T)
        /\ \A i \in T : Holds(t, i)
        /\ \A i \in Items \ T : Lacks(t, i)
  BY SetInARow
<1>5. p.shown \in Seq(Items) /\ p.same \subseteq Items
  BY DEF MenuRequest
<1>6. PICK shown \in Seq(Items) : shown = p.shown \o t
  <2>1. p.shown \o t \in Seq(Items)
    BY <1>5
  <2> QED
    BY <2>1
<1>7. PICK q : q = [p EXCEPT !.read = {"grouped", "loose"}, !.shown = shown]
  OBVIOUS
<1>8. /\ q \in MenuRequest /\ q.op = p.op /\ q.step = "menu" /\ q.item = p.item
      /\ q.name = p.name /\ q.slug = p.slug /\ q.tries = p.tries
      /\ q.category = p.category /\ q.read = {"grouped", "loose"}
      /\ q.shown = shown /\ q.same = p.same
  BY <1>1, <1>7 DEF MenuRequest
<1>9. Prepared(q)
  BY <1>1, <1>8 DEF Prepared
<1>10. ASSUME NEW i \in q.same
       PROVE  IF i \in M!Grouped \/ i \in M!Loose THEN Holds(shown, i) ELSE Lacks(shown, i)
  <2>1. i \in Items /\ i \in p.same
    BY <1>5, <1>8
  <2>2. IF i \in T THEN Holds(t, i) ELSE Lacks(t, i)
    BY <1>4, <2>1
  <2>3. ~ (i \in M!Grouped /\ i \in M!Loose)
    BY DEF M!Grouped, M!Loose
  <2>4. /\ Holds(p.shown, i) /\ Lacks(t, i) => Holds(shown, i)
        /\ Lacks(p.shown, i) /\ Holds(t, i) => Holds(shown, i)
        /\ Lacks(p.shown, i) /\ Lacks(t, i) => Lacks(shown, i)
    BY <1>5, <1>6, <2>1, OneAfterTheOther
  <2>5. CASE p.read = {"grouped"}
    <3>1. IF i \in M!Grouped THEN Holds(p.shown, i) ELSE Lacks(p.shown, i)
      BY <1>1, <2>1, <2>5 DEF Faithful
    <3>2. T = M!Loose
      BY <1>3, <2>5
    <3> QED
      BY <2>2, <2>3, <2>4, <3>1, <3>2
  <2>6. CASE p.read = {"loose"}
    <3>1. IF i \in M!Loose THEN Holds(p.shown, i) ELSE Lacks(p.shown, i)
      BY <1>1, <2>1, <2>6 DEF Faithful
    <3>2. T = M!Grouped
      BY <1>3, <2>6
    <3> QED
      BY <2>2, <2>3, <2>4, <3>1, <3>2
  <2> QED
    BY <1>2, <2>5, <2>6
<1>11. Faithful(q)
  BY <1>8, <1>10 DEF Faithful
<1> QED
  BY <1>3, <1>4, <1>6, <1>7, <1>8, <1>9, <1>11, OnlyMenuRequest DEF M!ReadRest

-----------------------------------------------------------------------------
(* The invariant.                                                          *)

LEMMA MenuInit ==
  ASSUME M!Assumptions, M!Init
  PROVE  MenuInv
<1>1. \A r \in Requests : writes[r] = M!Idle
  BY DEF M!Init
<1>2. /\ M!Idle \in MenuRequest /\ M!Idle.item = None /\ M!Idle.tries = 1 /\ M!Idle.shown = <<>>
      /\ M!Idle.same = {}
  BY IdleFits DEF M!Idle
<1>3. M!TypeOK
  <2>1. categories \in [Categories -> {"on", "off", "deleted"}]
    BY DEF M!Init
  <2>2. \A i \in Items : items[i] = None
    BY DEF M!Init
  <2>3. <<>> \in Seq(Items)
    OBVIOUS
  <2>4. items \in [Items -> M!Item \cup {None}]
    BY DEF M!Init
  <2> QED
    <3>1. ASSUME NEW r \in Requests
          PROVE  /\ writes[r].item \in Items \cup {None} /\ writes[r].tries \in Nat
                 /\ writes[r].shown \in Seq(Items) /\ writes[r].same \subseteq Items
      <4>1. PICK d : d = M!Idle
        OBVIOUS
      <4>2. writes[r] = d /\ d.item = None /\ d.tries = 1 /\ d.shown \in Seq(Items) /\ d.same = {}
        BY <1>1, <1>2, <2>3, <4>1
      <4> QED
        BY <4>2
    <3> QED
      BY <2>1, <2>2, <2>4, <3>1 DEF M!TypeOK
<1>4. writes \in [Requests -> MenuRequest]
  BY <1>2 DEF M!Init
<1>5. \A i \in Items : items[i] = None
  BY DEF M!Init
<1> QED
  BY <1>1, <1>3, <1>4, <1>5, IdleFits DEF MenuInv, Numbered

LEMMA MenuStutter ==
  ASSUME MenuInv, UNCHANGED M!vars
  PROVE  MenuInv'
<1>1. UNCHANGED <<items, categories, writes>>
  BY DEF M!vars
<1>2. M!TypeOK'
  BY <1>1 DEF MenuInv, M!TypeOK
<1>3. \A r \in Requests : Prepared(writes[r])' /\ Faithful(writes[r])'
  BY <1>1 DEF MenuInv, Prepared, Faithful, M!Grouped, M!Loose
<1> QED
  BY <1>1, <1>2, <1>3 DEF MenuInv, Numbered

LEMMA MenuInductive ==
  ASSUME M!Assumptions, MenuInv, [M!Next]_(M!vars)
  PROVE  MenuInv'
<1>1. ASSUME NEW r \in Requests,
             \/ M!ReadForCreate(r) \/ M!ReadForUpdate(r) \/ M!LookUp(r)
             \/ M!CommitCreate(r) \/ M!CommitUpdate(r) \/ M!ReadForRemove(r) \/ M!CommitRemove(r)
             \/ M!ReadMenu(r) \/ M!ReadRest(r) \/ M!AnswerMenu(r)
      PROVE  MenuInv'
  <2>1. CASE M!AnswerMenu(r)
    BY <2>1, AnswerKeepsMenu DEF M!AnswerMenu
  <2> QED
    BY <1>1, <2>1, WriterBegins, LookUpKeepsMenu, CreateKeepsMenu, UpdateKeepsMenu,
       RemoveKeepsMenu, ReadKeepsMenu, RestKeepsMenu
<1> QED
  BY <1>1, ChangeCategoryKeepsMenu, MenuStutter DEF M!Next

LEMMA MenuInvariance ==
  ASSUME M!Assumptions
  PROVE  M!Spec => []MenuInv
<1>1. M!Init => MenuInv
  BY MenuInit
<1>2. MenuInv /\ [M!Next]_(M!vars) => MenuInv'
  BY MenuInductive
<1> QED
  BY <1>1, <1>2, PTL DEF M!Spec

LEMMA SlugsFreedHolds ==
  ASSUME M!Assumptions, MenuInv
  PROVE  M!SlugsFreed
<1>1. ASSUME NEW i \in Items, items[i] # None, items[i].deleted, ~ items[i].late
      PROVE  M!Contains(items[i].slug, 0)
  <2>1. PICK w \in Words : items[i].slug = M!Marked(w, i)
    BY <1>1 DEF MenuInv, Numbered
  <2> QED
    BY <2>1, MarkedIsNoWord
<1> QED
  BY <1>1 DEF MenuInv, M!SlugsFreed

\* One place holds i, or none does.
LEMMA PlacesCounted ==
  ASSUME NEW s \in Seq(Items), NEW i \in Items
  PROVE  /\ Holds(s, i) => M!Cardinality({n \in DOMAIN s : s[n] = i}) = 1
         /\ Lacks(s, i) => M!Cardinality({n \in DOMAIN s : s[n] = i}) = 0
<1>1. DOMAIN s = 1 .. Len(s)
  OBVIOUS
<1>2. ASSUME Holds(s, i)
      PROVE  M!Cardinality({n \in DOMAIN s : s[n] = i}) = 1
  <2>1. PICK a \in 1 .. Len(s) : \A m \in 1 .. Len(s) : (s[m] = i) <=> (m = a)
    BY <1>2 DEF Holds
  <2>2. {n \in DOMAIN s : s[n] = i} = {a}
    BY <1>1, <2>1
  <2> QED
    BY <2>2, FS_Singleton, SameSize
<1>3. ASSUME Lacks(s, i)
      PROVE  M!Cardinality({n \in DOMAIN s : s[n] = i}) = 0
  <2>1. {n \in DOMAIN s : s[n] = i} = {}
    BY <1>1, <1>3 DEF Lacks
  <2> QED
    BY <2>1, FS_EmptySet, SameSize
<1> QED
  BY <1>2, <1>3

LEMMA MenuAgreesHolds ==
  ASSUME M!Assumptions, MenuInv
  PROVE  M!MenuAgrees
<1> SUFFICES ASSUME NEW r \in Requests, NEW i \in writes[r].same,
                    M!Cardinality(writes[r].read) = 2
             PROVE  M!Cardinality({n \in DOMAIN writes[r].shown : writes[r].shown[n] = i})
                      = IF i \in M!publicList(items[i].category)
                             /\ M!publicDetail(items[i].slug) = {i}
                          THEN 1 ELSE 0
  BY DEF M!MenuAgrees
<1>1. PICK q \in MenuRequest : q = writes[r] /\ Faithful(q)
  BY DEF MenuInv
<1>2. /\ i \in q.same /\ i \in Items /\ q.shown \in Seq(Items)
      /\ M!Cardinality(q.read) = 2
  BY <1>1 DEF MenuRequest
<1>3. q.step = "menu" /\ q.read = {"grouped", "loose"}
  <2>1. q.read \in {{}, {"grouped"}, {"loose"}, {"grouped", "loose"}}
    BY <1>1 DEF Faithful
  <2>2. q.read = {"grouped", "loose"}
    <3>1. q.read # {} /\ q.read # {"grouped"} /\ q.read # {"loose"}
      <4>1. \A n \in {0, 1} : n # 2
        OBVIOUS
      <4> QED
        BY <1>2, <4>1, QueriesCounted, Zenon
    <3> QED
      BY <2>1, <3>1, Zenon
  <2>3. "grouped" \in q.read
    BY <2>2
  <2> QED
    BY <1>1, <2>2, <2>3 DEF Faithful
<1>4. IF i \in M!Grouped \/ i \in M!Loose THEN Holds(q.shown, i) ELSE Lacks(q.shown, i)
  BY <1>1, <1>2, <1>3 DEF Faithful
<1>5. (i \in M!Public) <=> (i \in M!Grouped \/ i \in M!Loose)
  BY <1>2 DEF M!Public, M!Grouped, M!Loose
<1>6. (i \in M!publicList(items[i].category)) <=> (i \in M!Public)
  BY DEF M!publicList
<1>7. i \in M!Public => M!publicDetail(items[i].slug) = {i}
  <2>1. \A j \in M!Public : j \in Items /\ items[j] # None
    BY DEF M!Public
  <2>2. ASSUME i \in M!Public, NEW j \in M!Public, items[j].slug = items[i].slug
        PROVE  j = i
    BY <2>1, <2>2 DEF MenuInv
  <2> QED
    BY <2>2 DEF M!publicDetail
<1>8. M!Cardinality({n \in DOMAIN q.shown : q.shown[n] = i})
        = IF i \in M!Grouped \/ i \in M!Loose THEN 1 ELSE 0
  BY <1>2, <1>4, PlacesCounted
<1> QED
  BY <1>1, <1>5, <1>6, <1>7, <1>8

HIDE DEF M!IsIdle, M!Begin, M!Listed

-----------------------------------------------------------------------------
(* Wall clocks.                                                            *)

\* The product of what is not negative and what is positive.
LEMMA ProductPlaced ==
  ASSUME NEW m \in Nat, NEW n \in Nat, NEW k \in Nat \ {0}, m < n
  PROVE  m * k \in Nat /\ m * k < n * k /\ n * k \in Nat \ {0}
<1>1. PICK d \in Nat \ {0} : n = m + d
  <2>1. n - m \in Nat \ {0} /\ n = m + (n - m)
    OBVIOUS
  <2> QED
    BY <2>1
<1>2. n * k = m * k + d * k
  BY <1>1
<1>3. m * k \in Nat /\ d * k \in Nat /\ d * k > 0
  OBVIOUS
<1> QED
  BY <1>2, <1>3

\* Where in its day, and in its minute, a tick lies.
LEMMA Placed ==
  ASSUME NEW d \in Int, NEW w \in Nat \ {0}, NEW x \in 0 .. w - 1
  PROVE  (d * w + x) \div w = d /\ (d * w + x) % w = x
<1>1. PICK y \in Int, e \in Int : y = d * w + x /\ e = d * w
  OBVIOUS
<1>2. y = w * (y \div w) + (y % w) /\ y % w \in 0 .. w - 1 /\ y \div w \in Int
  OBVIOUS
<1>3. y \div w = d
  <2>1. PICK q \in Int : q = y \div w
    BY <1>2
  <2>2. w * q - w * d = w * (q - d)
    OBVIOUS
  <2>3. w * (q - d) < w /\ w * (q - d) > 0 - w
    BY <1>1, <1>2, <2>1, <2>2
  <2>4. CASE q > d
    <3>1. w * (q - d) >= w
      BY <2>4
    <3> QED
      BY <2>3, <3>1
  <2>5. CASE q < d
    <3>1. w * (q - d) <= 0 - w
      BY <2>5
    <3> QED
      BY <2>3, <3>1
  <2> QED
    BY <2>1, <2>4, <2>5
<1> QED
  BY <1>1, <1>2, <1>3

\* The two guesses of zonedToUtc suffice: it finds an instant at which wall
\* clocks show n, skipped or repeated hour near by or not, if there is one.
LEMMA GuessIsRight ==
  ASSUME H!ClockAssumptions, NEW n \in Int, NEW t \in Int, t + H!offsetMs(t) = n
  PROVE  LET u == n - H!offsetMs(n - H!offsetMs(n)) IN u + H!offsetMs(u) = n
BY DEF H!ClockAssumptions, H!offsetMs

\* zonedToUtc and back: a minute wall clocks ever show is the one read back.
THEOREM WallClock ==
  ASSUME H!ClockAssumptions, NEW date \in Int, NEW minute \in 0 .. DayMinutes - 1,
         NEW t \in Int, t + H!offsetMs(t) = (date * DayMinutes + minute) * Minute
  PROVE  H!Exists(date, minute)
<1>1. PICK n \in Int : n = (date * DayMinutes + minute) * Minute
  BY DEF H!ClockAssumptions
<1>2. PICK u \in Int : u = H!zonedToUtc(date, minute) /\ u + H!offsetMs(u) = n
  <2>1. H!zonedToUtc(date, minute) = n - H!offsetMs(n - H!offsetMs(n))
    BY <1>1 DEF H!zonedToUtc
  <2>2. n - H!offsetMs(n - H!offsetMs(n)) \in Int
    BY DEF H!ClockAssumptions, H!offsetMs
  <2> QED
    BY <1>1, <2>1, <2>2, GuessIsRight
<1>3. PICK w \in Nat \ {0}, x \in Nat :
        w = DayMinutes * Minute /\ x = minute * Minute /\ x \in 0 .. w - 1
  <2>1. /\ minute * Minute \in Nat /\ minute * Minute < DayMinutes * Minute
        /\ DayMinutes * Minute \in Nat \ {0}
    BY ProductPlaced DEF H!ClockAssumptions
  <2> QED
    BY <2>1
<1>4. n = date * w + x
  BY <1>1, <1>3 DEF H!ClockAssumptions
<1>5. n \div w = date /\ n % w = x
  <2>1. (date * w + x) \div w = date /\ (date * w + x) % w = x
    BY <1>3, Placed
  <2> QED
    BY <1>4, <2>1
<1>6. x \div Minute = minute
  <2>1. minute \in Int /\ 0 \in 0 .. Minute - 1 /\ Minute \in Nat \ {0}
    BY DEF H!ClockAssumptions
  <2>2. (minute * Minute + 0) \div Minute = minute
    BY <2>1, Placed
  <2>3. minute * Minute + 0 = x
    BY <1>3, <2>1
  <2> QED
    BY <2>2, <2>3
<1>7. H!toLocalDate(u) = date
  BY <1>2, <1>3, <1>5 DEF H!toLocalDate
<1>8. H!toLocalMinute(u) = minute
  BY <1>2, <1>3, <1>5, <1>6 DEF H!toLocalMinute
<1> QED
  BY <1>2, <1>7, <1>8 DEF H!Exists

-----------------------------------------------------------------------------
(* The hours.                                                              *)

LEMMA HoursInit ==
  ASSUME H!Assumptions, H!Init
  PROVE  H!TypeOK
BY DEF H!Assumptions, H!Init, H!TypeOK, H!Apart

LEMMA HoursStep ==
  ASSUME H!Assumptions, H!TypeOK, [H!Next]_(H!vars)
  PROVE  H!TypeOK'
<1>1. ASSUME NEW p \in Professionals, H!setWorkingHours(p)
      PROVE  H!TypeOK'
  <2>1. PICK days \in [H!Weekdays -> {s \in SUBSET H!Ranges : H!Apart(s)}] :
          working' = [working EXCEPT ![p] = days]
    BY <1>1 DEF H!setWorkingHours
  <2>2. /\ days \in [H!Weekdays -> SUBSET H!Ranges]
        /\ \A w \in H!Weekdays : H!Apart(days[w])
    BY <2>1
  <2>3. working' \in [Professionals -> [H!Weekdays -> SUBSET H!Ranges]]
    BY <2>1, <2>2 DEF H!TypeOK
  <2>4. \A q \in Professionals, w \in H!Weekdays : H!Apart(working'[q][w])
    BY <2>1, <2>2 DEF H!TypeOK
  <2> QED
    BY <1>1, <2>3, <2>4 DEF H!TypeOK, H!setWorkingHours, H!Apart
<1>2. CASE H!setOpening
  BY <1>2 DEF H!TypeOK, H!setOpening, H!Apart
<1>3. CASE H!Occupy
  BY <1>3 DEF H!TypeOK, H!Occupy, H!Apart
<1>4. CASE H!Tick
  BY <1>4 DEF H!TypeOK, H!Tick, H!Apart
<1>5. CASE UNCHANGED H!vars
  BY <1>5 DEF H!TypeOK, H!vars, H!Apart
<1> QED
  BY <1>1, <1>2, <1>3, <1>4, <1>5 DEF H!Next

LEMMA HoursInvariance ==
  ASSUME H!Assumptions
  PROVE  H!Spec => []H!TypeOK
<1>1. H!Init => H!TypeOK
  BY HoursInit
<1>2. H!TypeOK /\ [H!Next]_(H!vars) => H!TypeOK'
  BY HoursStep
<1> QED
  BY <1>1, <1>2, PTL DEF H!Spec

\* computeSlots goes from a minute to its instant, checkSlot from an instant
\* back to its minute, and then they ask the same questions.
LEMMA ListIsExactHolds ==
  ASSUME H!Assumptions, H!TypeOK
  PROVE  H!ListIsExact
<1> SUFFICES ASSUME NEW p \in Professionals, NEW date \in Dates, NEW len \in Durations,
                    NEW web \in BOOLEAN, NEW m \in 0 .. DayMinutes, H!Exists(date, m)
             PROVE  m \in H!Minutes(date, len, H!dayContext(p, date, web, H!Loaded(p, date, date)))
                      <=> H!checkSlot(p, H!zonedToUtc(date, m), len, web, TRUE) = "OK"
  BY DEF H!ListIsExact
<1>1. PICK ctx : ctx = H!dayContext(p, date, web, H!Loaded(p, date, date))
  OBVIOUS
<1>2. PICK t \in Int : t = H!zonedToUtc(date, m)
  <2>1. date \in Int /\ m \in Int /\ Minute \in Int /\ DayMinutes \in Int
    BY DEF H!Assumptions, H!ClockAssumptions
  <2>2. PICK n \in Int : n = (date * DayMinutes + m) * Minute
    BY <2>1
  <2>3. H!zonedToUtc(date, m) = n - H!offsetMs(n - H!offsetMs(n))
    BY <2>2 DEF H!zonedToUtc
  <2>4. n - H!offsetMs(n - H!offsetMs(n)) \in Int
    BY DEF H!Assumptions, H!ClockAssumptions, H!offsetMs
  <2> QED
    BY <2>3, <2>4
<1>3. ctx.earliest \in Int
  <2>1. ctx.earliest = H!Earliest(web)
    BY <1>1 DEF H!dayContext
  <2>2. now \in Int /\ MinAdvance \in Int /\ Minute \in Int
    BY DEF H!TypeOK, H!Assumptions, H!ClockAssumptions
  <2>3. MinAdvance * Minute \in Int
    BY <2>2
  <2> QED
    BY <2>1, <2>2, <2>3 DEF H!Earliest
<1>4. H!toLocalDate(t) = date /\ H!toLocalMinute(t) = m
  BY <1>2 DEF H!Exists
<1>5. m \in H!Minutes(date, len, ctx) <=>
        /\ H!withinBookingWindow(date, ctx.ahead)
        /\ m % Step = 0 /\ H!Inside(m, len, ctx)
        /\ t >= ctx.earliest
        /\ ~ H!overlapsBusy(t, len, ctx.busy)
  BY <1>2 DEF H!Minutes
<1>6. H!checkSlot(p, t, len, web, TRUE) =
        IF ~ H!withinBookingWindow(date, ctx.ahead) THEN "OUT_OF_WINDOW"
        ELSE IF t < ctx.earliest THEN "TOO_SOON"
        ELSE IF ~ H!Inside(m, len, ctx) THEN "OUTSIDE_HOURS"
        ELSE IF TRUE /\ m % Step # 0 THEN "OFF_GRID"
        ELSE IF H!overlapsBusy(t, len, ctx.busy) THEN "BUSY"
        ELSE "OK"
  BY <1>1, <1>4 DEF H!checkSlot
<1>7. (t < ctx.earliest) <=> ~ (t >= ctx.earliest)
  BY <1>3
<1>8. (m \in H!Minutes(date, len, ctx)) <=> (H!checkSlot(p, t, len, web, TRUE) = "OK")
  BY <1>5, <1>6, <1>7
<1> QED
  BY <1>1, <1>2, <1>8

\* Local time never goes back by a day: dates begin one after the other.
LEMMA MidnightsInOrder ==
  ASSUME H!ClockAssumptions, After - Before <= DayMinutes * Minute,
         NEW from \in Int, NEW to \in Int, from <= to
  PROVE  /\ H!dayStart(from) \in Int /\ H!dayStart(to) \in Int
         /\ H!dayStart(from) <= H!dayStart(to)
<1>1. PICK day \in Nat \ {0} : day = DayMinutes * Minute
  <2>1. DayMinutes * Minute \in Nat \ {0}
    BY DEF H!ClockAssumptions
  <2> QED
    BY <2>1
<1>2. PICK a \in Int, b \in Int : a = from * day /\ b = to * day
  BY <1>1
<1>3. (from * DayMinutes + 0) * Minute = a /\ (to * DayMinutes + 0) * Minute = b
  <2>1. DayMinutes \in Int /\ Minute \in Int
    BY DEF H!ClockAssumptions
  <2>2. (from * DayMinutes + 0) * Minute = from * (DayMinutes * Minute)
    BY <2>1
  <2>3. (to * DayMinutes + 0) * Minute = to * (DayMinutes * Minute)
    BY <2>1
  <2> QED
    BY <1>1, <1>2, <2>2, <2>3
<1>4. a = b \/ a + day <= b
  <2>1. PICK n \in Nat : to = from + n
    <3>1. to - from \in Nat /\ to = from + (to - from)
      OBVIOUS
    <3> QED
      BY <3>1
  <2>2. b = a + n * day
    BY <1>1, <1>2, <2>1
  <2>3. n = 0 \/ n * day >= day
    BY <1>1
  <2> QED
    BY <1>1, <1>2, <2>1, <2>2, <2>3
<1>5. /\ H!dayStart(from) = a - H!offsetMs(a - H!offsetMs(a))
      /\ H!dayStart(to) = b - H!offsetMs(b - H!offsetMs(b))
  BY <1>3 DEF H!dayStart, H!zonedToUtc
<1> QED
  BY <1>1, <1>2, <1>4, <1>5 DEF H!ClockAssumptions, H!offsetMs

\* What is offered of the hours does not depend on who is busy.
LEMMA InsideWhateverBusy ==
  ASSUME NEW p, NEW date, NEW web, NEW busy, NEW m, NEW len
  PROVE  H!Inside(m, len, H!dayContext(p, date, web, busy))
           <=> H!Inside(m, len, H!dayContext(p, date, web, {}))
<1>1. PICK ctx, bare : /\ ctx = H!dayContext(p, date, web, busy)
                       /\ bare = H!dayContext(p, date, web, {})
  OBVIOUS
<1>2. ctx.opening = bare.opening /\ ctx.working = bare.working
  BY <1>1 DEF H!dayContext
<1>3. H!Clipped(ctx) = H!Clipped(bare)
  BY <1>2 DEF H!Clipped
<1>4. H!effectiveRanges(ctx) = H!effectiveRanges(bare)
  BY <1>3 DEF H!effectiveRanges
<1> QED
  BY <1>1, <1>4 DEF H!Inside

\* A service that lies with its buffers between two midnights meets the rows
\* that reach between them, and no others of those loaded for more days.
LEMMA SameRowsMeet ==
  ASSUME H!Assumptions, H!TypeOK, After - Before <= DayMinutes * Minute,
         NEW p \in Professionals, NEW date \in Int, NEW from \in Int, NEW to \in Int,
         from <= date, date <= to, NEW len \in Nat, NEW t \in Int,
         t - Buffer * Minute >= H!dayStart(date),
         t + (len + Buffer) * Minute <= H!dayStart(date + 1)
  PROVE  H!overlapsBusy(t, len, H!Loaded(p, from, to))
           <=> H!overlapsBusy(t, len, H!Loaded(p, date, date))
<1>1. /\ H!dayStart(from) \in Int /\ H!dayStart(date) \in Int
      /\ H!dayStart(date + 1) \in Int /\ H!dayStart(to + 1) \in Int
      /\ H!dayStart(from) <= H!dayStart(date)
      /\ H!dayStart(date + 1) <= H!dayStart(to + 1)
  BY MidnightsInOrder DEF H!Assumptions
<1>2. PICK gap \in Int, whole \in Int : gap = Buffer * Minute /\ whole = len * Minute
  BY DEF H!Assumptions, H!ClockAssumptions
<1>3. (len + Buffer) * Minute = whole + gap
  BY <1>2 DEF H!Assumptions, H!ClockAssumptions
<1>4. \A b \in rows : b.at[1] \in Int /\ b.at[2] \in Int
  BY DEF H!TypeOK, H!Rows, H!Assumptions
<1>5. ASSUME NEW b \in rows, t < b.at[2] + gap, t + whole > b.at[1] - gap
      PROVE  /\ b.at[1] < H!dayStart(date + 1) /\ b.at[2] > H!dayStart(date)
             /\ b.at[1] < H!dayStart(to + 1) /\ b.at[2] > H!dayStart(from)
  BY <1>1, <1>2, <1>3, <1>4, <1>5
<1>6. ASSUME NEW b, b \in H!Loaded(p, from, to) \/ b \in H!Loaded(p, date, date),
             t < b.at[2] + gap, t + whole > b.at[1] - gap
      PROVE  b \in H!Loaded(p, from, to) /\ b \in H!Loaded(p, date, date)
  BY <1>5, <1>6 DEF H!Loaded
<1> QED
  BY <1>2, <1>6 DEF H!overlapsBusy

LEMMA DaysAgreeHolds ==
  ASSUME H!Assumptions, H!TypeOK, After - Before <= DayMinutes * Minute
  PROVE  H!DaysAgree
<1> SUFFICES ASSUME NEW p \in Professionals, NEW date \in Dates, NEW len \in Durations,
                    NEW web \in BOOLEAN,
                    \A m \in 0 .. DayMinutes : H!Inside(m, len, H!dayContext(p, date, web, {})) =>
                      /\ H!zonedToUtc(date, m) - Buffer * Minute >= H!dayStart(date)
                      /\ H!zonedToUtc(date, m) + (len + Buffer) * Minute <= H!dayStart(date + 1),
                    NEW from \in Dates, NEW to \in Dates, from <= date, date <= to
             PROVE  H!DayCount(p, date, from, to, len, web)
                      = H!Cardinality(H!Slots(p, date, len, web))
  BY DEF H!DaysAgree
<1>1. date \in Int /\ from \in Int /\ to \in Int /\ len \in Nat
  BY DEF H!Assumptions
<1>2. ASSUME NEW m \in 0 .. DayMinutes
      PROVE  H!zonedToUtc(date, m) \in Int
  <2>1. PICK n \in Int : n = (date * DayMinutes + m) * Minute
    BY <1>1 DEF H!Assumptions, H!ClockAssumptions
  <2>2. H!zonedToUtc(date, m) = n - H!offsetMs(n - H!offsetMs(n))
    BY <2>1 DEF H!zonedToUtc
  <2>3. n - H!offsetMs(n - H!offsetMs(n)) \in Int
    BY DEF H!Assumptions, H!ClockAssumptions, H!offsetMs
  <2> QED
    BY <2>2, <2>3
<1>3. PICK month, alone : /\ month = H!dayContext(p, date, web, H!Loaded(p, from, to))
                          /\ alone = H!dayContext(p, date, web, H!Loaded(p, date, date))
  OBVIOUS
<1>4. /\ month.ahead = alone.ahead /\ month.earliest = alone.earliest
      /\ month.busy = H!Loaded(p, from, to) /\ alone.busy = H!Loaded(p, date, date)
  BY <1>3 DEF H!dayContext
<1>5. ASSUME NEW m \in 0 .. DayMinutes
      PROVE  m \in H!Minutes(date, len, month) <=> m \in H!Minutes(date, len, alone)
  <2>1. /\ H!Inside(m, len, month) <=> H!Inside(m, len, H!dayContext(p, date, web, {}))
        /\ H!Inside(m, len, alone) <=> H!Inside(m, len, H!dayContext(p, date, web, {}))
    BY <1>3, InsideWhateverBusy
  <2>2. ASSUME H!Inside(m, len, H!dayContext(p, date, web, {}))
        PROVE  H!overlapsBusy(H!zonedToUtc(date, m), len, month.busy)
                 <=> H!overlapsBusy(H!zonedToUtc(date, m), len, alone.busy)
    <3>1. PICK t \in Int : t = H!zonedToUtc(date, m)
      BY <1>2
    <3>2. /\ t - Buffer * Minute >= H!dayStart(date)
          /\ t + (len + Buffer) * Minute <= H!dayStart(date + 1)
      BY <2>2, <3>1
    <3> QED
      BY <1>1, <1>4, <3>1, <3>2, SameRowsMeet
  <2> QED
    BY <1>4, <2>1, <2>2 DEF H!Minutes
<1>6. H!Minutes(date, len, month) = H!Minutes(date, len, alone)
  <2>1. /\ H!Minutes(date, len, month) \subseteq 0 .. DayMinutes
        /\ H!Minutes(date, len, alone) \subseteq 0 .. DayMinutes
    BY DEF H!Minutes
  <2> QED
    BY <1>5, <2>1
<1>7. H!DayCount(p, date, from, to, len, web)
        = H!Cardinality({H!zonedToUtc(date, m) : m \in H!Minutes(date, len, alone)})
  BY <1>3, <1>6, Zenon DEF H!DayCount
<1> QED
  BY <1>3, <1>7, Zenon DEF H!Slots

-----------------------------------------------------------------------------
(* Ranges joined one by one, with gaps between those that are left.        *)

\* A set of subsets of a finite set, if it has any, has one none of whose own
\* subsets is in it.
LEMMA Smallest ==
  ASSUME NEW s, IsFiniteSet(s), NEW b, b \subseteq SUBSET s, b # {}
  PROVE  \E t \in b : \A u \in SUBSET t : u # t => u \notin b
BY C!Smallest DEF C!IsFiniteSet, IsFiniteSet

Spans == {r \in [start : Int, end : Int] : r.start < r.end}

\* Minute x lies in one of the ranges.
Covers(ranges, x) == \E r \in ranges : r.start <= x /\ x < r.end

\* The sequence covers what the ranges cover, with a gap between any two of
\* its own.
Merged(ranges, seq) ==
  /\ seq \in Seq(Spans)
  /\ \A i, j \in 1 .. Len(seq) : i < j => seq[i].end < seq[j].start
  /\ \A i \in 1 .. Len(seq) : \E r \in ranges : seq[i].start = r.start
  /\ \A x \in Int : (\E i \in 1 .. Len(seq) : seq[i].start <= x /\ x < seq[i].end)
                      <=> Covers(ranges, x)

\* A range that begins after the others is joined with the last, or begins after
\* a gap.
LEMMA JoinKeepsMerged ==
  ASSUME NEW ranges, ranges \subseteq Spans, NEW r \in ranges,
         \A o \in ranges : o.start <= r.start,
         NEW seq, Merged(ranges \ {r}, seq)
  PROVE  Merged(ranges, H!Join(seq, r))
<1> DEFINE rest == ranges \ {r}
           n == Len(seq)
<1>1. seq \in Seq(Spans) /\ n \in Nat /\ r \in Spans
  BY DEF Merged
<1>2. \A x \in Int : Covers(ranges, x) <=> Covers(rest, x) \/ (r.start <= x /\ x < r.end)
  BY DEF Covers
<1>3. \A i \in 1 .. n : /\ seq[i] \in Spans /\ seq[i].start \in Int /\ seq[i].end \in Int
                        /\ seq[i].start < seq[i].end /\ seq[i].start <= r.start
  <2>1. ASSUME NEW i \in 1 .. n
        PROVE  seq[i] \in Spans /\ seq[i].start <= r.start
    <3>1. PICK o \in rest : seq[i].start = o.start
      BY DEF Merged
    <3> QED
      BY <1>1, <3>1
  <2> QED
    BY <2>1 DEF Spans
<1>4. r.start \in Int /\ r.end \in Int /\ r.start < r.end
  BY <1>1 DEF Spans
<1>5. CASE n = 0
  <2>1. PICK joined : joined = <<r>>
    OBVIOUS
  <2>2. H!Join(seq, r) = joined
    BY <1>1, <1>5, <2>1 DEF H!Join
  <2>3. 1 .. n = {}
    BY <1>5
  <2>4. \A x \in Int : ~ Covers(rest, x)
    BY <2>3 DEF Merged
  <2>5. joined \in Seq(Spans) /\ Len(joined) = 1 /\ joined[1] = r
    BY <1>1, <2>1
  <2>6. \A i \in 1 .. Len(joined) : joined[i] = r /\ i = 1
    BY <2>5
  <2>7. \A x \in Int : (\E i \in 1 .. Len(joined) : joined[i].start <= x /\ x < joined[i].end)
                         <=> Covers(ranges, x)
    <3>1. 1 \in 1 .. Len(joined)
      BY <2>5
    <3> QED
      BY <1>2, <2>4, <2>6, <3>1
  <2>8. /\ \A i, j \in 1 .. Len(joined) : i < j => joined[i].end < joined[j].start
        /\ \A i \in 1 .. Len(joined) : \E o \in ranges : joined[i].start = o.start
    BY <2>6
  <2> QED
    BY <2>2, <2>5, <2>7, <2>8 DEF Merged
<1>6. CASE n # 0 /\ r.start <= seq[n].end
  <2>1. PICK late \in Int : late = H!Later(seq[n].end, r.end)
    BY <1>1, <1>3, <1>4, <1>6 DEF H!Later
  <2>2. late >= seq[n].end /\ late >= r.end /\ (late = seq[n].end \/ late = r.end)
    BY <1>1, <1>3, <1>4, <1>6, <2>1 DEF H!Later
  <2>3. PICK joined : joined = [seq EXCEPT ![n] = [start |-> seq[n].start, end |-> late]]
    OBVIOUS
  <2>4. H!Join(seq, r) = joined
    <3>1. H!Join(seq, r) = [seq EXCEPT ![n].end = H!Later(seq[n].end, r.end)]
      BY <1>1, <1>6 DEF H!Join, H!Last
    <3>2. [seq[n] EXCEPT !.end = late] = [start |-> seq[n].start, end |-> late]
      BY <1>1, <1>3, <1>6 DEF Spans
    <3> QED
      BY <1>1, <1>6, <2>1, <2>3, <3>1, <3>2
  <2>5. [start |-> seq[n].start, end |-> late] \in Spans
    BY <1>1, <1>3, <1>6, <2>2 DEF Spans
  <2>6. joined \in Seq(Spans) /\ Len(joined) = n
    <3>1. PICK one \in Spans : one = [start |-> seq[n].start, end |-> late]
      BY <2>5
    <3>2. joined = [seq EXCEPT ![n] = one]
      BY <2>3, <3>1
    <3>3. seq \in [1 .. n -> Spans]
      BY <1>1
    <3>4. joined \in [1 .. n -> Spans]
      BY <3>1, <3>2, <3>3
    <3> QED
      BY <1>1, <3>4
  <2>7. /\ joined[n].start = seq[n].start /\ joined[n].end = late
        /\ \A i \in 1 .. n : i # n => joined[i] = seq[i]
    BY <1>1, <1>6, <2>3
  <2>8. \A i, j \in 1 .. n : i < j => joined[i].end < joined[j].start
    BY <1>1, <2>7 DEF Merged
  <2>9. \A i \in 1 .. n : \E o \in ranges : joined[i].start = o.start
    BY <1>1, <2>7 DEF Merged
  <2>10. ASSUME NEW x \in Int
         PROVE  (\E i \in 1 .. n : joined[i].start <= x /\ x < joined[i].end)
                  <=> Covers(ranges, x)
    <3>1. joined[n].start <= x /\ x < joined[n].end
            <=> \/ seq[n].start <= x /\ x < seq[n].end
                \/ r.start <= x /\ x < r.end
      BY <1>1, <1>3, <1>4, <1>6, <2>2, <2>7
    <3>2. (\E i \in 1 .. n : joined[i].start <= x /\ x < joined[i].end)
            <=> \/ \E i \in 1 .. n : seq[i].start <= x /\ x < seq[i].end
                \/ r.start <= x /\ x < r.end
      BY <1>1, <1>6, <2>7, <3>1
    <3> QED
      BY <1>2, <3>2 DEF Merged
  <2> QED
    BY <2>4, <2>6, <2>8, <2>9, <2>10 DEF Merged
<1>7. CASE n # 0 /\ ~ (r.start <= seq[n].end)
  <2>1. PICK joined : joined = Append(seq, r)
    OBVIOUS
  <2>2. H!Join(seq, r) = joined
    BY <1>1, <1>7, <2>1 DEF H!Join, H!Last
  <2>3. /\ joined \in Seq(Spans) /\ Len(joined) = n + 1 /\ joined[n + 1] = r
        /\ \A i \in 1 .. n : joined[i] = seq[i]
    BY <1>1, <2>1
  <2>4. \A i \in 1 .. n : seq[i].end < r.start
    <3>1. ASSUME NEW i \in 1 .. n, i # n
          PROVE  seq[i].end < seq[n].start
      BY <1>1, <1>7, <3>1 DEF Merged
    <3> QED
      BY <1>1, <1>3, <1>4, <1>7, <3>1
  <2>5. \A i, j \in 1 .. n + 1 : i < j => joined[i].end < joined[j].start
    BY <1>1, <2>3, <2>4 DEF Merged
  <2>6. \A i \in 1 .. n + 1 : \E o \in ranges : joined[i].start = o.start
    BY <1>1, <2>3 DEF Merged
  <2>7. ASSUME NEW x \in Int
        PROVE  (\E i \in 1 .. n + 1 : joined[i].start <= x /\ x < joined[i].end)
                 <=> Covers(ranges, x)
    <3>1. (\E i \in 1 .. n + 1 : joined[i].start <= x /\ x < joined[i].end)
            <=> \/ \E i \in 1 .. n : seq[i].start <= x /\ x < seq[i].end
                \/ r.start <= x /\ x < r.end
      BY <1>1, <2>3
    <3> QED
      BY <1>2, <3>1 DEF Merged
  <2> QED
    BY <2>2, <2>3, <2>5, <2>6, <2>7 DEF Merged
<1> QED
  BY <1>1, <1>5, <1>6, <1>7

\* A service fits in one of the merged ranges if each of its minutes is covered.
LEMMA CoveredFits ==
  ASSUME NEW ranges, NEW seq, Merged(ranges, seq), NEW m \in Int, NEW len \in Nat \ {0}
  PROVE  (\E i \in 1 .. Len(seq) : m >= seq[i].start /\ m + len <= seq[i].end)
           <=> \A x \in m .. m + len - 1 : Covers(ranges, x)
<1>1. seq \in Seq(Spans) /\ Len(seq) \in Nat
  BY DEF Merged
<1>2. \A i \in 1 .. Len(seq) : seq[i].start \in Int /\ seq[i].end \in Int /\ seq[i].start < seq[i].end
  BY <1>1 DEF Spans
<1>3. ASSUME NEW i \in 1 .. Len(seq), m >= seq[i].start, m + len <= seq[i].end,
             NEW x \in m .. m + len - 1
      PROVE  Covers(ranges, x)
  <2>1. x \in Int /\ seq[i].start <= x /\ x < seq[i].end
    BY <1>2, <1>3
  <2> QED
    BY <2>1 DEF Merged
<1>4. ASSUME \A x \in m .. m + len - 1 : Covers(ranges, x)
      PROVE  \E i \in 1 .. Len(seq) : m >= seq[i].start /\ m + len <= seq[i].end
  <2>1. m \in m .. m + len - 1
    OBVIOUS
  <2>2. PICK i \in 1 .. Len(seq) : seq[i].start <= m /\ m < seq[i].end
    BY <1>4, <2>1 DEF Merged
  <2>3. CASE m + len > seq[i].end
    <3>1. PICK x \in Int : x = seq[i].end
      BY <1>2
    <3>2. x \in m .. m + len - 1
      BY <1>2, <2>2, <2>3, <3>1
    <3>3. PICK j \in 1 .. Len(seq) : seq[j].start <= x /\ x < seq[j].end
      BY <1>4, <3>1, <3>2 DEF Merged
    <3>4. i < j => seq[i].end < seq[j].start
      BY DEF Merged
    <3>5. j < i => seq[j].end < seq[i].start
      BY DEF Merged
    <3> QED
      BY <1>1, <1>2, <3>1, <3>3, <3>4, <3>5
  <2> QED
    BY <1>2, <2>2, <2>3
<1> QED
  BY <1>3, <1>4

-----------------------------------------------------------------------------
(* The fold that merges the ranges, one by one from the last.              *)

Merges(ranges, g) ==
  g = [t \in SUBSET ranges |->
         IF t = {} THEN <<>> ELSE H!Join(g[t \ {H!Latest(t)}], H!Latest(t))]

\* Of finitely many ranges, one begins last.
LEMMA LatestBeginsLast ==
  ASSUME NEW ranges, IsFiniteSet(ranges), ranges \subseteq Spans
  PROVE  \A t \in SUBSET ranges : t # {} =>
           /\ H!Latest(t) \in t
           /\ \A o \in t : o.start <= H!Latest(t).start
<1> DEFINE Lasts(t) == \E r \in t : \A o \in t : o.start <= r.start
           b == {t \in SUBSET ranges : t # {} /\ ~ Lasts(t)}
<1>0. \A r \in ranges : r.start \in Int
  BY DEF Spans
<1>1. ASSUME b # {}
      PROVE  FALSE
  <2>1. PICK t \in b : \A u \in SUBSET t : u # t => u \notin b
    <3>1. b \subseteq SUBSET ranges
      OBVIOUS
    <3> HIDE DEF b
    <3> QED
      BY <1>1, <3>1, Smallest
  <2>2. PICK r : r \in t
    BY <2>1
  <2>3. PICK u : u = t \ {r}
    OBVIOUS
  <2>4. u = {} \/ Lasts(u)
    <3>1. u \in SUBSET t /\ u # t /\ u \in SUBSET ranges
      BY <2>1, <2>2, <2>3
    <3>2. u \notin b
      BY <2>1, <3>1
    <3> QED
      BY <3>1, <3>2
  <2>5. \A o \in t : o = r \/ o \in u
    BY <2>3
  <2>6. CASE u = {}
    <3>1. \A o \in t : o.start <= r.start
      BY <1>0, <2>1, <2>2, <2>5, <2>6
    <3> QED
      BY <2>1, <2>2, <3>1
  <2>7. CASE Lasts(u)
    <3>1. PICK s \in u : \A o \in u : o.start <= s.start
      BY <2>7
    <3>2. s \in t /\ s.start \in Int /\ r.start \in Int /\ \A o \in t : o.start \in Int
      BY <1>0, <2>1, <2>2, <2>3, <3>1
    <3>3. CASE r.start <= s.start
      BY <2>1, <2>5, <3>1, <3>2, <3>3
    <3>4. CASE s.start <= r.start
      BY <2>1, <2>2, <2>5, <3>1, <3>2, <3>4
    <3> QED
      BY <3>2, <3>3, <3>4
  <2> QED
    BY <2>4, <2>6, <2>7
<1> QED
  BY <1>1 DEF H!Latest

\* Two such functions agree where both are defined.
LEMMA MergesAlike ==
  ASSUME NEW ranges, IsFiniteSet(ranges), ranges \subseteq Spans,
         NEW a \in SUBSET ranges, NEW b \in SUBSET ranges,
         NEW g, NEW h, Merges(a, g), Merges(b, h)
  PROVE  \A t \in SUBSET (a \cap b) : g[t] = h[t]
<1> SUFFICES ASSUME {t \in SUBSET (a \cap b) : g[t] # h[t]} # {}
             PROVE  FALSE
  OBVIOUS
<1> DEFINE d == {t \in SUBSET (a \cap b) : g[t] # h[t]}
<1>0. d \subseteq SUBSET ranges /\ d # {}
  OBVIOUS
<1>1. PICK t \in d : \A u \in SUBSET t : u # t => u \notin d
  <2> HIDE DEF d
  <2> QED
    BY <1>0, Smallest
<1>2. t \in SUBSET a /\ t \in SUBSET b /\ g[t] # h[t] /\ t \in SUBSET ranges
  BY <1>1
<1>3. /\ g[t] = IF t = {} THEN <<>> ELSE H!Join(g[t \ {H!Latest(t)}], H!Latest(t))
      /\ h[t] = IF t = {} THEN <<>> ELSE H!Join(h[t \ {H!Latest(t)}], H!Latest(t))
  BY <1>2 DEF Merges
<1>4. CASE t # {}
  <2>1. H!Latest(t) \in t
    BY <1>2, <1>4, LatestBeginsLast
  <2>2. PICK u : u = t \ {H!Latest(t)}
    OBVIOUS
  <2>3. u \in SUBSET t /\ u # t
    BY <2>1, <2>2
  <2>4. g[u] = h[u]
    BY <1>1, <2>3
  <2> QED
    BY <1>2, <1>3, <1>4, <2>2, <2>4
<1> QED
  BY <1>2, <1>3, <1>4

\* There is one for every finite set of ranges.
LEMMA MergeExists ==
  ASSUME NEW ranges, IsFiniteSet(ranges), ranges \subseteq Spans
  PROVE  \E g : Merges(ranges, g)
<1> SUFFICES ASSUME {s \in SUBSET ranges : ~ \E g : Merges(s, g)} # {}
             PROVE  FALSE
  OBVIOUS
<1> DEFINE b == {s \in SUBSET ranges : ~ \E g : Merges(s, g)}
<1>0. b \subseteq SUBSET ranges /\ b # {}
  OBVIOUS
<1>1. PICK s \in b : \A u \in SUBSET s : u # s => u \notin b
  <2> HIDE DEF b
  <2> QED
    BY <1>0, Smallest
<1> DEFINE Of(t) == CHOOSE g : Merges(t, g)
           merge == [t \in SUBSET s |->
             IF t = {} THEN <<>>
             ELSE H!Join(Of(t \ {H!Latest(t)})[t \ {H!Latest(t)}], H!Latest(t))]
<1>2. ASSUME NEW t \in SUBSET s, t # s
      PROVE  Merges(t, Of(t))
  <2>1. t \notin b /\ t \in SUBSET ranges
    BY <1>1, <1>2
  <2> QED
    BY <2>1
<1>3. ASSUME NEW t \in SUBSET s, t # {}
      PROVE  /\ t \ {H!Latest(t)} \in SUBSET t
             /\ t \ {H!Latest(t)} # t /\ t \ {H!Latest(t)} # s
  <2>1. H!Latest(t) \in t
    BY <1>1, <1>3, LatestBeginsLast
  <2> QED
    BY <2>1
<1>4. ASSUME NEW t \in SUBSET s, t # s
      PROVE  merge[t] = Of(t)[t]
  <2>1. Merges(t, Of(t))
    BY <1>2, <1>4
  <2> HIDE DEF Of
  <2>2. Of(t)[t] = IF t = {} THEN <<>>
                   ELSE H!Join(Of(t)[t \ {H!Latest(t)}], H!Latest(t))
    BY <2>1 DEF Merges
  <2>3. CASE t # {}
    <3>0. PICK u : u = t \ {H!Latest(t)}
      OBVIOUS
    <3>1. u \in SUBSET t /\ u \in SUBSET s /\ u # s
      BY <1>3, <2>3, <3>0
    <3>2. Merges(u, Of(u))
      BY <1>2, <3>1
    <3>3. u \in SUBSET ranges /\ t \in SUBSET ranges
      BY <1>1, <3>1
    <3>4. u \in SUBSET (t \cap u)
      BY <3>1
    <3>5. PICK gt, gu : gt = Of(t) /\ gu = Of(u)
      OBVIOUS
    <3>6. Merges(t, gt) /\ Merges(u, gu)
      BY <2>1, <3>2, <3>5
    <3>7. \A v \in SUBSET (t \cap u) : gt[v] = gu[v]
      <4> HIDE DEF b, merge
      <4> QED
        BY <3>3, <3>6, MergesAlike
    <3>8. Of(t)[u] = Of(u)[u]
      BY <3>4, <3>5, <3>7
    <3> QED
      BY <2>2, <2>3, <3>0, <3>8
  <2> QED
    BY <2>2, <2>3
<1>5. ASSUME NEW t \in SUBSET s
      PROVE  merge[t] = IF t = {} THEN <<>>
                        ELSE H!Join(merge[t \ {H!Latest(t)}], H!Latest(t))
  <2>1. CASE t # {}
    <3>1. t \ {H!Latest(t)} \in SUBSET s /\ t \ {H!Latest(t)} # s
      BY <1>3, <2>1
    <3>2. merge[t \ {H!Latest(t)}] = Of(t \ {H!Latest(t)})[t \ {H!Latest(t)}]
      BY <1>4, <3>1
    <3> QED
      BY <2>1, <3>2
  <2> QED
    BY <2>1
<1>6. Merges(s, merge)
  <2> HIDE DEF Of
  <2>1. merge = [t \in SUBSET s |-> merge[t]]
    OBVIOUS
  <2> QED
    BY <1>5, <2>1 DEF Merges
<1> QED
  BY <1>1, <1>6

\* What the fold gives of every subset covers what the subset does.
LEMMA FoldMerges ==
  ASSUME NEW ranges, IsFiniteSet(ranges), ranges \subseteq Spans, NEW g, Merges(ranges, g)
  PROVE  Merged(ranges, g[ranges])
<1> DEFINE b == {t \in SUBSET ranges : ~ Merged(t, g[t])}
<1>1. ASSUME b # {}
      PROVE  FALSE
  <2>1. PICK t \in b : \A u \in SUBSET t : u # t => u \notin b
    <3>1. b \subseteq SUBSET ranges
      OBVIOUS
    <3> HIDE DEF b
    <3> QED
      BY <1>1, <3>1, Smallest
  <2>2. g[t] = IF t = {} THEN <<>> ELSE H!Join(g[t \ {H!Latest(t)}], H!Latest(t))
    BY <2>1 DEF Merges
  <2>3. CASE t = {}
    <3>1. PICK none : none = <<>>
      OBVIOUS
    <3>2. none \in Seq(Spans) /\ Len(none) = 0 /\ 1 .. 0 = {}
      BY <3>1
    <3>3. Merged(t, none)
      BY <2>3, <3>2 DEF Merged, Covers
    <3> QED
      BY <2>1, <2>2, <2>3, <3>1, <3>3
  <2>4. CASE t # {}
    <3>1. PICK r : r = H!Latest(t)
      OBVIOUS
    <3>2. r \in t /\ \A o \in t : o.start <= r.start
      BY <2>1, <2>4, <3>1, LatestBeginsLast
    <3>3. t \subseteq Spans
      BY <2>1
    <3>4. Merged(t \ {r}, g[t \ {r}])
      BY <2>1, <3>2
    <3>5. Merged(t, H!Join(g[t \ {r}], r))
      BY <3>2, <3>3, <3>4, JoinKeepsMerged
    <3> QED
      BY <2>1, <2>2, <2>4, <3>1, <3>5
  <2> QED
    BY <2>3, <2>4
<1> QED
  BY <1>1

\* The ranges of effectiveRanges are those of a merged sequence.
LEMMA EffectiveAreMerged ==
  ASSUME NEW ctx, IsFiniteSet(H!Clipped(ctx)), H!Clipped(ctx) \subseteq Spans
  PROVE  \E seq : /\ Merged(H!Clipped(ctx), seq)
                  /\ H!effectiveRanges(ctx) = {seq[i] : i \in 1 .. Len(seq)}
<1>1. PICK ranges : ranges = H!Clipped(ctx)
  OBVIOUS
<1> DEFINE Sums(g) == g = [t \in SUBSET ranges |->
             IF t = {} THEN <<>>
             ELSE LET x == H!Latest(t) IN H!Join(g[t \ {x}], x)]
<1>2. PICK seq : seq = (CHOOSE g : Sums(g))[ranges]
  OBVIOUS
<1>3. H!effectiveRanges(ctx) = H!ToSet(seq)
  BY <1>1, <1>2 DEF H!effectiveRanges, H!MapThenFoldSet
<1>4. \A g : Sums(g) <=> Merges(ranges, g)
  BY Zenon DEF Merges
<1>5. \E g : Merges(ranges, g)
  BY <1>1, MergeExists
<1>6. Merged(ranges, seq)
  <2>1. PICK f : f = CHOOSE g : Sums(g)
    OBVIOUS
  <2>2. Sums(f)
    <3> HIDE DEF Sums
    <3> QED
      BY <1>4, <1>5, <2>1
  <2>3. Merges(ranges, f)
    BY <1>4, <2>2
  <2>4. seq = f[ranges]
    BY <1>2, <2>1
  <2> QED
    BY <1>1, <2>3, <2>4, FoldMerges
<1>7. DOMAIN seq = 1 .. Len(seq)
  BY <1>6 DEF Merged
<1> QED
  BY <1>1, <1>3, <1>6, <1>7 DEF H!ToSet

-----------------------------------------------------------------------------
(* The hours of a day.                                                     *)

\* The hours of a day are few: they begin and end at minutes of it.
LEMMA HoursAreFew ==
  ASSUME H!Assumptions
  PROVE  IsFiniteSet(H!Ranges) /\ H!Ranges \subseteq Spans
<1>1. IsFiniteSet(Marks)
  <2>0. 0 \in Int /\ DayMinutes \in Int /\ Marks \subseteq 0 .. DayMinutes
    BY DEF H!Assumptions, H!ClockAssumptions
  <2>1. IsFiniteSet(0 .. DayMinutes) /\ Marks \subseteq 0 .. DayMinutes
    BY <2>0, FS_Interval
  <2> QED
    BY <2>1, FS_Subset
<1>2. IsFiniteSet(Marks \X Marks)
  BY <1>1, FS_Product
<1> DEFINE whole == [start : Marks, end : Marks]
           f == [m \in Marks \X Marks |-> [start |-> m[1], end |-> m[2]]]
<1>3. f \in Surjection(Marks \X Marks, whole)
  <2>1. f \in [Marks \X Marks -> whole]
    OBVIOUS
  <2>2. ASSUME NEW r \in whole
        PROVE  \E m \in Marks \X Marks : f[m] = r
    <3>1. <<r.start, r.end>> \in Marks \X Marks /\ f[<<r.start, r.end>>] = r
      OBVIOUS
    <3> QED
      BY <3>1
  <2> HIDE DEF f, whole
  <2> QED
    BY <2>1, <2>2 DEF Surjection
<1>4. IsFiniteSet(whole)
  <2> HIDE DEF f, whole
  <2> QED
    BY <1>2, <1>3, FS_Surjection
<1>5. \A r \in whole : r \in [start : Int, end : Int]
  <2>1. DayMinutes \in Int /\ \A x \in Marks : x \in 0 .. DayMinutes
    BY DEF H!Assumptions, H!ClockAssumptions
  <2>2. \A x \in Marks : x \in Int
    BY <2>1
  <2> QED
    BY <2>2
<1>6. H!Ranges = {r \in whole : r.start < r.end}
  BY DEF H!Ranges
<1> HIDE DEF whole
<1>7. H!Ranges \subseteq whole /\ H!Ranges \subseteq Spans
  BY <1>5, <1>6 DEF Spans
<1> QED
  BY <1>4, <1>7, FS_Subset

\* The hours clipped to the opening hours cover what both cover.
LEMMA ClippedCovers ==
  ASSUME H!Assumptions, NEW ctx, ctx.working \subseteq H!Ranges,
         ctx.opening \in H!Ranges \cup {None}
  PROVE  /\ IsFiniteSet(H!Clipped(ctx)) /\ H!Clipped(ctx) \subseteq Spans
         /\ \A x \in Int : Covers(H!Clipped(ctx), x) <=>
              /\ ctx.opening # None
              /\ ctx.opening.start <= x /\ x < ctx.opening.end
              /\ Covers(ctx.working, x)
<1>1. IsFiniteSet(ctx.working) /\ ctx.working \subseteq Spans
  BY HoursAreFew, FS_Subset
<1>2. CASE ctx.opening = None
  <2>1. H!Clipped(ctx) = {}
    BY <1>2 DEF H!Clipped
  <2> QED
    BY <1>2, <2>1, FS_EmptySet DEF Covers
<1>3. CASE ctx.opening # None
  <2>1. PICK day \in Spans : day = ctx.opening
    BY <1>3, HoursAreFew
  <2>2. day.start \in Int /\ day.end \in Int
    BY DEF Spans
  <2> DEFINE cut(w) == [start |-> H!Later(w.start, day.start),
                        end |-> H!Earlier(w.end, day.end)]
             cuts == {cut(w) : w \in ctx.working}
             f == [w \in ctx.working |-> cut(w)]
  <2>3. H!Clipped(ctx) = {r \in cuts : r.start < r.end}
    BY <1>3, <2>1 DEF H!Clipped
  <2>4. IsFiniteSet(cuts)
    <3>1. f \in [ctx.working -> cuts] /\ \A r \in cuts : \E w \in ctx.working : f[w] = r
      OBVIOUS
    <3> HIDE DEF f, cuts, cut
    <3>2. f \in Surjection(ctx.working, cuts)
      BY <3>1 DEF Surjection
    <3> QED
      BY <1>1, <3>2, FS_Surjection
  <2>5. \A w \in ctx.working : w.start \in Int /\ w.end \in Int
    BY <1>1 DEF Spans
  <2>6. \A w \in ctx.working : cut(w) \in [start : Int, end : Int]
    BY <2>2, <2>5 DEF H!Later, H!Earlier
  <2>7. H!Clipped(ctx) \subseteq Spans
    <3>1. \A r \in cuts : r \in [start : Int, end : Int]
      BY <2>6
    <3> HIDE DEF cuts
    <3> QED
      BY <2>3, <3>1 DEF Spans
  <2>8. IsFiniteSet(H!Clipped(ctx))
    <3>1. H!Clipped(ctx) \subseteq cuts
      BY <2>3
    <3> HIDE DEF cuts
    <3> QED
      BY <2>4, <3>1, FS_Subset
  <2>9. ASSUME NEW x \in Int, NEW w \in ctx.working
        PROVE  (cut(w).start <= x /\ x < cut(w).end)
                 <=> /\ day.start <= x /\ x < day.end
                     /\ w.start <= x /\ x < w.end
    BY <2>2, <2>5 DEF H!Later, H!Earlier
  <2>10. ASSUME NEW x \in Int
         PROVE  Covers(H!Clipped(ctx), x) <=>
                  day.start <= x /\ x < day.end /\ Covers(ctx.working, x)
    <3>1. ASSUME NEW r \in H!Clipped(ctx), r.start <= x /\ x < r.end
          PROVE  day.start <= x /\ x < day.end /\ Covers(ctx.working, x)
      <4>1. PICK w \in ctx.working : r = cut(w)
        BY <2>3
      <4>2. cut(w).start <= x /\ x < cut(w).end
        BY <3>1, <4>1
      <4> HIDE DEF cut
      <4> QED
        BY <2>9, <4>2 DEF Covers
    <3>2. ASSUME NEW w \in ctx.working, w.start <= x /\ x < w.end,
                 day.start <= x /\ x < day.end
          PROVE  Covers(H!Clipped(ctx), x)
      <4>1. PICK r : r = cut(w)
        OBVIOUS
      <4>2. r.start <= x /\ x < r.end
        <5>1. cut(w).start <= x /\ x < cut(w).end
          BY <2>9, <3>2
        <5> HIDE DEF cut
        <5> QED
          BY <4>1, <5>1
      <4>3. r.start \in Int /\ r.end \in Int /\ r \in cuts
        BY <2>6, <4>1
      <4>4. r.start < r.end
        BY <4>2, <4>3
      <4>5. r \in H!Clipped(ctx)
        <5> HIDE DEF cuts
        <5> QED
          BY <2>3, <4>3, <4>4
      <4> QED
        BY <4>2, <4>5 DEF Covers
    <3> QED
      BY <3>1, <3>2 DEF Covers
  <2> HIDE DEF cuts, cut
  <2> QED
    BY <1>3, <2>1, <2>7, <2>8, <2>10
<1> QED
  BY <1>2, <1>3

LEMMA WholeServiceWorkedHolds ==
  ASSUME H!Assumptions, H!TypeOK
  PROVE  H!WholeServiceWorked
<1> SUFFICES ASSUME NEW p \in Professionals, NEW date \in Dates, NEW len \in Durations,
                    NEW ctx, ctx = H!dayContext(p, date, TRUE, {}),
                    NEW m \in 0 .. DayMinutes - 1
             PROVE  H!Inside(m, len, ctx) <=>
                      \A x \in m .. m + len - 1 :
                        /\ ctx.opening # None
                        /\ ctx.opening.start <= x /\ x < ctx.opening.end
                        /\ \E r \in ctx.working : r.start <= x /\ x < r.end
  BY DEF H!WholeServiceWorked
<1>1. date % Week \in H!Weekdays /\ len \in Nat \ {0} /\ m \in Int
  BY DEF H!Assumptions, H!ClockAssumptions, H!Weekdays
<1>2. ctx.working = working[p][date % Week] /\ ctx.opening = opening[date % Week]
  BY DEF H!dayContext
<1>3. ctx.working \subseteq H!Ranges /\ ctx.opening \in H!Ranges \cup {None}
  BY <1>1, <1>2 DEF H!TypeOK
<1>4. PICK ranges : ranges = H!Clipped(ctx)
  OBVIOUS
<1>5. /\ IsFiniteSet(ranges) /\ ranges \subseteq Spans
      /\ \A x \in Int : Covers(ranges, x) <=>
           /\ ctx.opening # None
           /\ ctx.opening.start <= x /\ x < ctx.opening.end
           /\ Covers(ctx.working, x)
  BY <1>3, <1>4, ClippedCovers
<1>6. PICK seq : /\ Merged(ranges, seq)
                 /\ H!effectiveRanges(ctx) = {seq[i] : i \in 1 .. Len(seq)}
  <2>1. IsFiniteSet(H!Clipped(ctx)) /\ H!Clipped(ctx) \subseteq Spans
    BY <1>4, <1>5
  <2>2. PICK seq : /\ Merged(H!Clipped(ctx), seq)
                   /\ H!effectiveRanges(ctx) = {seq[i] : i \in 1 .. Len(seq)}
    BY <2>1, EffectiveAreMerged
  <2> QED
    BY <1>4, <2>2
<1>7. H!Inside(m, len, ctx) <=>
        \E i \in 1 .. Len(seq) : m >= seq[i].start /\ m + len <= seq[i].end
  BY <1>6 DEF H!Inside
<1>8. H!Inside(m, len, ctx) <=> \A x \in m .. m + len - 1 : Covers(ranges, x)
  BY <1>1, <1>6, <1>7, CoveredFits
<1>9. \A x \in m .. m + len - 1 : x \in Int
  OBVIOUS
<1> QED
  BY <1>5, <1>8, <1>9 DEF Covers

-----------------------------------------------------------------------------
(* The reports.                                                            *)

LEMMA ReportsInvariance == R!Spec => []R!TypeOK
<1>1. R!Init => R!TypeOK
  BY DEF R!Init, R!TypeOK
<1>2. R!TypeOK /\ [R!Next]_(R!vars) => R!TypeOK'
  BY DEF R!TypeOK, R!Next, R!Write, R!vars
<1> QED
  BY <1>1, <1>2, PTL DEF R!Spec

LEMMA FiniteForContacts ==
  ASSUME NEW T
  PROVE  C!IsFiniteSet(T) <=> IsFiniteSet(T)
BY DEF C!IsFiniteSet, IsFiniteSet

LEMMA FiniteForReports ==
  ASSUME NEW T
  PROVE  R!IsFiniteSet(T) <=> IsFiniteSet(T)
BY DEF R!IsFiniteSet, IsFiniteSet

LEMMA SizeForContacts ==
  ASSUME NEW T
  PROVE  C!Cardinality(T) = Cardinality(T)
BY DEF C!Cardinality, Cardinality, C!ExistsBijection, ExistsBijection,
       C!Bijection, Bijection, C!Injection, Injection, C!Surjection, Surjection,
       C!IsInjective, IsInjective

\* Counting a set adds one for each of its elements.
LEMMA SizeForReports ==
  ASSUME NEW T, IsFiniteSet(T)
  PROVE  R!Cardinality(T) = C!Total([x \in T |-> 1], T)
<1>1. R!Cardinality(T) = Cardinality(T)
  BY DEF R!Cardinality, Cardinality, R!ExistsBijection, ExistsBijection,
         R!Bijection, Bijection, R!Injection, Injection, R!Surjection, Surjection,
         R!IsInjective, IsInjective
<1>2. C!Total([x \in T |-> 1], T) = C!Cardinality(T)
  BY FiniteForContacts, C!TotalOfOnes
<1> QED
  BY <1>1, <1>2, SizeForContacts

\* From the first moment of a date on, clocks show that date or a later one;
\* before, an earlier one.
LEMMA MidnightCuts ==
  ASSUME R!ClockAssumptions, NEW from \in Int, NEW to \in Int, R!Midnights(from, to),
         NEW d \in from .. to + 1, NEW t \in Int
  PROVE  /\ t >= R!dayStart(d) <=> R!toLocalDate(t) >= d
         /\ R!dayStart(d) \in Int /\ R!toLocalDate(t) \in Int
<1>1. PICK s \in Int : s = R!dayStart(d)
  <2>1. PICK n \in Int : n = (d * DayMinutes + 0) * Minute
    BY DEF R!ClockAssumptions
  <2>2. n - R!offsetMs(n - R!offsetMs(n)) \in Int
    BY DEF R!offsetMs, R!ClockAssumptions
  <2> QED
    BY <2>1, <2>2 DEF R!dayStart, R!zonedToUtc
<1>2. PICK w \in Nat \ {0} : w = DayMinutes * Minute
  BY DEF R!ClockAssumptions
<1>3. PICK m \in Int : m = d * w /\ m = d * DayMinutes * Minute
  BY <1>2 DEF R!ClockAssumptions
<1>4. s + R!offsetMs(s) = m /\ m \notin Change + After .. Change + Before - 1
  BY <1>1, <1>3 DEF R!Midnights
<1>5. PICK n \in Int : n = t + R!offsetMs(t)
  BY DEF R!offsetMs, R!ClockAssumptions
<1>6. (t >= s) <=> (n >= m)
  BY <1>4, <1>5 DEF R!offsetMs, R!ClockAssumptions
<1>7. PICK q \in Int, x \in 0 .. w - 1 : q = n \div w /\ n = w * q + x
  OBVIOUS
<1>8. (n >= m) <=> (q >= d)
  <2>1. CASE q >= d
    <3>1. w * q >= w * d /\ w * d = m
      BY <1>3, <2>1
    <3> QED
      BY <1>7, <2>1, <3>1
  <2>2. CASE q < d
    <3>1. w * q + w <= w * d /\ w * d = m
      <4>1. w * (q + 1) <= w * d /\ w * (q + 1) = w * q + w
        BY <2>2
      <4> QED
        BY <1>3, <4>1
    <3>2. n < m
      BY <1>7, <3>1
    <3> QED
      BY <2>2, <3>2
  <2> QED
    BY <2>1, <2>2
<1>9. R!toLocalDate(t) = q
  BY <1>2, <1>5, <1>7 DEF R!toLocalDate
<1> QED
  BY <1>1, <1>6, <1>8, <1>9

-----------------------------------------------------------------------------
(* What the library's sums are.                                            *)

\* What is earned is the sum of the prices.
LEMMA RevenueIsTotal ==
  ASSUME NEW T, IsFiniteSet(T)
  PROVE  R!Revenue(T) = C!Total([a \in T |-> appts[a].price], T)
<1> DEFINE v == [a \in T |-> appts[a].price]
           Sums(g) == g = [s \in SUBSET T |->
                            IF s = {} THEN 0
                            ELSE appts[C!Picked(s)].price + g[s \ {C!Picked(s)}]]
<1>1. R!Revenue(T) = (CHOOSE g : Sums(g))[T]
  BY DEF R!Revenue, R!MapThenSumSet, R!MapThenFoldSet, C!Picked
<1>2. ASSUME NEW g
      PROVE  Sums(g) <=> C!Adds(v, T, g)
  <2>1. ASSUME NEW s \in SUBSET T, s # {}
        PROVE  v[C!Picked(s)] = appts[C!Picked(s)].price
    BY <2>1, C!PickedIsIn
  <2> HIDE DEF v
  <2> QED
    BY <2>1 DEF C!Adds
<1> HIDE DEF v, Sums
<1>3. C!IsFiniteSet(T)
  BY FiniteForContacts
<1>4. \E g : Sums(g)
  BY <1>2, <1>3, C!TotalExists
<1>5. PICK g : Sums(g) /\ R!Revenue(T) = g[T]
  BY <1>1, <1>4
<1>6. R!Revenue(T) = C!Total(v, T)
  BY <1>2, <1>3, <1>5, C!SumIsTotal
<1> QED
  BY <1>6 DEF v

\* What was earned is a number.
LEMMA RevenueIsInt ==
  ASSUME NEW T, IsFiniteSet(T), \A a \in T : appts[a].price \in Int
  PROVE  R!Revenue(T) \in Int
<1>1. C!IsFiniteSet(T)
  BY FiniteForContacts
<1>0. PICK v : v = [a \in T |-> appts[a].price]
  OBVIOUS
<1>2. \A a \in T : v[a] \in Int
  BY <1>0
<1>3. C!Total(v, T) \in Int
  BY <1>1, <1>2, C!TotalIsInt
<1> QED
  BY <1>0, <1>3, RevenueIsTotal

\* What the parts of a set earned adds up to what the whole did.
LEMMA RevenueAddsUp ==
  ASSUME NEW T, IsFiniteSet(T), \A a \in T : appts[a].price \in Int,
         NEW I, IsFiniteSet(I), NEW of, \A a \in T : of[a] \in I,
         NEW part, \A i \in I : part[i] = {a \in T : of[a] = i},
         NEW f, \A i \in I : f[i] = R!Revenue(part[i])
  PROVE  C!Total(f, I) = R!Revenue(T)
<1>1. C!IsFiniteSet(T) /\ C!IsFiniteSet(I)
  BY FiniteForContacts
<1>0. PICK v : v = [a \in T |-> appts[a].price]
  OBVIOUS
<1>2. \A a \in T : v[a] \in Int
  BY <1>0
<1>3. PICK sums : sums = [i \in I |-> C!Total(v, {a \in T : of[a] = i})]
  OBVIOUS
<1>4. C!Total(sums, I) = C!Total(v, T)
  BY <1>1, <1>2, <1>3, C!PartsAddUp
<1>5. ASSUME NEW i \in I
      PROVE  f[i] = sums[i]
  <2>1. PICK own : own = {a \in T : of[a] = i} /\ own \in SUBSET T /\ own = part[i]
    OBVIOUS
  <2>2. IsFiniteSet(own) /\ C!IsFiniteSet(own)
    BY <2>1, FS_Subset, FiniteForContacts
  <2>7. PICK p : p = [a \in own |-> appts[a].price]
    OBVIOUS
  <2>3. \A a \in own : p[a] = v[a]
    BY <1>0, <2>1, <2>7
  <2>4. R!Revenue(own) = C!Total(p, own)
    BY <2>2, <2>7, RevenueIsTotal
  <2>5. C!Total(p, own) = C!Total(v, own)
    BY <2>2, <2>3, C!TotalAlike
  <2>6. f[i] = R!Revenue(own) /\ sums[i] = C!Total(v, own)
    BY <1>3, <2>1
  <2> QED
    BY <2>4, <2>5, <2>6
<1>6. C!Total(f, I) = C!Total(sums, I)
  BY <1>1, <1>5, C!TotalAlike
<1> QED
  BY <1>0, <1>4, <1>6, RevenueIsTotal

\* The sizes of the parts of a set add up to its size.
LEMMA SizesAddUp ==
  ASSUME NEW T, IsFiniteSet(T), NEW I, IsFiniteSet(I), NEW of, \A a \in T : of[a] \in I,
         NEW part, \A i \in I : part[i] = {a \in T : of[a] = i},
         NEW f, \A i \in I : f[i] = R!Cardinality(part[i])
  PROVE  C!Total(f, I) = R!Cardinality(T)
<1>1. C!IsFiniteSet(T) /\ C!IsFiniteSet(I)
  BY FiniteForContacts
<1>0. PICK v : v = [a \in T |-> 1]
  OBVIOUS
<1>2. \A a \in T : v[a] \in Int
  BY <1>0
<1>3. PICK sums : sums = [i \in I |-> C!Total(v, {a \in T : of[a] = i})]
  OBVIOUS
<1>4. C!Total(sums, I) = C!Total(v, T)
  BY <1>1, <1>2, <1>3, C!PartsAddUp
<1>5. ASSUME NEW i \in I
      PROVE  f[i] = sums[i]
  <2>1. PICK own : own = {a \in T : of[a] = i} /\ own \in SUBSET T /\ own = part[i]
    OBVIOUS
  <2>2. IsFiniteSet(own) /\ C!IsFiniteSet(own)
    BY <2>1, FS_Subset, FiniteForContacts
  <2>7. PICK p : p = [a \in own |-> 1]
    OBVIOUS
  <2>3. \A a \in own : p[a] = v[a]
    BY <1>0, <2>1, <2>7
  <2>4. R!Cardinality(own) = C!Total(p, own)
    BY <2>2, <2>7, SizeForReports
  <2>5. C!Total(p, own) = C!Total(v, own)
    BY <2>2, <2>3, C!TotalAlike
  <2>6. f[i] = R!Cardinality(own) /\ sums[i] = C!Total(v, own)
    BY <1>3, <2>1
  <2> QED
    BY <2>4, <2>5, <2>6
<1>6. C!Total(f, I) = C!Total(sums, I)
  BY <1>1, <1>5, C!TotalAlike
<1> QED
  BY <1>0, <1>4, <1>6, SizeForReports

-----------------------------------------------------------------------------
(* The days of a report.                                                   *)

\* What a row of the table holds.
LEMMA RowHolds ==
  ASSUME R!Assumptions, R!TypeOK
  PROVE  /\ IsFiniteSet(R!Every)
         /\ \A a \in R!Every :
              /\ a \in Bookings /\ appts[a] \in R!Row
              /\ appts[a].startsAt \in Int /\ appts[a].startsAt \in Times
              /\ appts[a].price \in Int /\ appts[a].prof \in Staff
              /\ appts[a].customer \in Customers
<1>1. R!Every \in SUBSET Bookings
  BY DEF R!Every
<1>2. IsFiniteSet(R!Every)
  BY <1>1, FS_Subset, FiniteForReports DEF R!Assumptions
<1>3. ASSUME NEW a \in R!Every
      PROVE  a \in Bookings /\ appts[a] \in R!Row
  BY DEF R!Every, R!TypeOK
<1>4. ASSUME NEW row \in R!Row
      PROVE  /\ row.startsAt \in Int /\ row.startsAt \in Times /\ row.price \in Int
             /\ row.prof \in Staff /\ row.customer \in Customers
  BY DEF R!Row, R!Assumptions
<1> QED
  BY <1>2, <1>3, <1>4

\* A query from the first moment of a date to the last of another finds the
\* rows whose dates lie between them.
LEMMA DuringIsDated ==
  ASSUME R!Assumptions, R!TypeOK, NEW from \in Int, NEW to \in Int, R!Midnights(from, to),
         NEW T \in SUBSET R!Every, NEW x \in from .. to, NEW y \in from .. to
  PROVE  R!During(T, x, y) = {a \in T : R!toLocalDate(appts[a].startsAt) \in x .. y}
<1>1. ASSUME NEW a \in T
      PROVE  /\ appts[a].startsAt >= R!dayStart(x) /\ appts[a].startsAt < R!dayStart(y + 1)
               <=> R!toLocalDate(appts[a].startsAt) \in x .. y
  <2>1. PICK t \in Int : t = appts[a].startsAt
    BY RowHolds
  <2>2. R!ClockAssumptions
    BY DEF R!Assumptions
  <2>3. /\ t >= R!dayStart(x) <=> R!toLocalDate(t) >= x
        /\ R!dayStart(x) \in Int /\ R!toLocalDate(t) \in Int
    BY <2>2, MidnightCuts
  <2>4. /\ t >= R!dayStart(y + 1) <=> R!toLocalDate(t) >= y + 1
        /\ R!dayStart(y + 1) \in Int
    BY <2>2, MidnightCuts
  <2> QED
    BY <2>1, <2>3, <2>4
<1> QED
  BY <1>1 DEF R!During

LEMMA DaysAddUpHolds ==
  ASSUME R!Assumptions, R!TypeOK
  PROVE  R!DaysAddUp
<1> SUFFICES ASSUME NEW from \in Days, NEW to \in Days, from <= to, R!Midnights(from, to)
             PROVE  LET r == R!report(from, to) IN
               /\ R!MapThenSumSet(LAMBDA d : r.byDay[d].revenue, from .. to)
                    = r.totals.revenue
               /\ R!MapThenSumSet(LAMBDA d : r.byDay[d].appointments, from .. to)
                    = r.totals.completed
               /\ R!MapThenSumSet(LAMBDA p : r.byProfessional[p], DOMAIN r.byProfessional)
                    = r.totals.revenue
  BY DEF R!DaysAddUp
<1>0. from \in Int /\ to \in Int
  BY DEF R!Assumptions
<1>1. PICK I : I = from .. to
  OBVIOUS
<1>2. PICK completed : completed = R!Having(R!During(R!Every, from, to), {"COMPLETED"})
  OBVIOUS
<1>3. /\ completed \in SUBSET R!Every /\ IsFiniteSet(completed)
      /\ \A a \in completed : R!toLocalDate(appts[a].startsAt) \in I
      /\ \A a \in completed : appts[a].price \in Int
  <2>1. R!During(R!Every, from, to) =
          {a \in R!Every : R!toLocalDate(appts[a].startsAt) \in from .. to}
    BY <1>0, DuringIsDated
  <2>2. completed \in SUBSET R!Every
    BY <1>2, <2>1 DEF R!Having
  <2>3. IsFiniteSet(completed)
    BY <2>2, RowHolds, FS_Subset
  <2> QED
    BY <1>1, <1>2, <2>1, <2>2, <2>3, RowHolds DEF R!Having
<1>4. IsFiniteSet(I) /\ C!IsFiniteSet(I)
  BY <1>0, <1>1, FS_Interval, FiniteForContacts
<1>5. PICK dates : dates = [a \in completed |-> R!toLocalDate(appts[a].startsAt)]
  OBVIOUS
<1>6. PICK r : r = R!report(from, to)
  OBVIOUS
<1>7. /\ r.totals.revenue = R!Revenue(completed)
      /\ r.totals.completed = R!Cardinality(completed)
      /\ r.byDay = [date \in from .. to |->
           [revenue |-> R!Revenue(R!OnDate(completed, date)),
            appointments |-> R!Cardinality(R!OnDate(completed, date))]]
      /\ r.byProfessional = [p \in {appts[a].prof : a \in completed} |->
           R!Revenue({a \in completed : appts[a].prof = p})]
  BY <1>2, <1>6, Zenon DEF R!report
<1>8. \A a \in completed : dates[a] \in I
  BY <1>3, <1>5
<1>12. PICK part : part = [d \in I |-> R!OnDate(completed, d)]
  OBVIOUS
<1>13. \A d \in I : part[d] = {a \in completed : dates[a] = d}
  BY <1>5, <1>12 DEF R!OnDate
<1>9. R!MapThenSumSet(LAMBDA d : r.byDay[d].revenue, from .. to) = r.totals.revenue
  <2> DEFINE f == [d \in I |-> r.byDay[d].revenue]
             Sums(g) == g = [s \in SUBSET (from .. to) |->
                              IF s = {} THEN 0
                              ELSE r.byDay[C!Picked(s)].revenue + g[s \ {C!Picked(s)}]]
  <2>1. R!MapThenSumSet(LAMBDA d : r.byDay[d].revenue, from .. to)
          = (CHOOSE g : Sums(g))[from .. to]
    BY DEF R!MapThenSumSet, R!MapThenFoldSet, C!Picked
  <2>2. ASSUME NEW g
        PROVE  Sums(g) <=> C!Adds(f, I, g)
    <3>1. ASSUME NEW s \in SUBSET I, s # {}
          PROVE  f[C!Picked(s)] = r.byDay[C!Picked(s)].revenue
      <4>1. C!Picked(s) \in I
        BY <3>1, C!PickedIsIn
      <4> QED
        BY <4>1
    <3> HIDE DEF f
    <3> QED
      BY <1>1, <3>1 DEF C!Adds
  <2>3. ASSUME NEW d \in I
        PROVE  f[d] = R!Revenue(part[d])
    <3>1. r.byDay[d].revenue = R!Revenue(R!OnDate(completed, d))
      BY <1>1, <1>7
    <3> QED
      BY <1>12, <3>1
  <2> HIDE DEF f, Sums
  <2>4. PICK g : Sums(g) /\ (CHOOSE h : Sums(h))[from .. to] = g[I]
    BY <1>1, <1>4, <2>2, C!TotalExists
  <2>5. g[I] = C!Total(f, I)
    BY <1>4, <2>2, <2>4, C!SumIsTotal
  <2>6. C!Total(f, I) = R!Revenue(completed)
    BY <1>3, <1>4, <1>8, <1>13, <2>3, RevenueAddsUp
  <2> QED
    BY <1>7, <2>1, <2>4, <2>5, <2>6
<1>10. R!MapThenSumSet(LAMBDA d : r.byDay[d].appointments, from .. to) = r.totals.completed
  <2> DEFINE f == [d \in I |-> r.byDay[d].appointments]
             Sums(g) == g = [s \in SUBSET (from .. to) |->
                              IF s = {} THEN 0
                              ELSE r.byDay[C!Picked(s)].appointments + g[s \ {C!Picked(s)}]]
  <2>1. R!MapThenSumSet(LAMBDA d : r.byDay[d].appointments, from .. to)
          = (CHOOSE g : Sums(g))[from .. to]
    BY DEF R!MapThenSumSet, R!MapThenFoldSet, C!Picked
  <2>2. ASSUME NEW g
        PROVE  Sums(g) <=> C!Adds(f, I, g)
    <3>1. ASSUME NEW s \in SUBSET I, s # {}
          PROVE  f[C!Picked(s)] = r.byDay[C!Picked(s)].appointments
      <4>1. C!Picked(s) \in I
        BY <3>1, C!PickedIsIn
      <4> QED
        BY <4>1
    <3> HIDE DEF f
    <3> QED
      BY <1>1, <3>1 DEF C!Adds
  <2>3. ASSUME NEW d \in I
        PROVE  f[d] = R!Cardinality(part[d])
    <3>1. r.byDay[d].appointments = R!Cardinality(R!OnDate(completed, d))
      BY <1>1, <1>7
    <3> QED
      BY <1>12, <3>1
  <2> HIDE DEF f, Sums
  <2>4. PICK g : Sums(g) /\ (CHOOSE h : Sums(h))[from .. to] = g[I]
    BY <1>1, <1>4, <2>2, C!TotalExists
  <2>5. g[I] = C!Total(f, I)
    BY <1>4, <2>2, <2>4, C!SumIsTotal
  <2>6. C!Total(f, I) = R!Cardinality(completed)
    BY <1>3, <1>4, <1>8, <1>13, <2>3, SizesAddUp
  <2> QED
    BY <1>7, <2>1, <2>4, <2>5, <2>6
<1>11. R!MapThenSumSet(LAMBDA p : r.byProfessional[p], DOMAIN r.byProfessional)
         = r.totals.revenue
  <2>1. PICK workers : workers = DOMAIN r.byProfessional
    OBVIOUS
  <2>2. workers = {appts[a].prof : a \in completed}
    BY <1>7, <2>1
  <2>12. PICK profs : profs = [a \in completed |-> appts[a].prof]
    OBVIOUS
  <2>13. workers = {profs[a] : a \in completed}
    BY <2>2, <2>12
  <2>3. IsFiniteSet(workers) /\ C!IsFiniteSet(workers)
    <3>1. profs \in Surjection(completed, workers)
      BY <2>12, <2>13 DEF Surjection
    <3> QED
      BY <1>3, <3>1, FS_Surjection, FiniteForContacts
  <2>4. PICK f : f = r.byProfessional
    OBVIOUS
  <2>10. PICK teams : teams = [p \in workers |-> {a \in completed : appts[a].prof = p}]
    OBVIOUS
  <2>11. \A p \in workers : teams[p] = {a \in completed : profs[a] = p}
    BY <2>10, <2>12
  <2>6. ASSUME NEW p \in workers
        PROVE  f[p] = R!Revenue(teams[p])
    <3>1. r.byProfessional[p] = R!Revenue({a \in completed : appts[a].prof = p})
      BY <1>7, <2>2
    <3> QED
      BY <2>4, <2>10, <3>1
  <2>7. R!MapThenSumSet(LAMBDA p : r.byProfessional[p], DOMAIN r.byProfessional)
          = C!Total(f, workers)
    BY <2>1, <2>4 DEF R!MapThenSumSet, R!MapThenFoldSet, C!Total, C!Adds, C!Picked
  <2>8. \A a \in completed : profs[a] \in workers
    BY <2>12, <2>13
  <2>9. C!Total(f, workers) = R!Revenue(completed)
    <3>1. IsFiniteSet(completed) /\ \A a \in completed : appts[a].price \in Int
      BY <1>3
    <3>2. \A p \in workers : f[p] = R!Revenue(teams[p])
      BY <2>6
    <3>3. IsFiniteSet(workers)
      BY <2>3
    <3> QED
      BY <3>1, <3>2, <3>3, <2>8, <2>11, RevenueAddsUp
  <2> QED
    BY <1>7, <2>7, <2>9
<1> QED
  BY <1>6, <1>9, <1>10, <1>11

-----------------------------------------------------------------------------
(* The dashboard.                                                          *)

\* What the dashboard of a user shows of the day.
LEMMA DashboardShows ==
  ASSUME NEW date, NEW u, NEW own, own = R!During(R!Seen(u), date, date)
  PROVE  /\ R!dashboard(date, u).revenue = R!Revenue(R!Having(own, {"COMPLETED"}))
         /\ R!dashboard(date, u).expected = R!Revenue(R!Having(own, R!ActiveStatuses))
         /\ R!dashboard(date, u).agenda = own \ R!Having(own, {"CANCELLED"})
BY DEF R!dashboard

\* The owner sees every row; a professional who sees no more than their own
\* agenda sees their own rows.
LEMMA WhoSees ==
  ASSUME R!Assumptions, R!TypeOK
  PROVE  /\ R!Seen(R!TheOwner) = R!Every
         /\ \A p \in Staff : R!Seen(R!Alone(p)) = {a \in R!Every : appts[a].prof = p}
<1>1. R!professionalScope(R!TheOwner) = Staff
  BY DEF R!professionalScope, R!seesWholeAgenda, R!TheOwner
<1>2. R!Seen(R!TheOwner) = R!Every
  <2>1. \A a \in R!Every : appts[a].prof \in Staff
    BY RowHolds
  <2> QED
    BY <1>1, <2>1 DEF R!Seen, R!Every
<1>3. ASSUME NEW p \in Staff
      PROVE  R!Seen(R!Alone(p)) = {a \in R!Every : appts[a].prof = p}
  <2>1. R!professionalScope(R!Alone(p)) = {p}
    BY DEF R!professionalScope, R!seesWholeAgenda, R!Alone
  <2> QED
    BY <2>1 DEF R!Seen, R!Every
<1> QED
  BY <1>2, <1>3

LEMMA DashboardsAgreeHolds ==
  ASSUME R!Assumptions, R!TypeOK
  PROVE  R!DashboardsAgree
<1> SUFFICES ASSUME NEW date \in Days, R!Midnights(date - (WeekDays - 1), date)
             PROVE  LET all == R!dashboard(date, R!TheOwner) IN
               /\ \A d \in DOMAIN all.byDay : all.byDay[d] = R!report(d, d).byDay[d]
               /\ all.byDay[date].revenue = all.revenue
               /\ R!MapThenSumSet(LAMBDA p : R!dashboard(date, R!Alone(p)).expected, Staff)
                    = all.expected
               /\ all.agenda
                    \subseteq R!diary(R!TheOwner, R!dayStart(date), R!dayStart(date + 1))
  BY DEF R!DashboardsAgree
<1>1. date \in Int /\ WeekDays \in Nat \ {0} /\ Lasting \in Nat \ {0} /\ R!ClockAssumptions
  BY DEF R!Assumptions
<1>2. PICK from \in Int : from = date - (WeekDays - 1) /\ from <= date
  BY <1>1
<1>3. R!Midnights(from, date)
  BY <1>2
<1>4. PICK all : all = R!dashboard(date, R!TheOwner)
  OBVIOUS
<1>5. PICK daily : daily = R!During(R!Every, date, date)
  OBVIOUS
<1>6. PICK recent : recent = {a \in R!Having(R!Every, {"COMPLETED"}) :
                               /\ appts[a].startsAt >= R!revenueFrom(date)
                               /\ appts[a].startsAt < R!dayStart(date + 1)}
  OBVIOUS
<1>7. /\ all.revenue = R!Revenue(R!Having(daily, {"COMPLETED"}))
      /\ all.expected = R!Revenue(R!Having(daily, R!ActiveStatuses))
      /\ all.agenda = daily \ R!Having(daily, {"CANCELLED"})
      /\ all.byDay = [d \in from .. date |->
           [revenue |-> R!Revenue(R!OnDate(recent, d)),
            appointments |-> R!Cardinality(R!OnDate(recent, d))]]
  <2>1. R!Seen(R!TheOwner) = R!Every
    BY WhoSees
  <2>2. PICK seen : seen = {a \in R!Having(R!Seen(R!TheOwner), {"COMPLETED"}) :
                             /\ appts[a].startsAt >= R!revenueFrom(date)
                             /\ appts[a].startsAt < R!dayStart(date + 1)}
    OBVIOUS
  <2>3. all.byDay = [d \in date - (WeekDays - 1) .. date |->
          [revenue |-> R!Revenue(R!OnDate(seen, d)),
           appointments |-> R!Cardinality(R!OnDate(seen, d))]]
    BY <1>4, <2>2, Zenon DEF R!dashboard
  <2>4. seen = recent
    BY <1>6, <2>1, <2>2
  <2>5. daily = R!During(R!Seen(R!TheOwner), date, date)
    BY <1>5, <2>1
  <2> QED
    BY <1>2, <1>4, <2>3, <2>4, <2>5, DashboardShows
<1>8. daily = {a \in R!Every : R!toLocalDate(appts[a].startsAt) = date}
  <2>1. R!During(R!Every, date, date) =
          {a \in R!Every : R!toLocalDate(appts[a].startsAt) \in date .. date}
    BY <1>1, <1>2, <1>3, DuringIsDated
  <2>2. date .. date = {date}
    BY <1>1
  <2> QED
    BY <1>5, <2>1, <2>2
<1>9. recent = {a \in R!Having(R!Every, {"COMPLETED"}) :
                 R!toLocalDate(appts[a].startsAt) \in from .. date}
  <2>1. R!During(R!Every, from, date) =
          {a \in R!Every : R!toLocalDate(appts[a].startsAt) \in from .. date}
    BY <1>1, <1>2, <1>3, DuringIsDated
  <2>2. R!revenueFrom(date) = R!dayStart(from)
    BY <1>2 DEF R!revenueFrom
  <2> QED
    BY <1>6, <2>1, <2>2 DEF R!During, R!Having
<1>10. ASSUME NEW d \in from .. date
       PROVE  all.byDay[d] = R!report(d, d).byDay[d]
  <2>1. PICK completed : completed = R!Having(R!During(R!Every, d, d), {"COMPLETED"})
    OBVIOUS
  <2>2. R!report(d, d).byDay = [x \in d .. d |->
           [revenue |-> R!Revenue(R!OnDate(completed, x)),
            appointments |-> R!Cardinality(R!OnDate(completed, x))]]
    BY <2>1, Zenon DEF R!report
  <2>3. d \in d .. d
    OBVIOUS
  <2>4. R!During(R!Every, d, d) =
          {a \in R!Every : R!toLocalDate(appts[a].startsAt) \in d .. d}
    BY <1>1, <1>2, <1>3, DuringIsDated
  <2>5. R!OnDate(completed, d) = R!OnDate(recent, d)
    BY <1>9, <2>1, <2>3, <2>4 DEF R!OnDate, R!Having
  <2>6. R!report(d, d).byDay[d] =
          [revenue |-> R!Revenue(R!OnDate(completed, d)),
           appointments |-> R!Cardinality(R!OnDate(completed, d))]
    BY <2>2, <2>3
  <2>7. all.byDay[d] =
          [revenue |-> R!Revenue(R!OnDate(recent, d)),
           appointments |-> R!Cardinality(R!OnDate(recent, d))]
    BY <1>7
  <2> QED
    BY <2>5, <2>6, <2>7
<1>11. all.byDay[date].revenue = all.revenue
  <2>1. date \in from .. date
    BY <1>1, <1>2
  <2>2. R!OnDate(recent, date) = R!Having(daily, {"COMPLETED"})
    BY <1>8, <1>9, <2>1 DEF R!OnDate, R!Having
  <2>3. all.byDay[date].revenue = R!Revenue(R!OnDate(recent, date))
    BY <1>7, <2>1
  <2> QED
    BY <1>7, <2>2, <2>3
<1>12. R!MapThenSumSet(LAMBDA p : R!dashboard(date, R!Alone(p)).expected, Staff)
         = all.expected
  <2> DEFINE f == [p \in Staff |-> R!dashboard(date, R!Alone(p)).expected]
             Sums(g) == g = [s \in SUBSET Staff |->
                              IF s = {} THEN 0
                              ELSE R!dashboard(date, R!Alone(C!Picked(s))).expected
                                     + g[s \ {C!Picked(s)}]]
  <2>1. R!MapThenSumSet(LAMBDA p : R!dashboard(date, R!Alone(p)).expected, Staff)
          = (CHOOSE g : Sums(g))[Staff]
    BY DEF R!MapThenSumSet, R!MapThenFoldSet, C!Picked
  <2>2. ASSUME NEW g
        PROVE  Sums(g) <=> C!Adds(f, Staff, g)
    <3>1. ASSUME NEW s \in SUBSET Staff, s # {}
          PROVE  f[C!Picked(s)] = R!dashboard(date, R!Alone(C!Picked(s))).expected
      <4>1. C!Picked(s) \in Staff
        BY <3>1, C!PickedIsIn
      <4> QED
        BY <4>1
    <3> HIDE DEF f
    <3> QED
      BY <3>1 DEF C!Adds
  <2>3. PICK due : due = R!Having(daily, R!ActiveStatuses)
    OBVIOUS
  <2>4. PICK profs : profs = [a \in due |-> appts[a].prof]
    OBVIOUS
  <2>5. PICK part : part = [p \in Staff |-> {a \in due : appts[a].prof = p}]
    OBVIOUS
  <2>6. ASSUME NEW p \in Staff
        PROVE  f[p] = R!Revenue(part[p])
    <3>1. PICK u : u = R!Alone(p) /\ R!Seen(u) = {a \in R!Every : appts[a].prof = p}
      BY WhoSees
    <3>3. PICK own : own = R!During(R!Seen(u), date, date)
      OBVIOUS
    <3>4. R!dashboard(date, u).expected = R!Revenue(R!Having(own, R!ActiveStatuses))
      BY <3>3, DashboardShows
    <3>5. R!Having(own, R!ActiveStatuses) = part[p]
      BY <1>5, <2>3, <2>5, <3>1, <3>3 DEF R!Having, R!During
    <3>6. f[p] = R!dashboard(date, u).expected
      BY <3>1
    <3> QED
      BY <3>4, <3>5, <3>6
  <2> HIDE DEF f, Sums
  <2>7. IsFiniteSet(Staff) /\ C!IsFiniteSet(Staff)
    BY FiniteForReports, FiniteForContacts DEF R!Assumptions
  <2>8. PICK g : Sums(g) /\ (CHOOSE h : Sums(h))[Staff] = g[Staff]
    BY <2>2, <2>7, C!TotalExists
  <2>9. g[Staff] = C!Total(f, Staff)
    BY <2>2, <2>7, <2>8, C!SumIsTotal
  <2>10. due \in SUBSET R!Every
    BY <1>8, <2>3 DEF R!Having
  <2>11. IsFiniteSet(due) /\ \A a \in due : appts[a].price \in Int
    BY <2>10, RowHolds, FS_Subset
  <2>12. \A a \in due : profs[a] \in Staff
    BY <2>4, <2>10, RowHolds
  <2>13. \A p \in Staff : part[p] = {a \in due : profs[a] = p}
    BY <2>4, <2>5
  <2>14. C!Total(f, Staff) = R!Revenue(due)
    <3>1. \A p \in Staff : f[p] = R!Revenue(part[p])
      BY <2>6
    <3>2. IsFiniteSet(Staff)
      BY <2>7
    <3> QED
      BY <2>11, <2>12, <2>13, <3>1, <3>2, RevenueAddsUp
  <2> QED
    BY <1>7, <2>1, <2>3, <2>8, <2>9, <2>14
<1>13. all.agenda \subseteq R!diary(R!TheOwner, R!dayStart(date), R!dayStart(date + 1))
  <2>1. R!dayStart(date) \in Int
    BY <1>1, <1>2, <1>3, MidnightCuts
  <2>2. ASSUME NEW a \in all.agenda
        PROVE  /\ a \in R!Seen(R!TheOwner) /\ appts[a].startsAt \in Int
               /\ appts[a].startsAt >= R!dayStart(date)
               /\ appts[a].startsAt < R!dayStart(date + 1)
    <3>1. a \in R!Every /\ a \in daily
      BY <1>7, <1>8
    <3> QED
      BY <1>5, <3>1, RowHolds, WhoSees DEF R!During
  <2> QED
    BY <1>1, <2>1, <2>2 DEF R!diary
<1>14. DOMAIN all.byDay = from .. date
  BY <1>7
<1> QED
  BY <1>4, <1>10, <1>11, <1>12, <1>13, <1>14

-----------------------------------------------------------------------------
(* The cards of the customers.                                             *)

\* Of some numbers, one is the largest and one the smallest.
LEMMA Extremes ==
  ASSUME NEW T, IsFiniteSet(T), T # {}, T \subseteq Int
  PROVE  R!Max(T) \in T /\ R!Min(T) \in T
<1> DEFINE Bounded(t) == (\E x \in t : \A y \in t : x >= y) /\ (\E x \in t : \A y \in t : x <= y)
           B == {t \in SUBSET T : t # {} /\ ~ Bounded(t)}
<1>1. ASSUME B # {}
      PROVE  FALSE
  <2>1. B \subseteq SUBSET T /\ C!IsFiniteSet(T)
    BY FiniteForContacts
  <2>2. PICK t \in B : \A u \in SUBSET t : u # t => u \notin B
    <3> HIDE DEF B
    <3> QED
      BY <1>1, <2>1, C!Smallest
  <2>3. PICK c : c \in t
    BY <2>2
  <2>4. PICK u : u = t \ {c}
    OBVIOUS
  <2>5. c \in Int /\ u \in SUBSET T /\ u \subseteq Int
    BY <2>2, <2>3, <2>4
  <2>6. u = {} \/ Bounded(u)
    BY <2>2, <2>3, <2>4, <2>5
  <2>7. CASE u = {}
    <3>1. t = {c}
      BY <2>3, <2>4, <2>7
    <3> QED
      BY <2>2, <2>5, <3>1
  <2>8. CASE Bounded(u)
    <3>1. PICK hi \in u : \A y \in u : hi >= y
      BY <2>8
    <3>2. PICK lo \in u : \A y \in u : lo <= y
      BY <2>8
    <3>3. \A y \in t : y = c \/ y \in u
      BY <2>4
    <3>4. \E x \in t : \A y \in t : x >= y
      <4>1. CASE hi >= c
        BY <2>4, <2>5, <3>1, <3>3, <4>1
      <4>2. CASE c >= hi
        <5>1. \A y \in t : c >= y
          BY <2>5, <3>1, <3>3, <4>2
        <5> QED
          BY <2>3, <5>1
      <4> QED
        BY <2>5, <3>1, <4>1, <4>2
    <3>5. \E x \in t : \A y \in t : x <= y
      <4>1. CASE lo <= c
        BY <2>4, <2>5, <3>2, <3>3, <4>1
      <4>2. CASE c <= lo
        <5>1. \A y \in t : c <= y
          BY <2>5, <3>2, <3>3, <4>2
        <5> QED
          BY <2>3, <5>1
      <4> QED
        BY <2>5, <3>2, <4>1, <4>2
    <3> QED
      BY <2>2, <3>4, <3>5
  <2> QED
    BY <2>6, <2>7, <2>8
<1>2. Bounded(T)
  BY <1>1
<1> QED
  BY <1>2 DEF R!Max, R!Min

\* The moments at which rows begin are few.
LEMMA BeginningsAreFew ==
  ASSUME R!Assumptions, R!TypeOK, NEW T \in SUBSET R!Every, NEW U
  PROVE  LET moments == {appts[a].startsAt : a \in T} \cap U IN
         IsFiniteSet(moments) /\ moments \subseteq Int
<1>1. PICK begins : begins = [a \in T |-> appts[a].startsAt]
  OBVIOUS
<1>2. PICK moments : moments = {appts[a].startsAt : a \in T}
  OBVIOUS
<1>3. moments = {begins[a] : a \in T} /\ moments \subseteq Int
  BY <1>1, <1>2, RowHolds
<1>4. begins \in Surjection(T, moments)
  BY <1>1, <1>3 DEF Surjection
<1>5. IsFiniteSet(T)
  BY RowHolds, FS_Subset
<1>6. IsFiniteSet(moments)
  BY <1>4, <1>5, FS_Surjection
<1>7. IsFiniteSet(moments \cap U)
  BY <1>6, FS_Subset
<1> QED
  BY <1>2, <1>3, <1>7

LEMMA CardsAddUpHolds ==
  ASSUME R!Assumptions, R!TypeOK
  PROVE  R!CardsAddUp
<1> SUFFICES ASSUME NEW hour \in Times
             PROVE  LET shown == [c \in Customers |-> R!customerCard(c, hour)] IN
               /\ R!MapThenSumSet(LAMBDA c : shown[c].spent, Customers)
                    = R!Revenue(R!Having(R!Every, {"COMPLETED"}))
               /\ \A c \in Customers :
                    /\ shown[c].last # None => shown[c].last <= hour
                    /\ shown[c].next # None => shown[c].next > hour
  BY DEF R!CardsAddUp
<1>1. PICK shown : shown = [c \in Customers |-> R!customerCard(c, hour)]
  OBVIOUS
<1>2. PICK kept : kept = R!Having(R!Every, {"COMPLETED"})
  OBVIOUS
<1>3. R!MapThenSumSet(LAMBDA c : shown[c].spent, Customers) = R!Revenue(kept)
  <2> DEFINE f == [c \in Customers |-> shown[c].spent]
             Sums(g) == g = [s \in SUBSET Customers |->
                              IF s = {} THEN 0
                              ELSE shown[C!Picked(s)].spent + g[s \ {C!Picked(s)}]]
  <2>1. R!MapThenSumSet(LAMBDA c : shown[c].spent, Customers)
          = (CHOOSE g : Sums(g))[Customers]
    BY DEF R!MapThenSumSet, R!MapThenFoldSet, C!Picked
  <2>2. ASSUME NEW g
        PROVE  Sums(g) <=> C!Adds(f, Customers, g)
    <3>1. ASSUME NEW s \in SUBSET Customers, s # {}
          PROVE  f[C!Picked(s)] = shown[C!Picked(s)].spent
      <4>1. C!Picked(s) \in Customers
        BY <3>1, C!PickedIsIn
      <4> QED
        BY <4>1
    <3> HIDE DEF f
    <3> QED
      BY <3>1 DEF C!Adds
  <2>3. PICK whose : whose = [a \in kept |-> appts[a].customer]
    OBVIOUS
  <2>4. PICK part : part = [c \in Customers |-> {a \in kept : appts[a].customer = c}]
    OBVIOUS
  <2>5. ASSUME NEW c \in Customers
        PROVE  f[c] = R!Revenue(part[c])
    <3>1. R!customerCard(c, hour).spent = R!Revenue(R!Having(R!Of(c, R!Every), {"COMPLETED"}))
      BY DEF R!customerCard
    <3>2. R!Having(R!Of(c, R!Every), {"COMPLETED"}) = part[c]
      BY <1>2, <2>4 DEF R!Having, R!Of
    <3> QED
      BY <1>1, <3>1, <3>2
  <2> HIDE DEF f, Sums
  <2>6. IsFiniteSet(Customers) /\ C!IsFiniteSet(Customers)
    BY FiniteForReports, FiniteForContacts DEF R!Assumptions
  <2>7. PICK g : Sums(g) /\ (CHOOSE h : Sums(h))[Customers] = g[Customers]
    BY <2>2, <2>6, C!TotalExists
  <2>8. g[Customers] = C!Total(f, Customers)
    BY <2>2, <2>6, <2>7, C!SumIsTotal
  <2>9. kept \in SUBSET R!Every
    BY <1>2 DEF R!Having
  <2>10. IsFiniteSet(kept) /\ \A a \in kept : appts[a].price \in Int
    BY <2>9, RowHolds, FS_Subset
  <2>11. \A a \in kept : whose[a] \in Customers
    BY <2>3, <2>9, RowHolds
  <2>12. \A c \in Customers : part[c] = {a \in kept : whose[a] = c}
    BY <2>3, <2>4
  <2>13. C!Total(f, Customers) = R!Revenue(kept)
    <3>1. \A c \in Customers : f[c] = R!Revenue(part[c])
      BY <2>5
    <3>2. IsFiniteSet(Customers)
      BY <2>6
    <3> QED
      BY <2>10, <2>11, <2>12, <3>1, <3>2, RevenueAddsUp
  <2> QED
    BY <2>1, <2>7, <2>8, <2>13
<1>4. ASSUME NEW c \in Customers
      PROVE  /\ shown[c].last # None => shown[c].last <= hour
             /\ shown[c].next # None => shown[c].next > hour
  <2>10. PICK all, active, upcoming :
           /\ all = R!Of(c, R!Every)
           /\ active = R!Having(all, R!ActiveStatuses)
           /\ upcoming = R!Having(all, {"PENDING", "CONFIRMED"})
    OBVIOUS
  <2>1. active \in SUBSET R!Every /\ upcoming \in SUBSET R!Every
    BY <2>10 DEF R!Of, R!Having
  <2>2. PICK past : past = {appts[a].startsAt : a \in active} \cap {t \in Times : t <= hour}
    OBVIOUS
  <2>3. PICK coming : coming = {appts[a].startsAt : a \in upcoming} \cap {t \in Times : t > hour}
    OBVIOUS
  <2>4. /\ shown[c].last = IF past = {} THEN None ELSE R!Max(past)
        /\ shown[c].next = IF coming = {} THEN None ELSE R!Min(coming)
    <3>1. /\ R!customerCard(c, hour).last = R!lastVisit(c, hour)
          /\ R!customerCard(c, hour).next = IF coming = {} THEN None ELSE R!Min(coming)
      BY <2>10, <2>3, Zenon DEF R!customerCard
    <3>2. R!lastVisit(c, hour) = IF past = {} THEN None ELSE R!Max(past)
      BY <2>10, <2>2, Zenon DEF R!lastVisit
    <3> QED
      BY <1>1, <3>1, <3>2
  <2>5. IsFiniteSet(past) /\ past \subseteq Int /\ IsFiniteSet(coming) /\ coming \subseteq Int
    BY <2>1, <2>2, <2>3, BeginningsAreFew
  <2>6. past # {} => R!Max(past) \in past
    BY <2>5, Extremes
  <2>7. coming # {} => R!Min(coming) \in coming
    BY <2>5, Extremes
  <2>8. \A t \in past : t <= hour
    BY <2>2
  <2>9. \A t \in coming : t > hour
    BY <2>3
  <2> QED
    BY <2>4, <2>6, <2>7, <2>8, <2>9
<1> QED
  BY <1>1, <1>2, <1>3, <1>4

LEMMA CardsOpenHolds ==
  ASSUME R!Assumptions, R!TypeOK
  PROVE  R!CardsOpen
<1> SUFFICES ASSUME NEW u \in R!User
             PROVE  LET list == R!customerList(u, R!Max(Times))
                        found == R!search(u, Customers, {})
                    IN /\ \A c \in DOMAIN list :
                            R!Opens(u, c) \/ (R!seesWholeAgenda(u) /\ R!Of(c, R!Every) = {})
                       /\ found.customers \subseteq DOMAIN list
                       /\ \A a \in found.appointments :
                            LET c == appts[a].customer IN
                            R!Opens(u, c) /\ a \in R!customerVisits(u, c)
  BY DEF R!CardsOpen
<1>1. PICK listed : listed = DOMAIN R!customerList(u, R!Max(Times))
  OBVIOUS
<1>2. listed = {d \in Customers : R!canSee(u) \/ R!seesWholeAgenda(u) \/ R!Of(d, R!Seen(u)) # {}}
  BY <1>1 DEF R!customerList
<1>3. R!seesWholeAgenda(u) => R!Seen(u) = R!Every
  BY RowHolds DEF R!Seen, R!professionalScope, R!Every
<1>4. PICK theirs, visible :
        /\ theirs = R!search(u, Customers, {}).customers
        /\ visible = R!search(u, Customers, {}).appointments
  OBVIOUS
<1>5. /\ theirs = {c \in Customers : R!seesWholeAgenda(u) \/ R!Of(c, R!Seen(u)) # {}}
      /\ visible = {a \in R!Seen(u) : appts[a].customer \in Customers}
  BY <1>4 DEF R!search
<1>6. ASSUME NEW c \in listed
      PROVE  R!Opens(u, c) \/ (R!seesWholeAgenda(u) /\ R!Of(c, R!Every) = {})
  BY <1>2, <1>3 DEF R!Opens
<1>7. theirs \subseteq listed
  BY <1>2, <1>5
<1>8. ASSUME NEW a \in visible
      PROVE  R!Opens(u, appts[a].customer) /\ a \in R!customerVisits(u, appts[a].customer)
  <2>1. a \in R!Of(appts[a].customer, R!Seen(u))
    BY <1>5 DEF R!Of
  <2> QED
    BY <2>1 DEF R!Opens, R!customerVisits
<1> QED
  BY <1>1, <1>4, <1>6, <1>7, <1>8, Zenon

\* Every page tells the same story of the same appointments.
LEMMA OneStoryHolds ==
  ASSUME R!Assumptions, R!TypeOK
  PROVE  R!OneStory
BY DaysAddUpHolds, DashboardsAgreeHolds, CardsAddUpHolds, CardsOpenHolds DEF R!OneStory

-----------------------------------------------------------------------------
(* A step of the business is a step of one part and leaves the others      *)
(* where they are.                                                         *)

LEMMA AccountsKeepTo == Spec => S!Spec
<1>1. Init => S!Init
  BY DEF Init
<1>2. [Next]_vars => [S!Next]_(S!vars)
  BY DEF Next, vars, accounts, S!vars, InAccounts, InSubscription, InRegistration,
         InContacts, InNotices, InSettings, InMenu, InHours, InReports, InKeys
<1> QED
  BY <1>1, <1>2, PTL DEF Spec, S!Spec

LEMMA SubscriptionKeepsTo == Spec => P!Spec
<1>1. Init => P!Init
  BY DEF Init
<1>2. [Next]_vars => [P!Next]_(P!vars)
  BY DEF Next, vars, subscription, P!vars, InAccounts, InSubscription, InRegistration,
         InContacts, InNotices, InSettings, InMenu, InHours, InReports, InKeys
<1> QED
  BY <1>1, <1>2, PTL DEF Spec, P!Spec

LEMMA RegistrationKeepsTo == Spec => J!Spec
<1>1. Init => J!Init
  BY DEF Init
<1>2. [Next]_vars => [J!Next]_(J!vars)
  BY DEF Next, vars, registration, J!vars, InAccounts, InSubscription, InRegistration,
         InContacts, InNotices, InSettings, InMenu, InHours, InReports, InKeys
<1> QED
  BY <1>1, <1>2, PTL DEF Spec, J!Spec

LEMMA ContactsKeepTo == Spec => C!Spec
<1>1. Init => C!Init
  BY DEF Init
<1>2. [Next]_vars => [C!Next]_(C!vars)
  BY DEF Next, vars, contacts, C!vars, InAccounts, InSubscription, InRegistration,
         InContacts, InNotices, InSettings, InMenu, InHours, InReports, InKeys
<1> QED
  BY <1>1, <1>2, PTL DEF Spec, C!Spec

LEMMA NoticesKeepTo == Spec => N!Spec
<1>1. Init => N!Init
  BY DEF Init
<1>2. [Next]_vars => [N!Next]_(N!vars)
  BY DEF Next, vars, telling, N!vars, InAccounts, InSubscription, InRegistration,
         InContacts, InNotices, InSettings, InMenu, InHours, InReports, InKeys
<1> QED
  BY <1>1, <1>2, PTL DEF Spec, N!Spec

LEMMA SettingsKeepTo == Spec => G!Spec
<1>1. Init => G!Init
  BY DEF Init
<1>2. [Next]_vars => [G!Next]_(G!vars)
  BY DEF Next, vars, settings, G!vars, InAccounts, InSubscription, InRegistration,
         InContacts, InNotices, InSettings, InMenu, InHours, InReports, InKeys
<1> QED
  BY <1>1, <1>2, PTL DEF Spec, G!Spec

LEMMA MenuKeepsTo == Spec => M!Spec
<1>1. Init => M!Init
  BY DEF Init
<1>2. [Next]_vars => [M!Next]_(M!vars)
  BY DEF Next, vars, menu, M!vars, InAccounts, InSubscription, InRegistration,
         InContacts, InNotices, InSettings, InMenu, InHours, InReports, InKeys
<1> QED
  BY <1>1, <1>2, PTL DEF Spec, M!Spec

LEMMA HoursKeepTo == Spec => H!Spec
<1>1. Init => H!Init
  BY DEF Init
<1>2. [Next]_vars => [H!Next]_(H!vars)
  BY DEF Next, vars, hours, H!vars, InAccounts, InSubscription, InRegistration,
         InContacts, InNotices, InSettings, InMenu, InHours, InReports, InKeys
<1> QED
  BY <1>1, <1>2, PTL DEF Spec, H!Spec

LEMMA ReportsKeepTo == Spec => R!Spec
<1>1. Init => R!Init
  BY DEF Init
<1>2. [Next]_vars => [R!Next]_(R!vars)
  BY DEF Next, vars, R!vars, InAccounts, InSubscription, InRegistration,
         InContacts, InNotices, InSettings, InMenu, InHours, InReports, InKeys
<1> QED
  BY <1>1, <1>2, PTL DEF Spec, R!Spec

LEMMA KeysKeepTo == Spec => K!Spec
<1>1. Init => K!Init
  BY DEF Init
<1>2. [Next]_vars => [K!Next]_(K!vars)
  BY DEF Next, vars, keys, K!vars, InAccounts, InSubscription, InRegistration,
         InContacts, InNotices, InSettings, InMenu, InHours, InReports, InKeys
<1> QED
  BY <1>1, <1>2, PTL DEF Spec, K!Spec

-----------------------------------------------------------------------------
(* What the parts promise, of the business.                                *)

\* Of the sessions that descend from a login, one at most goes on, in the
\* business as a whole.
THEOREM OneSessionGoesOn == Spec => []OneLivePerFamily
<1>1. S!Spec => []S!OneLivePerFamily
  BY Assumed, S!OneSessionGoesOn DEF Assumptions
<1> QED
  BY <1>1, AccountsKeepTo, PTL DEF OneLivePerFamily

\* A link to set a password closes those that were there when it was asked for.
THEOREM EarlierLinksClosed == Spec => []NewestLinkOnly
<1>1. S!Spec => []S!NewestLinkOnly
  BY Assumed, S!EarlierLinksClosed DEF Assumptions
<1> QED
  BY <1>1, AccountsKeepTo, PTL DEF NewestLinkOnly

\* No session outlives the password it was opened with, but for those that were
\* being opened while the reset closed the rest, or if the reset was cut off.
THEOREM OldPasswordLetsNobodyIn == Spec => []ResetClosesSessions
<1>1. S!Spec => []S!ResetClosesSessions
  BY Assumed, S!OldPasswordLetsNobodyIn DEF Assumptions
<1> QED
  BY <1>1, AccountsKeepTo, PTL DEF ResetClosesSessions

\* A removed professional has no account that works, unless it was invited
\* while the removal was under way, or invited twice at once: the account that
\* lost the card to the other works on.
THEOREM RemovedStaysOut == Spec => []RemovedIsOut
<1>1. S!Spec => []S!RemovedIsOut
  BY Assumed, S!RemovedStaysOut DEF Assumptions
<1> QED
  BY <1>1, AccountsKeepTo, PTL DEF RemovedIsOut

\* A payment of the subscription moves the end of the period at most once,
\* however often it is verified, as long as no call is about to record a
\* payment that another one has found open.
THEOREM OnlyOneCounts == Spec /\ []P!PaymentsApart => []CountsOnce
<1>1. P!Spec /\ []P!PaymentsApart => []P!CountsOnce
  BY Assumed, P!OnlyOneCounts DEF Assumptions
<1> QED
  BY <1>1, SubscriptionKeepsTo, PTL DEF CountsOnce

\* The payment that is recorded adds its whole period, as long as no two calls
\* have read where the paid time ends.
THEOREM NoPaidTimeLost == Spec /\ []P!EndsApart => PaidTimeKept
<1>1. P!Spec /\ []P!EndsApart => P!PaidTimeKept
  BY Assumed, P!NoPaidTimeLost DEF Assumptions
<1> QED
  BY <1>1, SubscriptionKeepsTo, PTL DEF PaidTimeKept

\* What the guard answers from its cache was true less than CacheLife ago.
THEOREM GuardTellsTheTruth == Spec => []AnswerWasTrue
<1>1. P!Spec => []P!AnswerWasTrue
  BY Assumed, P!GuardTellsTheTruth DEF Assumptions
<1> QED
  BY <1>1, SubscriptionKeepsTo, PTL DEF AnswerWasTrue

\* No overlap and no interruption of registrations leaves half a business.
THEOREM BusinessesAreWhole == Spec => []Whole
<1>1. J!Spec => []J!Whole
  BY Assumed, J!BusinessesAreWhole DEF Assumptions
<1> QED
  BY <1>1, RegistrationKeepsTo, PTL DEF Whole

\* Two registrations never wait for keys the other one holds.
THEOREM NobodyWaitsInACircle == Spec => []NoCircle
<1>1. J!Spec => []J!NoCircle
  BY Assumed, J!NobodyWaitsInACircle DEF Assumptions
<1> QED
  BY <1>1, RegistrationKeepsTo, PTL DEF NoCircle

\* A booking that nobody overtook leaves the address of its customer alone.
THEOREM NoAddressIsLost == Spec => AddressKept
<1>1. C!Spec => C!AddressKept
  BY Assumed, C!NoAddressIsLost DEF Assumptions
<1> QED
  BY <1>1, ContactsKeepTo, PTL DEF AddressKept

\* The panel never announces more messages than there are unread.
THEOREM CountersNeverOverstate == Spec => []CounterNeverOverstates
<1>1. C!Spec => []C!CounterNeverOverstates
  BY Assumed, C!CountersNeverOverstate DEF Assumptions
<1> QED
  BY <1>1, ContactsKeepTo, PTL DEF CounterNeverOverstates

\* What staff wrote is read only if the customer was shown it, or could not have
\* been.
THEOREM ReadOnlyWhatWasShown == Spec => []ReadWasShown
<1>1. C!Spec => []C!ReadWasShown
  BY Assumed, C!ReadOnlyWhatWasShown DEF Assumptions
<1> QED
  BY <1>1, ContactsKeepTo, PTL DEF ReadWasShown

\* A reminder goes out once, whatever runs overlap and however often the
\* process restarts.
THEOREM NobodyIsRemindedTwice == Spec => []RemindedOnce
<1>1. N!Spec => []N!RemindedOnce
  BY Assumed, N!NobodyIsRemindedTwice DEF Assumptions
<1> QED
  BY <1>1, NoticesKeepTo, PTL DEF RemindedOnce

\* A batch that holds all the appointments skips none of them, if the run of
\* its moment began and was not cut off.
THEOREM NobodyIsSkipped == Spec => []NoneSkipped
<1>1. N!Spec => []N!NoneSkipped
  BY Assumed, N!NobodyIsSkipped DEF Assumptions
<1> QED
  BY <1>1, NoticesKeepTo, PTL DEF NoneSkipped

\* All who have to know of a change are told, and nobody else.
THEOREM NobodyIsForgotten == Spec => []NobodyForgotten
<1>1. N!Spec => []N!NobodyForgotten
  BY Assumed, N!NobodyIsForgotten DEF Assumptions
<1> QED
  BY <1>1, NoticesKeepTo, PTL DEF NobodyForgotten

\* A removed service leaves its name to others, and no two services of the
\* business share a slug, whatever requests look for one at once.
THEOREM SlugsAreFreed == Spec => []SlugsFreed
<1>1. M!Assumptions
  BY Assumed DEF Assumptions
<1>2. MenuInv => M!SlugsFreed
  BY <1>1, SlugsFreedHolds
<1>3. M!Spec => []MenuInv
  BY <1>1, MenuInvariance
<1> QED
  BY <1>2, <1>3, MenuKeepsTo, PTL DEF SlugsFreed

\* The menu, put together from two queries, shows once what was public and
\* untouched in between, and finds it under its slug.
THEOREM MenuShowsWhatIsPublic == Spec => []MenuAgrees
<1>1. M!Assumptions
  BY Assumed DEF Assumptions
<1>2. MenuInv => M!MenuAgrees
  BY <1>1, MenuAgreesHolds
<1>3. M!Spec => []MenuInv
  BY <1>1, MenuInvariance
<1> QED
  BY <1>2, <1>3, MenuKeepsTo, PTL DEF MenuAgrees

\* The hours of the list are those that are accepted, of all that wall clocks
\* show, for every change of the clock, grid, buffer and length.
THEOREM ListedIsAccepted == Spec => []ListIsExact
<1>1. H!Assumptions
  BY Assumed DEF Assumptions
<1>2. H!TypeOK => ListIsExact
  BY <1>1, ListIsExactHolds DEF ListIsExact
<1>3. H!Spec => []H!TypeOK
  BY <1>1, HoursInvariance
<1> QED
  BY <1>2, <1>3, HoursKeepTo, PTL

\* What is offered lies in hours that are worked and open, from its first minute
\* to its last, and hours without a break are offered as one.
THEOREM WorkedFromEndToEnd == Spec => []WholeServiceWorked
<1>1. H!Assumptions
  BY Assumed DEF Assumptions
<1>2. H!TypeOK => WholeServiceWorked
  BY <1>1, WholeServiceWorkedHolds DEF WholeServiceWorked
<1>3. H!Spec => []H!TypeOK
  BY <1>1, HoursInvariance
<1> QED
  BY <1>2, <1>3, HoursKeepTo, PTL

\* A day has the same hours in the month's calendar and on its own page, in a
\* zone that never put its clocks forward by more than a day.
THEOREM SameHoursOnEveryPage ==
  ASSUME After - Before <= DayMinutes * Minute
  PROVE  Spec => []DaysAgree
<1>1. H!Assumptions
  BY Assumed DEF Assumptions
<1>2. H!TypeOK => DaysAgree
  BY <1>1, DaysAgreeHolds DEF DaysAgree
<1>3. H!Spec => []H!TypeOK
  BY <1>1, HoursInvariance
<1> QED
  BY <1>2, <1>3, HoursKeepTo, PTL

\* The reports, the dashboards, the customers' cards and the search agree with
\* each other, for every table of appointments and every change of the clock;
\* and so do panel and public page on whether paying online is possible.
THEOREM PagesAgree == Spec => []OneStory
<1>1. R!Assumptions /\ K!Assumptions
  BY Assumed DEF Assumptions
<1>2. R!TypeOK /\ K!PanelAgrees => OneStory
  BY <1>1, OneStoryHolds DEF OneStory
<1>3. K!Spec => []K!PanelAgrees
  BY <1>1, PanelIsRight
<1> QED
  BY <1>2, <1>3, ReportsInvariance, ReportsKeepTo, KeysKeepTo, PTL

\* The events of a payment that was charged after the last save of the keys are
\* accepted, unless it was charged with an environment without a secret for
\* events.
THEOREM EventsAreAccepted == Spec => []EventsAccepted
<1>1. K!Spec => []K!EventsAccepted
  BY Assumed, NoEventLost DEF Assumptions
<1> QED
  BY <1>1, KeysKeepTo, PTL DEF EventsAccepted

\* A save of the settings or of the keys changes what was edited and nothing
\* else, unless it missed another.
THEOREM OnlyTheEditedChanges == Spec => FieldsKept
<1>1. G!Spec => G!FieldsKept
  BY Assumed, NothingElseChanges DEF Assumptions
<1>2. K!Spec => K!KeysKept
  BY Assumed, UntypedKeysStay DEF Assumptions
<1> QED
  BY <1>1, <1>2, SettingsKeepTo, KeysKeepTo, PTL DEF FieldsKept

\* Every table of the business keeps its shape, and the requests that are in
\* flight know what they write about.
THEOREM TypeCorrect == Spec => []TypeOK
<1>1. S!Spec => []S!TypeOK
  BY Assumed, S!TypeCorrect DEF Assumptions
<1>2. P!Spec => []P!TypeOK
  BY Assumed, P!TypeCorrect DEF Assumptions
<1>3. J!Spec => []J!TypeOK
  BY Assumed, J!TypeCorrect DEF Assumptions
<1>4. C!Spec => []C!TypeOK
  BY Assumed, C!TypeCorrect DEF Assumptions
<1>5. N!Spec => []N!TypeOK
  BY Assumed, N!TypeCorrect DEF Assumptions
<1>6. G!Spec => []G!TypeOK
  BY Assumed, SettingsTyped DEF Assumptions
<1>7. M!Spec => []M!TypeOK
  <2>1. MenuInv => M!TypeOK
    BY DEF MenuInv
  <2>2. M!Spec => []MenuInv
    BY Assumed, MenuInvariance DEF Assumptions
  <2> QED
    BY <2>1, <2>2, PTL
<1>8. H!Spec => []H!TypeOK
  BY Assumed, HoursInvariance DEF Assumptions
<1>9. K!Spec => []K!TypeOK
  BY Assumed, KeysTyped DEF Assumptions
<1>10. [](S!TypeOK /\ P!TypeOK /\ J!TypeOK /\ C!TypeOK /\ N!TypeOK
          /\ G!TypeOK /\ M!TypeOK /\ H!TypeOK /\ R!TypeOK /\ K!TypeOK) => []TypeOK
  <2>1. S!TypeOK /\ P!TypeOK /\ J!TypeOK /\ C!TypeOK /\ N!TypeOK
        /\ G!TypeOK /\ M!TypeOK /\ H!TypeOK /\ R!TypeOK /\ K!TypeOK => TypeOK
    BY DEF TypeOK
  <2> QED
    BY <2>1, PTL
<1> QED
  BY <1>1, <1>2, <1>3, <1>4, <1>5, <1>6, <1>7, <1>8, <1>9, <1>10, ReportsInvariance,
     AccountsKeepTo, SubscriptionKeepsTo, RegistrationKeepsTo, ContactsKeepTo,
     NoticesKeepTo, SettingsKeepTo, MenuKeepsTo, HoursKeepTo, ReportsKeepTo,
     KeysKeepTo, PTL
=============================================================================
