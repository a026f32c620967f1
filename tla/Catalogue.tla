------------------------------ MODULE Catalogue ------------------------------
(***************************************************************************)
(* The menu of a business: services.service.ts and categories.service.ts   *)
(* with uniqueSlug of common/utils/slug.ts, which professionals use alike. *)
(*                                                                         *)
(* A slug is a sequence of numbers: the word of a name, then the numbers   *)
(* appended to it.  A removed service carries 0 and its own id at the end. *)
(* A request r looks for a free slug, one query at a time, and then writes *)
(* (steps look and write); one that reads the menu reads it in two         *)
(* queries (step menu).                                                    *)
(***************************************************************************)
EXTENDS Naturals, SequencesExt, Tables

CONSTANTS
  Requests,    \* handlers that can run at the same time
  Items,       \* ids of services, numbers
  Categories,  \* rows of categories
  Names,       \* what services are called, as slugify turns it into a slug
  MaxTries,    \* bound on the numbers tried
  Clients      \* which of the handlers are used

VARIABLES
  items,       \* the services
  categories,  \* the categories: on, off or deleted
  req          \* the requests in flight

vars == <<items, categories, req>>

Item == [name : Names, slug : Seq(Nat), category : Categories \cup {None},
         active : BOOLEAN, deleted : BOOLEAN, late : BOOLEAN]

\* What the parameters must be.
Assumptions ==
  /\ Items \subseteq Nat \ {0} /\ MaxTries \in Nat
  /\ \A name \in Names : name \in Seq(Nat \ {0}) /\ name # <<>>
  /\ None \notin Categories \cup Items /\ None \notin Item
  /\ IsFiniteSet(Items)

Idle == [op |-> "none", step |-> "idle", item |-> None, name |-> <<>>,
         slug |-> <<>>, tries |-> 1, category |-> None, read |-> {},
         shown |-> <<>>, same |-> {}]

IsIdle(r) == req[r] = Idle
Begin(r, client, fields) ==
  /\ client \in Clients /\ IsIdle(r)
  /\ req' = [req EXCEPT ![r] = fields]
Listed(i) == items[i] # None /\ ~ items[i].deleted

Init ==
  /\ items = [i \in Items |-> None]
  /\ categories \in [Categories -> {"on", "off"}]
  /\ req = [r \in Requests |-> Idle]

-----------------------------------------------------------------------------
(* Naming and writing services.                                            *)

\* The n-th candidate of uniqueSlug.
Candidate(name, n) == IF n = 1 THEN name ELSE Append(name, n)

\* slugFor asks for any row of the business but the one renamed, removed ones
\* included.
SlugTaken(slug, item) ==
  \E j \in Items \ {item} : items[j] # None /\ items[j].slug = slug

\* An answer that changed service i: the menus being read are told.
Written(r, i) ==
  req' = [s \in Requests |->
    IF s = r THEN Idle ELSE [req[s] EXCEPT !.same = @ \ {i}]]

ReadForCreate(r) ==
  /\ \E name \in Names, c \in Categories \cup {None} :
       /\ c \in Categories => categories[c] # "deleted"
       /\ Begin(r, "write", [Idle EXCEPT !.op = "create", !.step = "look",
                               !.name = name, !.category = c])
  /\ UNCHANGED <<items, categories>>

\* What an update says of the category: "kept" when it says nothing.
GivenCategories ==
  {"kept"} \cup IF "arrange" \in Clients THEN Categories \cup {None} ELSE {}

\* update looks for a slug only when the name changes.
ReadForUpdate(r) ==
  /\ \E i \in Items, name \in Names \cup {<<>>}, c \in GivenCategories :
       /\ Listed(i)
       /\ c \in Categories => categories[c] # "deleted"
       /\ Begin(r, "write",
                [Idle EXCEPT !.op = "update",
                   !.step = IF name \in {<<>>, items[i].name} THEN "write" ELSE "look",
                   !.item = i, !.name = name, !.category = c])
  /\ UNCHANGED <<items, categories>>

LookUp(r) ==
  LET q == req[r]
      slug == Candidate(q.name, q.tries)
  IN /\ q.step = "look" /\ q.tries <= MaxTries
     /\ req' = [req EXCEPT ![r] =
          IF SlugTaken(slug, q.item) THEN [q EXCEPT !.tries = @ + 1]
          ELSE [q EXCEPT !.step = "write", !.slug = slug, !.tries = 1]]
     /\ UNCHANGED <<items, categories>>

\* What the unique index, if a slug is written, and the foreign key of the
\* category let in.
Admits(q) ==
  /\ q.slug # <<>> => ~ SlugTaken(q.slug, q.item)
  /\ q.category \in Categories => categories[q.category] # "deleted"

CommitCreate(r) ==
  LET q == req[r] IN
  /\ q.op = "create" /\ q.step = "write"
  /\ \/ /\ Admits(q)
        /\ \E i \in NewId(items) :
             /\ items' = [items EXCEPT ![i] =
                  [name |-> q.name, slug |-> q.slug, category |-> q.category,
                   active |-> TRUE, deleted |-> FALSE, late |-> FALSE]]
             /\ Written(r, i)
     \/ /\ ~ Admits(q)
        /\ req' = [req EXCEPT ![r] = Idle]
        /\ UNCHANGED items
  /\ UNCHANGED categories

\* The row an update leaves: late, if it was removed after it was read.
Updated(q, old, active) ==
  [old EXCEPT !.name = IF q.name = <<>> THEN old.name ELSE q.name,
              !.active = active,
              !.category = IF q.category = "kept" THEN old.category ELSE q.category,
              !.slug = IF q.slug = <<>> THEN old.slug ELSE q.slug,
              !.late = old.late \/ old.deleted]

\* The row is written by its id alone.
CommitUpdate(r) ==
  LET q == req[r] IN
  /\ q.op = "update" /\ q.step = "write"
  /\ \/ /\ Admits(q)
        /\ \E active \in IF "arrange" \in Clients THEN BOOLEAN ELSE {items[q.item].active} :
             items' = [items EXCEPT ![q.item] = Updated(q, items[q.item], active)]
        /\ Written(r, q.item)
     \/ /\ ~ Admits(q)
        /\ req' = [req EXCEPT ![r] = Idle]
        /\ UNCHANGED items
  /\ UNCHANGED categories

ReadForRemove(r) ==
  /\ \E i \in Items :
       /\ Listed(i)
       /\ Begin(r, "write", [Idle EXCEPT !.op = "remove", !.step = "write",
                               !.item = i, !.slug = items[i].slug])
  /\ UNCHANGED <<items, categories>>

\* Mutant of Marked: the slug is kept.
MarkedNot(slug, i) == slug

Marked(slug, i) == slug \o <<0, i>>

CommitRemove(r) ==
  LET q == req[r] IN
  /\ q.op = "remove" /\ q.step = "write"
  /\ items' = [items EXCEPT ![q.item] =
       [@ EXCEPT !.deleted = TRUE, !.active = FALSE, !.slug = Marked(q.slug, q.item)]]
  /\ Written(r, q.item)
  /\ UNCHANGED categories

-----------------------------------------------------------------------------
(* Categories, and the menu the public page shows.                         *)

\* Mutant of ChangeCategory: the services keep the category that was deleted.
ChangeCategoryAlone(c, to) ==
  /\ "write" \in Clients
  /\ categories[c] # "deleted" /\ to # categories[c]
  /\ categories' = [categories EXCEPT ![c] = to]
  /\ UNCHANGED <<items, req>>

\* update of a category turns it on or off; remove leaves its services without.
ChangeCategory(c, to) ==
  /\ "write" \in Clients
  /\ categories[c] # "deleted" /\ to # categories[c]
  /\ categories' = [categories EXCEPT ![c] = to]
  /\ items' = [i \in Items |->
       IF to = "deleted" /\ items[i] # None /\ items[i].category = c
         THEN [items[i] EXCEPT !.category = None] ELSE items[i]]
  /\ req' = [r \in Requests |-> [req[r] EXCEPT !.same =
       {i \in @ : items[i] = None \/ items[i].category # c}]]

Loose == {i \in Items : Listed(i) /\ items[i].active /\ items[i].category = None}

\* Mutant of Grouped: a category that is off is listed all the same.
GroupedAll ==
  {i \in Items : Listed(i) /\ items[i].active /\ items[i].category # None}

Grouped ==
  {i \in Items :
     /\ Listed(i) /\ items[i].active /\ items[i].category # None
     /\ categories[items[i].category] = "on"}

\* publicWhere: what the flat list and the page of one service admit.
Public ==
  {i \in Items :
     /\ Listed(i) /\ items[i].active
     /\ items[i].category = None \/ categories[items[i].category] = "on"}

\* publicList of a category, and publicDetail of a slug.
publicList(c) == {i \in Public : items[i].category = c}
publicDetail(slug) == {i \in Public : items[i].slug = slug}

\* publicCatalog sends two queries at once; either may be answered first.
ReadMenu(r) ==
  /\ \/ /\ Begin(r, "menu", [Idle EXCEPT !.op = "menu", !.step = "menu", !.read = {"grouped"},
                  !.shown = SetToSeq(Grouped), !.same = Items])
     \/ /\ Begin(r, "menu", [Idle EXCEPT !.op = "menu", !.step = "menu", !.read = {"loose"},
                  !.shown = SetToSeq(Loose), !.same = Items])
  /\ UNCHANGED <<items, categories>>

ReadRest(r) ==
  LET q == req[r]
      rest == IF q.read = {"loose"} THEN Grouped ELSE Loose
  IN /\ q.step = "menu" /\ Cardinality(q.read) = 1
     /\ req' = [req EXCEPT ![r] =
          [q EXCEPT !.read = {"grouped", "loose"}, !.shown = @ \o SetToSeq(rest)]]
     /\ UNCHANGED <<items, categories>>

AnswerMenu(r) ==
  /\ req[r].step = "menu" /\ Cardinality(req[r].read) = 2
  /\ req' = [req EXCEPT ![r] = Idle]
  /\ UNCHANGED <<items, categories>>

Next ==
  \/ \E r \in Requests :
       \/ ReadForCreate(r) \/ ReadForUpdate(r) \/ LookUp(r)
       \/ CommitCreate(r) \/ CommitUpdate(r) \/ ReadForRemove(r) \/ CommitRemove(r)
       \/ ReadMenu(r) \/ ReadRest(r) \/ AnswerMenu(r)
  \/ \E c \in Categories, to \in {"on", "off", "deleted"} : ChangeCategory(c, to)

Spec == Init /\ [][Next]_vars
-----------------------------------------------------------------------------
(* Properties.                                                             *)

\* Tables and requests have their shape, and a service is of a category that
\* exists.
TypeOK ==
  /\ items \in [Items -> Item \cup {None}]
  /\ categories \in [Categories -> {"on", "off", "deleted"}]
  /\ \A r \in Requests :
       /\ req[r].item \in Items \cup {None} /\ req[r].tries \in Nat
       /\ req[r].shown \in Seq(Items) /\ req[r].same \subseteq Items
  /\ \A i \in Items :
       items[i] # None /\ items[i].category # None => categories[items[i].category] # "deleted"

\* A removed service leaves its name to others, and no two services share
\* one; only an update that overlapped the removal gives it a name again.
SlugsFreed ==
  \A i, j \in Items :
    items[i] # None /\ items[j] # None =>
      /\ items[i].deleted /\ ~ items[i].late => Contains(items[i].slug, 0)
      /\ items[i].slug = items[j].slug => i = j

\* The menu, put together from two queries, shows once each service that was
\* public and untouched in between, and of the untouched none that was not; and
\* each of them is found under its slug and in the list of its category.
MenuAgrees ==
  \A r \in Requests : \A i \in req[r].same :
    Cardinality(req[r].read) = 2 =>
      Cardinality({n \in DOMAIN req[r].shown : req[r].shown[n] = i})
        = IF i \in publicList(items[i].category) /\ publicDetail(items[i].slug) = {i}
            THEN 1 ELSE 0
=============================================================================
