---------------------------- MODULE HolidayItems ----------------------------
(***************************************************************************)
(* The items of a user (App/modules/items): documents in MongoDB that are  *)
(* never removed, titles that a query keeps apart (no unique index does),  *)
(* and two read-through caches, one of list pages and one of single items. *)
(* A worker is one request; each of its steps is one call to MongoDB or    *)
(* Redis.  The title stands for the whole content of an item.              *)
(***************************************************************************)
EXTENDS Naturals, FiniteSets

CONSTANTS
  Workers, Users, Titles,
  Items,
  Times,      \* the values of created_at that are told apart
  Limit,      \* page size; Pages: the page numbers that clients ask for
  Pages,
  Authors,    \* users who create items; the others have none
  Faults,     \* what the environment may do
  None,       \* no item, no owner, no title in the request
  Null,       \* an explicit null in a PATCH, and the field it leaves behind
  NoKey       \* no cache entry

ASSUME ItemsAssumption  == IsFiniteSet(Items)
ASSUME TimesAssumption  == Times \subseteq Nat
ASSUME AuthorsAssumption == Authors \subseteq Users
ASSUME PagesAssumption  == Limit \in Nat \ {0} /\ Pages \subseteq Nat \ {0}
ASSUME ValuesAssumption == None \notin Users \cup Items \cup Titles \cup {Null}
                           /\ Null \notin Titles /\ NoKey \notin Titles \cup {Null}

VARIABLES
  status,     \* document of holiday_items: "none", "active" or "deleted"
  owner,
  title, created,   \* of an active item; no query reads those of a deleted one
  list,       \* cached pages of a user
  entity,     \* cached items of a user
  raced, disturbed,   \* history: see Starts, Undeleted and Die
  pc, req     \* of a worker: its next call and its locals

docs    == <<status, owner, title, created>>
caches  == <<list, entity>>
history == <<raced, disturbed>>
vars == <<docs, caches, history, pc, req>>

Reading == {"find", "count", "setList", "findItem", "setEntity"}
Writing == {"insert", "checkTitle", "update", "softDelete", "delLists", "delEntity"}
Dropping == {"delLists", "delEntity"}   \* an item was changed, entries are left
Labels  == {"idle"} \cup Reading \cup Writing

Shown == Items \X (Titles \cup {Null})   \* items as a response shows them

Request == [user  : Users \cup {None},
            item  : Items \cup {None},
            title : Titles \cup {Null, None},   \* None once it is stored, too
            page  : Pages \cup {None},
            shown : SUBSET Shown,     \* what the database answered so far
            total : Nat]

Locals(u, i, t, p) ==
  [user |-> u, item |-> i, title |-> t, page |-> p, shown |-> {}, total |-> 0]
NoRequest == Locals(None, None, None, None)

Init ==
  /\ status = [i \in Items |-> "none"]
  /\ owner = [i \in Items |-> None]
  /\ title = [i \in Items |-> None]
  /\ created = [i \in Items |-> None]
  /\ list = [u \in Users |-> [p \in Pages |-> NoKey]]
  /\ entity = [u \in Users |-> [i \in Items |-> NoKey]]
  /\ raced = {} /\ disturbed = {}
  /\ pc = [w \in Workers |-> "idle"]
  /\ req = [w \in Workers |-> NoRequest]

Goto(w, label) == pc' = [pc EXCEPT ![w] = label]

Finish(w) ==
  /\ Goto(w, "idle")
  /\ req' = [req EXCEPT ![w] = NoRequest]

(* A request begins.  History: raced are the users of whom one request with a title
   began before another one had stored its own, disturbed the users of whom a
   request that reads and one that writes were there at once. *)
Starts(w, label, r) ==
  LET Others == {v \in Workers \ {w} : pc[v] # "idle" /\ req[v].user = r.user}
  IN /\ pc[w] = "idle"
     /\ Goto(w, label)
     /\ req' = [req EXCEPT ![w] = r]
     /\ raced' = IF r.title # None /\ \E v \in Others : req[v].title # None
                 THEN raced \cup {r.user} ELSE raced
     /\ disturbed' = IF \E v \in Others : label \in Reading <=> pc[v] \in Writing
                     THEN disturbed \cup {r.user} ELSE disturbed

Active(u) == {i \in Items : status[i] = "active" /\ owner[i] = u}

(* What may come first when S is sorted by created_at, the newest in front: nothing
   orders items of the same millisecond. *)
Heads(S, n) ==
  {H \in SUBSET S :
     /\ Cardinality(H) = n \/ (Cardinality(S) < n /\ H = S)
     /\ \A h \in H, r \in S \ H : created[h] >= created[r]}

(* skip and limit of one query; another one may put equal items in another order. *)
Slices(S, p) ==
  {P \in SUBSET S :
     \E before \in Heads(S, (p - 1) * Limit), upTo \in Heads(S, p * Limit) :
       before \subseteq upTo /\ P = upTo \ before}

(* The answers that the page query may give. *)
OnPage(u, p) == {{<<i, title[i]>> : i \in P} : P \in Slices(Active(u), p)}

(* A request answered before its first change: 404, 403, 409, a validation error,
   an answer from the cache. *)
Refuse(w) == pc[w] = "idle" /\ UNCHANGED vars

-----------------------------------------------------------------------------
(* list_items: a page and the count are two queries; a get that fails is a miss *)

ListStart(w, u, p) ==
  /\ list[u][p] = NoKey \/ "redis" \in Faults
  /\ Starts(w, "find", Locals(u, None, None, p))
  /\ UNCHANGED <<docs, caches>>

FindPage(w) ==
  /\ pc[w] = "find"
  /\ \E page \in OnPage(req[w].user, req[w].page) : req' = [req EXCEPT ![w].shown = page]
  /\ Goto(w, "count")
  /\ UNCHANGED <<docs, caches, history>>

(* Faulty variant: the response is cached as it comes from the database. *)
CountUnvalidated(w) ==
  /\ pc[w] = "count"
  /\ req' = [req EXCEPT ![w].total = Cardinality(Active(req[w].user))]
  /\ Goto(w, "setList")
  /\ UNCHANGED <<docs, caches, history>>

(* The response is built: a null in one item is a validation error of the page. *)
CountItems(w) ==
  /\ pc[w] = "count"
  /\ \/ /\ \A x \in req[w].shown : x[2] # Null
        /\ req' = [req EXCEPT ![w].total = Cardinality(Active(req[w].user))]
        /\ Goto(w, "setList")
     \/ /\ \E x \in req[w].shown : x[2] = Null
        /\ Finish(w)
  /\ UNCHANGED <<docs, caches, history>>

SetList(w) ==
  /\ pc[w] = "setList"
  /\ \/ list' = [list EXCEPT ![req[w].user][req[w].page] =
                     [shown |-> req[w].shown, total |-> req[w].total]]
     \/ "redis" \in Faults /\ UNCHANGED list
  /\ Finish(w)
  /\ UNCHANGED <<docs, entity, history>>

-----------------------------------------------------------------------------
(* get_item: the key of the cache holds the user, so a hit needs no check *)

GetStart(w, u, i) ==
  /\ status[i] # "none"
  /\ entity[u][i] = NoKey \/ "redis" \in Faults
  /\ Starts(w, "findItem", Locals(u, i, None, None))
  /\ UNCHANGED <<docs, caches>>

(* Faulty variant: the owner is not compared. *)
FindAnyones(w) ==
  /\ pc[w] = "findItem"
  /\ status[req[w].item] = "active" /\ title[req[w].item] # Null
  /\ req' = [req EXCEPT ![w].shown = {<<req[w].item, title[req[w].item]>>}]
  /\ Goto(w, "setEntity")
  /\ UNCHANGED <<docs, caches, history>>

FindItem(w) ==
  LET i == req[w].item
  IN /\ pc[w] = "findItem"
     /\ \/ /\ i \in Active(req[w].user) /\ title[i] # Null
           /\ req' = [req EXCEPT ![w].shown = {<<i, title[i]>>}]
           /\ Goto(w, "setEntity")
        \/ /\ i \notin Active(req[w].user) \/ title[i] = Null
           /\ Finish(w)
     /\ UNCHANGED <<docs, caches, history>>

SetEntity(w) ==
  /\ pc[w] = "setEntity"
  /\ \/ \E x \in req[w].shown : entity' = [entity EXCEPT ![req[w].user][x[1]] = x[2]]
     \/ "redis" \in Faults /\ UNCHANGED entity
  /\ Finish(w)
  /\ UNCHANGED <<docs, list, history>>

-----------------------------------------------------------------------------
(* create_item, put_item, patch_item, delete_item *)

TitleTaken(u, t, except) == \E i \in Active(u) \ {except} : title[i] = t

(* Bound: no request is begun that would find the last of Items used. *)
Room == Cardinality({v \in Workers : pc[v] = "insert"}) < Cardinality({i \in Items : status[i] = "none"})

CreateStart(w, u, t) ==
  /\ Room
  /\ ~TitleTaken(u, t, None)
  /\ Starts(w, "insert", Locals(u, None, t, None))
  /\ UNCHANGED <<docs, caches>>

(* created_at is the clock of a pod before the insert: the order of the inserts may
   be another one, and two items may have the same. *)
Insert(w) ==
  \E i \in Items, t \in Times :
    /\ pc[w] = "insert"
    /\ status[i] = "none"
    /\ status' = [status EXCEPT ![i] = "active"]
    /\ owner' = [owner EXCEPT ![i] = req[w].user]
    /\ title' = [title EXCEPT ![i] = req[w].title]
    /\ created' = [created EXCEPT ![i] = t]
    /\ req' = [req EXCEPT ![w].title = None]
    /\ Goto(w, "delLists")
    /\ UNCHANGED <<caches, history>>

(* get_active_by_id and the comparison of the owner come first in all three; a
   patch without a title leaves the title as it is. *)
PutStart(w, u, i, t) ==
  /\ i \in Active(u)
  /\ Starts(w, "checkTitle", Locals(u, i, t, None))
  /\ UNCHANGED <<docs, caches>>

PatchStart(w, u, i, t) ==
  /\ i \in Active(u)
  /\ Starts(w, IF t = None THEN "update" ELSE "checkTitle", Locals(u, i, t, None))
  /\ UNCHANGED <<docs, caches>>

DeleteStart(w, u, i) ==
  /\ i \in Active(u)
  /\ Starts(w, "softDelete", Locals(u, i, None, None))
  /\ UNCHANGED <<docs, caches>>

(* Faulty variant: the filter compares the owner's UUID, not its string, and
   matches no document. *)
CheckNothing(w) ==
  /\ pc[w] = "checkTitle"
  /\ Goto(w, "update")
  /\ UNCHANGED <<docs, caches, history, req>>

CheckTitle(w) ==
  LET taken == TitleTaken(req[w].user, req[w].title, req[w].item)
  IN /\ pc[w] = "checkTitle"
     /\ \/ ~taken /\ Goto(w, "update") /\ UNCHANGED req
        \/ taken /\ Finish(w)
     /\ UNCHANGED <<docs, caches, history>>

(* update_one by _id, of a document that may have been deleted meanwhile: then it
   stays deleted, and the answer is an error. *)
Update(w) ==
  /\ pc[w] = "update"
  /\ LET i == req[w].item
     IN title' = [title EXCEPT ![i] =
                    IF req[w].title = None \/ status[i] # "active" THEN @ ELSE req[w].title]
  /\ req' = [req EXCEPT ![w].title = None]
  /\ Goto(w, "delLists")
  /\ UNCHANGED <<status, owner, created, caches, history>>

SoftDelete(w) ==
  /\ pc[w] = "softDelete"
  /\ status' = [status EXCEPT ![req[w].item] = "deleted"]
  /\ title' = [title EXCEPT ![req[w].item] = None]
  /\ created' = [created EXCEPT ![req[w].item] = None]
  /\ Goto(w, "delLists")
  /\ UNCHANGED <<owner, caches, history, req>>

(* Faulty variant: a key without its page matches no entry. *)
DelNoList(w) ==
  /\ pc[w] = "delLists"
  /\ \/ req[w].item = None /\ Finish(w)
     \/ req[w].item # None /\ Goto(w, "delEntity") /\ UNCHANGED req
  /\ UNCHANGED <<docs, caches, history>>

(* Redis fails: the error is swallowed, and entries stay. *)
Undeleted(w) == "redis" \in Faults /\ disturbed' = disturbed \cup {req[w].user}

(* delByPattern over the pages of the user; a created item has no entry yet. *)
DelLists(w) ==
  /\ pc[w] = "delLists"
  /\ \/ /\ list' = [list EXCEPT ![req[w].user] = [p \in Pages |-> NoKey]]
        /\ UNCHANGED disturbed
     \/ Undeleted(w) /\ UNCHANGED list
  /\ \/ req[w].item = None /\ Finish(w)
     \/ req[w].item # None /\ Goto(w, "delEntity") /\ UNCHANGED req
  /\ UNCHANGED <<docs, entity, raced>>

(* Faulty variant: the pattern lacks its wildcard and matches no key. *)
DelNoEntity(w) ==
  /\ pc[w] = "delEntity"
  /\ Finish(w)
  /\ UNCHANGED <<docs, caches, history>>

(* delByPattern over the users. *)
DelEntity(w) ==
  /\ pc[w] = "delEntity"
  /\ \/ /\ entity' = [u \in Users |-> [entity[u] EXCEPT ![req[w].item] = NoKey]]
        /\ UNCHANGED disturbed
     \/ Undeleted(w) /\ UNCHANGED entity
  /\ Finish(w)
  /\ UNCHANGED <<docs, list, raced>>

-----------------------------------------------------------------------------
(* The environment *)

(* An exception of MongoDB, or the end of the process. *)
Die(w) ==
  /\ "die" \in Faults
  /\ pc[w] # "idle"
  /\ disturbed' = IF pc[w] \in Dropping THEN disturbed \cup {req[w].user} ELSE disturbed
  /\ Finish(w)
  /\ UNCHANGED <<docs, caches, raced>>

(* The TTL, or a Redis that has lost its keys. *)
ListExpires(u, p) ==
  /\ list[u][p] # NoKey
  /\ list' = [list EXCEPT ![u][p] = NoKey]
  /\ UNCHANGED <<docs, entity, history, pc, req>>

EntityExpires(u, i) ==
  /\ entity[u][i] # NoKey
  /\ entity' = [entity EXCEPT ![u][i] = NoKey]
  /\ UNCHANGED <<docs, list, history, pc, req>>

-----------------------------------------------------------------------------
List(w) ==
  \/ \E u \in Users, p \in Pages : ListStart(w, u, p)
  \/ FindPage(w)
  \/ CountItems(w)
  \/ SetList(w)

Get(w) ==
  \/ \E u \in Users, i \in Items : GetStart(w, u, i)
  \/ FindItem(w)
  \/ SetEntity(w)

Create(w) ==
  \/ \E u \in Authors, t \in Titles : CreateStart(w, u, t)
  \/ Insert(w)

Modify(w) ==
  \/ \E u \in Users, i \in Items, t \in Titles : PutStart(w, u, i, t)
  \/ \E u \in Users, i \in Items, t \in Titles \cup {Null, None} : PatchStart(w, u, i, t)
  \/ CheckTitle(w)
  \/ Update(w)

Delete(w) ==
  \/ \E u \in Users, i \in Items : DeleteStart(w, u, i)
  \/ SoftDelete(w)

Invalidate(w) == DelLists(w) \/ DelEntity(w)

Environment ==
  \E u \in Users :
    \/ \E p \in Pages : ListExpires(u, p)
    \/ \E i \in Items : EntityExpires(u, i)

Next ==
  \/ \E w \in Workers :
       \/ Refuse(w) \/ List(w) \/ Get(w) \/ Create(w) \/ Modify(w) \/ Delete(w)
       \/ Invalidate(w) \/ Die(w)
  \/ Environment

Spec == Init /\ [][Next]_vars

-----------------------------------------------------------------------------
(* Properties *)

(* Type invariant; a null never gets into a cache, so what is cached can be
   answered. *)
TypeOK ==
  /\ status \in [Items -> {"none", "active", "deleted"}]
  /\ owner \in [Items -> Users \cup {None}]
  /\ title \in [Items -> Titles \cup {Null, None}]
  /\ created \in [Items -> Times \cup {None}]
  /\ list \in [Users -> [Pages -> {NoKey} \cup [shown : SUBSET (Items \X Titles), total : Nat]]]
  /\ entity \in [Users -> [Items -> Titles \cup {NoKey}]]
  /\ raced \subseteq Users /\ disturbed \subseteq Users
  /\ pc \in [Workers -> Labels]
  /\ req \in [Workers -> Request]

(* No two active items of a user have one title, nulls included, as long as no two
   requests of that user that check a title were under way at once: neither other
   users, nor deletions, nor deaths, nor Redis can bring a second one about
   (service.py:75-80, 105-111, 132-140). *)
TitlesUnique ==
  \A u \in Users \ raced : \A i, j \in Active(u) : title[i] = title[j] => i = j

(* Every cached page of a user is one that the query may give now, with the titles
   and the count as they are stored, unless a request that has changed an item is
   about to drop it, or the user is disturbed: a read overlapped a change, or a
   request died or missed Redis between its change and the deletion of the entries
   (service.py:28-54, repository.py:41-53).  Writers may overlap each other. *)
ListsCoherent ==
  \A u \in Users \ disturbed, p \in Pages :
    \/ list[u][p] = NoKey
    \/ list[u][p].shown \in OnPage(u, p) /\ list[u][p].total = Cardinality(Active(u))
    \/ \E w \in Workers : pc[w] = "delLists" /\ req[w].user = u

(* The same of the cached single items (service.py:31-32, 56-72). *)
EntitiesCoherent ==
  \A u \in Users \ disturbed, i \in Items :
    \/ entity[u][i] = NoKey
    \/ i \in Active(u) /\ entity[u][i] = title[i]
    \/ \E w \in Workers : pc[w] \in Dropping /\ req[w].user = u /\ req[w].item = i

(* A hit is answered without a check of the owner: what is cached for a user is
   the user's own, whatever has failed or overlapped (service.py:36-39, 57-61). *)
CachesPrivate ==
  \A u \in Users :
    /\ \A p \in Pages : list[u][p] # NoKey => \A x \in list[u][p].shown : owner[x[1]] = u
    /\ \A i \in Items : entity[u][i] # NoKey => owner[i] = u
=============================================================================
