-------------------------- MODULE HolidayItemsProof --------------------------
(* Titles stay apart and the caches tell the truth: proofs about HolidayItems. *)
EXTENDS HolidayItems, FiniteSetTheorems, TLAPS

(* An active item has an owner and a title, an unused one has neither. *)
StoredInv ==
  \A i \in Items :
    /\ status[i] = "none" => owner[i] = None
    /\ status[i] = "active" => owner[i] \in Users /\ title[i] # None

(* What the labels say about the locals of a request. *)
OnPath ==
  \A w \in Workers :
    /\ pc[w] = "idle" => req[w] = NoRequest
    /\ pc[w] # "idle" => req[w].user \in Users
    /\ pc[w] \in {"find", "count", "setList"} => req[w].page \in Pages
    /\ pc[w] \in {"findItem", "setEntity"} => req[w].item \in Items
    /\ pc[w] = "insert" => req[w].item = None /\ req[w].title \in Titles
    /\ pc[w] = "checkTitle" => req[w].title # None
    /\ pc[w] \notin {"insert", "checkTitle", "update"} => req[w].title = None

(* A change is of an item of its user, and a reader has seen items of its user
   only, with a title that can be answered once the response is built. *)
OwnInv ==
  \A w \in Workers :
    /\ pc[w] \in {"checkTitle", "update", "softDelete", "delEntity"} => req[w].item \in Items
    /\ pc[w] \in Writing /\ req[w].item \in Items =>
         status[req[w].item] # "none" /\ owner[req[w].item] = req[w].user
    /\ pc[w] \in {"count", "setList", "setEntity"} =>
         \A x \in req[w].shown : owner[x[1]] = req[w].user
    /\ pc[w] \in {"setList", "setEntity"} => \A x \in req[w].shown : x[2] # Null
    /\ pc[w] = "setEntity" => \A x \in req[w].shown : x[1] = req[w].item

(* One request at a time is on its way to store a title, and no other item of the
   user has this title once it was looked for. *)
TitlesInv ==
  \A u \in Users \ raced :
    /\ \A v, w \in Workers : v # w /\ req[v].user = u /\ req[w].user = u =>
         req[v].title = None \/ req[w].title = None
    /\ \A w \in Workers :
         pc[w] \in {"insert", "update"} /\ req[w].user = u /\ req[w].title # None =>
         \A i \in Items \ {req[w].item} :
           status[i] = "active" /\ owner[i] = u => title[i] # req[w].title

(* While nothing disturbs a user, readers and writers are apart, and a reader holds
   what is stored. *)
ApartInv ==
  \A u \in Users \ disturbed : \A v, w \in Workers :
    req[v].user = u /\ req[w].user = u /\ pc[v] \in Reading => pc[w] \notin Writing

Fresh(w, u) ==
  /\ pc[w] \in {"count", "setList"} =>
       \A p \in Pages : req[w].page = p => req[w].shown \in OnPage(u, p)
  /\ pc[w] = "setList" => req[w].total = Cardinality(Active(u))
  /\ pc[w] = "setEntity" =>
       \A i \in Items : req[w].item = i => i \in Active(u) /\ req[w].shown = {<<i, title[i]>>}

FreshInv == \A w \in Workers, u \in Users \ disturbed : req[w].user = u => Fresh(w, u)

ItemsInv == StoredInv /\ OnPath /\ OwnInv

(* The values that are told apart. *)
LEMMA Values ==
  /\ None \notin Users /\ None \notin Items /\ None \notin Titles /\ None # Null
  /\ Null \notin Titles /\ NoKey \notin Titles /\ NoKey # Null /\ Authors \subseteq Users
  BY ValuesAssumption, AuthorsAssumption

(* Sets of items are counted by naturals. *)
LEMMA Counts == \A S \in SUBSET Items : Cardinality(S) \in Nat
  BY ItemsAssumption, FS_Subset, FS_CardinalityType

(* The fields of a request that a step changes. *)
LEMMA Fields ==
  ASSUME NEW r \in Request
  PROVE  /\ \A S \in SUBSET Shown : [r EXCEPT !.shown = S] \in Request
         /\ \A n \in Nat : [r EXCEPT !.total = n] \in Request
         /\ [r EXCEPT !.title = None] \in Request
  BY DEF Request

(* What the database shows has the type of a response. *)
LEMMA ShownType ==
  ASSUME TypeOK, StoredInv, NEW u, NEW p, NEW page \in OnPage(u, p) PROVE page \in SUBSET Shown
  <1>1. PICK P \in Slices(Active(u), p) : page = {<<i, title[i]>> : i \in P}
    BY DEF OnPage
  <1>2. \A i \in P : i \in Items /\ title[i] \in Titles \cup {Null}
    BY DEF Slices, Active, TypeOK, StoredInv
  <1>3. \A i \in P : <<i, title[i]>> \in Shown
    BY <1>2 DEF Shown
  <1> QED
    BY <1>1, <1>3

(* A page shows active items of its user. *)
LEMMA OnPageActive == \A u, p : \A page \in OnPage(u, p) : \A x \in page : x[1] \in Active(u) /\ owner[x[1]] = u
  <1> SUFFICES ASSUME NEW u, NEW p, NEW page \in OnPage(u, p), NEW x \in page
               PROVE  x[1] \in Active(u) /\ owner[x[1]] = u
    OBVIOUS
  <1>1. PICK P \in Slices(Active(u), p) : page = {<<i, title[i]>> : i \in P}
    BY DEF OnPage
  <1>2. PICK i \in P : x = <<i, title[i]>>
    BY <1>1
  <1> QED
    BY <1>2 DEF Slices, Active

-----------------------------------------------------------------------------
(* Types *)

(* Every step keeps the types: what is cached has no null. *)
LEMMA TypeStep == TypeOK /\ ItemsInv /\ [Next]_vars => TypeOK'
  <1> SUFFICES ASSUME TypeOK, ItemsInv, [Next]_vars PROVE TypeOK'
    OBVIOUS
  <1> USE Values, Counts DEF TypeOK, Request, Labels, Reading, Writing, Goto, docs, caches, history,
          ItemsInv, StoredInv, OnPath, OwnInv
  <1>1. CASE UNCHANGED vars
    BY <1>1 DEF vars
  <1>2. ASSUME NEW w \in Workers, NEW u \in Users, NEW p \in Pages, ListStart(w, u, p) PROVE TypeOK'
    BY <1>2 DEF ListStart, Starts, Locals
  <1>3. ASSUME NEW w \in Workers, FindPage(w) PROVE TypeOK'
    <2>0. PICK page \in OnPage(req[w].user, req[w].page) : req' = [req EXCEPT ![w].shown = page]
      BY <1>3 DEF FindPage
    <2> DEFINE r == [req[w] EXCEPT !.shown = page]
    <2>1. req' = [req EXCEPT ![w] = r] /\ pc' = [pc EXCEPT ![w] = "count"]
      BY <1>3, <2>0 DEF FindPage
    <2>2. page \in SUBSET Shown
      BY ShownType
    <2>3. req[w] \in Request
      OBVIOUS
    <2>4. r \in Request
      <3> HIDE DEF Request
      <3> QED
        BY <2>2, <2>3, Fields
    <2> QED
      BY <1>3, <2>1, <2>4 DEF FindPage
  <1>4. ASSUME NEW w \in Workers, CountItems(w) PROVE TypeOK'
    <2>1. Active(req[w].user) \in SUBSET Items
      BY DEF Active
    <2>2. Cardinality(Active(req[w].user)) \in Nat
      BY <2>1, Counts
    <2>3. CASE Finish(w)
      BY <1>4, <2>3 DEF CountItems, Finish, NoRequest, Locals
    <2>4. CASE ~Finish(w)
      <3> DEFINE r == [req[w] EXCEPT !.total = Cardinality(Active(req[w].user))]
      <3>1. req' = [req EXCEPT ![w] = r] /\ pc' = [pc EXCEPT ![w] = "setList"]
        BY <1>4, <2>4 DEF CountItems
      <3>2. r \in Request
        BY <2>2, Fields DEF TypeOK
      <3> QED
        BY <1>4, <3>1, <3>2 DEF CountItems
    <2> QED
      BY <2>3, <2>4
  <1>5. ASSUME NEW w \in Workers, SetList(w) PROVE TypeOK'
    <2>1. req[w].user \in Users /\ req[w].page \in Pages
      BY <1>5 DEF SetList
    <2>2. req[w].shown \in SUBSET (Items \X Titles)
      BY <1>5 DEF SetList, Shown
    <2> DEFINE P == [shown : SUBSET (Items \X Titles), total : Nat]
               page == [shown |-> req[w].shown, total |-> req[w].total]
    <2>3. list' \in [Users -> [Pages -> {NoKey} \cup P]]
      <3>1. page \in P
        BY <2>2
      <3>2. list' = list \/ list' = [list EXCEPT ![req[w].user][req[w].page] = page]
        BY <1>5 DEF SetList
      <3>3. list \in [Users -> [Pages -> {NoKey} \cup P]]
        OBVIOUS
      <3> QED
        <4> DEFINE u == req[w].user
                   E == {NoKey} \cup P
                   l == [list[u] EXCEPT ![req[w].page] = page]
        <4>1. page \in E /\ u \in Users /\ list \in [Users -> [Pages -> E]]
          BY <2>1, <3>1, <3>3
        <4>2. list' = list \/ list' = [list EXCEPT ![u] = l]
          BY <3>2
        <4>3. l \in [Pages -> E]
          <5> HIDE DEF E, page, u
          <5> QED BY <4>1
        <4>4. list' \in [Users -> [Pages -> E]]
          <5> HIDE DEF E, l, u
          <5> QED BY ONLY <4>1, <4>2, <4>3
        <4> QED
          BY <4>4
    <2> QED
      BY <1>5, <2>3 DEF SetList, Finish, NoRequest, Locals
  <1>6. ASSUME NEW w \in Workers, NEW u \in Users, NEW i \in Items, GetStart(w, u, i) PROVE TypeOK'
    BY <1>6 DEF GetStart, Starts, Locals
  <1>7. ASSUME NEW w \in Workers, FindItem(w) PROVE TypeOK'
    <2>1. CASE Finish(w)
      BY <1>7, <2>1 DEF FindItem, Finish, NoRequest, Locals
    <2>2. CASE ~Finish(w)
      <3>1. /\ req' = [req EXCEPT ![w].shown = {<<req[w].item, title[req[w].item]>>}]
            /\ pc' = [pc EXCEPT ![w] = "setEntity"]
            /\ req[w].item \in Items /\ title[req[w].item] \in Titles
        BY <1>7, <2>2 DEF FindItem, Active
      <3> DEFINE r == [req[w] EXCEPT !.shown = {<<req[w].item, title[req[w].item]>>}]
      <3>2. {<<req[w].item, title[req[w].item]>>} \in SUBSET Shown
        BY <3>1 DEF Shown
      <3>3. r \in Request /\ req' = [req EXCEPT ![w] = r]
        BY <3>1, <3>2, Fields DEF TypeOK
      <3> QED
        BY <1>7, <3>1, <3>3 DEF FindItem
    <2> QED
      BY <2>1, <2>2
  <1>8. ASSUME NEW w \in Workers, SetEntity(w) PROVE TypeOK'
    <2>1. entity' \in [Users -> [Items -> Titles \cup {NoKey}]]
      <3>1. CASE UNCHANGED entity
        BY <3>1
      <3>2. CASE ~UNCHANGED entity
        <4>1. PICK x \in req[w].shown : entity' = [entity EXCEPT ![req[w].user][x[1]] = x[2]]
          BY <1>8, <3>2 DEF SetEntity
        <4>2. req[w].user \in Users /\ x[1] \in Items /\ x[2] \in Titles
          BY <1>8, <4>1 DEF SetEntity, Shown
        <4> QED
          BY <4>1, <4>2
      <3> QED
        BY <3>1, <3>2
    <2> QED
      BY <1>8, <2>1 DEF SetEntity, Finish, NoRequest, Locals
  <1>9. ASSUME NEW w \in Workers, NEW u \in Authors, NEW t \in Titles, CreateStart(w, u, t) PROVE TypeOK'
    BY <1>9 DEF CreateStart, Starts, Locals
  <1>10. ASSUME NEW w \in Workers, Insert(w) PROVE TypeOK'
    <2>1. req[w].title \in Titles /\ req[w].user \in Users
      BY <1>10 DEF Insert
    <2>2. PICK i \in Items, t \in Times :
            /\ status' = [status EXCEPT ![i] = "active"]
            /\ owner' = [owner EXCEPT ![i] = req[w].user]
            /\ title' = [title EXCEPT ![i] = req[w].title]
            /\ created' = [created EXCEPT ![i] = t]
      BY ONLY <1>10 DEF Insert
    <2>3. req' \in [Workers -> Request]
      <3> DEFINE r == [req[w] EXCEPT !.title = None]
      <3>1. req' = [req EXCEPT ![w] = r]
        BY <1>10 DEF Insert
      <3> QED
        BY <3>1, Fields DEF TypeOK
    <2>4. status' \in [Items -> {"none", "active", "deleted"}] /\ pc' \in [Workers -> Labels]
      BY <1>10, <2>2 DEF Insert
    <2>5. owner' \in [Items -> Users \cup {None}]
      BY <2>1, <2>2
    <2>6. title' \in [Items -> Titles \cup {Null, None}]
      BY <2>1, <2>2
    <2>7. created' \in [Items -> Times \cup {None}]
      BY <2>2
    <2>8. UNCHANGED <<caches, history>>
      BY <1>10 DEF Insert
    <2> QED
      BY <2>3, <2>4, <2>5, <2>6, <2>7, <2>8
  <1>11. ASSUME NEW w \in Workers, NEW u \in Users, NEW i \in Items, NEW t \in Titles, PutStart(w, u, i, t) PROVE TypeOK'
    BY <1>11 DEF PutStart, Starts, Locals
  <1>12. ASSUME NEW w \in Workers, NEW u \in Users, NEW i \in Items, NEW t \in Titles \cup {Null, None}, PatchStart(w, u, i, t) PROVE TypeOK'
    BY <1>12 DEF PatchStart, Starts, Locals
  <1>13. ASSUME NEW w \in Workers, CheckTitle(w) PROVE TypeOK'
    <2>1. CASE Finish(w)
      BY <1>13, <2>1 DEF CheckTitle, Finish, NoRequest, Locals
    <2>2. CASE ~Finish(w)
      BY <1>13, <2>2 DEF CheckTitle
    <2> QED
      BY <2>1, <2>2
  <1>14. ASSUME NEW w \in Workers, Update(w) PROVE TypeOK'
    <2>1. title' \in [Items -> Titles \cup {Null, None}]
      BY <1>14 DEF Update
    <2>2. req' \in [Workers -> Request]
      <3> DEFINE r == [req[w] EXCEPT !.title = None]
      <3>1. req' = [req EXCEPT ![w] = r]
        BY <1>14 DEF Update
      <3> QED
        BY <3>1, Fields DEF TypeOK
    <2> QED
      BY <1>14, <2>1, <2>2 DEF Update
  <1>15. ASSUME NEW w \in Workers, NEW u \in Users, NEW i \in Items, DeleteStart(w, u, i) PROVE TypeOK'
    BY <1>15 DEF DeleteStart, Starts, Locals
  <1>16. ASSUME NEW w \in Workers, SoftDelete(w) PROVE TypeOK'
    BY <1>16 DEF SoftDelete
  <1>17. ASSUME NEW w \in Workers, DelLists(w) PROVE TypeOK'
    <2>1. list' \in [Users -> [Pages -> {NoKey} \cup [shown : SUBSET (Items \X Titles), total : Nat]]]
      BY <1>17 DEF DelLists
    <2>2. disturbed' \subseteq Users
      BY <1>17 DEF DelLists, Undeleted
    <2>3. CASE Finish(w)
      BY <1>17, <2>1, <2>2, <2>3 DEF DelLists, Finish, NoRequest, Locals
    <2>4. CASE ~Finish(w)
      BY <1>17, <2>1, <2>2, <2>4 DEF DelLists
    <2> QED
      BY <2>3, <2>4
  <1>18. ASSUME NEW w \in Workers, DelEntity(w) PROVE TypeOK'
    <2>1. entity' \in [Users -> [Items -> Titles \cup {NoKey}]]
      <3>1. \A u \in Users : [entity[u] EXCEPT ![req[w].item] = NoKey] \in [Items -> Titles \cup {NoKey}]
        OBVIOUS
      <3>2. \/ entity' = entity
            \/ entity' = [u \in Users |-> [entity[u] EXCEPT ![req[w].item] = NoKey]]
        BY <1>18 DEF DelEntity
      <3>3. [u \in Users |-> [entity[u] EXCEPT ![req[w].item] = NoKey]] \in [Users -> [Items -> Titles \cup {NoKey}]]
        BY ONLY <3>1
      <3> QED
        BY <3>2, <3>3
    <2>2. disturbed' \subseteq Users
      BY <1>18 DEF DelEntity, Undeleted
    <2> QED
      BY <1>18, <2>1, <2>2 DEF DelEntity, Finish, NoRequest, Locals
  <1>19. ASSUME NEW w \in Workers, Die(w) PROVE TypeOK'
    BY <1>19 DEF Die, Finish, NoRequest, Locals
  <1>20. CASE Environment
    <2>1. ASSUME NEW u \in Users, NEW p \in Pages, ListExpires(u, p) PROVE TypeOK'
      BY <2>1 DEF ListExpires
    <2>2. ASSUME NEW u \in Users, NEW i \in Items, EntityExpires(u, i) PROVE TypeOK'
      BY <2>2 DEF EntityExpires
    <2> QED
      BY <1>20, <2>1, <2>2 DEF Environment
  <1> QED
    BY <1>1, <1>2, <1>3, <1>4, <1>5, <1>6, <1>7, <1>8, <1>9, <1>10, <1>11, <1>12, <1>13, <1>14, <1>15, <1>16, <1>17, <1>18, <1>19, <1>20
    DEF Next, Refuse, List, Get, Create, Modify, Delete, Invalidate

-----------------------------------------------------------------------------
(* The other parts of the invariant *)

(* Every step keeps the documents well-formed. *)
LEMMA StoredStep == TypeOK /\ ItemsInv /\ [Next]_vars => StoredInv'
  <1> SUFFICES ASSUME TypeOK, ItemsInv, [Next]_vars PROVE StoredInv'
    OBVIOUS
  <1> USE Values DEF TypeOK, Request, Labels, Reading, Writing, Dropping, Goto, docs, caches, history,
          ItemsInv, StoredInv, OnPath, OwnInv, Active
  <1>1. CASE UNCHANGED vars
    BY <1>1 DEF vars
  <1>2. ASSUME NEW w \in Workers, NEW u \in Users, NEW p \in Pages, ListStart(w, u, p) PROVE StoredInv'
    BY <1>2 DEF ListStart, Starts, Locals
  <1>3. ASSUME NEW w \in Workers, FindPage(w) PROVE StoredInv'
    BY <1>3 DEF FindPage
  <1>4. ASSUME NEW w \in Workers, CountItems(w) PROVE StoredInv'
    BY <1>4 DEF CountItems, Finish, NoRequest, Locals
  <1>5. ASSUME NEW w \in Workers, SetList(w) PROVE StoredInv'
    BY <1>5 DEF SetList, Finish, NoRequest, Locals
  <1>6. ASSUME NEW w \in Workers, NEW u \in Users, NEW i \in Items, GetStart(w, u, i) PROVE StoredInv'
    BY <1>6 DEF GetStart, Starts, Locals
  <1>7. ASSUME NEW w \in Workers, FindItem(w) PROVE StoredInv'
    BY <1>7 DEF FindItem, Finish, NoRequest, Locals
  <1>8. ASSUME NEW w \in Workers, SetEntity(w) PROVE StoredInv'
    BY <1>8 DEF SetEntity, Finish, NoRequest, Locals
  <1>9. ASSUME NEW w \in Workers, NEW u \in Authors, NEW t \in Titles, CreateStart(w, u, t) PROVE StoredInv'
    BY <1>9 DEF CreateStart, Starts, Locals
  <1>10. ASSUME NEW w \in Workers, Insert(w) PROVE StoredInv'
    BY <1>10 DEF Insert
  <1>11. ASSUME NEW w \in Workers, NEW u \in Users, NEW i \in Items, NEW t \in Titles, PutStart(w, u, i, t) PROVE StoredInv'
    BY <1>11 DEF PutStart, Starts, Locals
  <1>12. ASSUME NEW w \in Workers, NEW u \in Users, NEW i \in Items, NEW t \in Titles \cup {Null, None}, PatchStart(w, u, i, t) PROVE StoredInv'
    BY <1>12 DEF PatchStart, Starts, Locals
  <1>13. ASSUME NEW w \in Workers, CheckTitle(w) PROVE StoredInv'
    BY <1>13 DEF CheckTitle, Finish, NoRequest, Locals
  <1>14. ASSUME NEW w \in Workers, Update(w) PROVE StoredInv'
    BY <1>14 DEF Update
  <1>15. ASSUME NEW w \in Workers, NEW u \in Users, NEW i \in Items, DeleteStart(w, u, i) PROVE StoredInv'
    BY <1>15 DEF DeleteStart, Starts, Locals
  <1>16. ASSUME NEW w \in Workers, SoftDelete(w) PROVE StoredInv'
    BY <1>16 DEF SoftDelete
  <1>17. ASSUME NEW w \in Workers, DelLists(w) PROVE StoredInv'
    BY <1>17 DEF DelLists, Finish, NoRequest, Locals, Undeleted
  <1>18. ASSUME NEW w \in Workers, DelEntity(w) PROVE StoredInv'
    BY <1>18 DEF DelEntity, Finish, NoRequest, Locals, Undeleted
  <1>19. ASSUME NEW w \in Workers, Die(w) PROVE StoredInv'
    BY <1>19 DEF Die, Finish, NoRequest, Locals
  <1>20. CASE Environment
    BY <1>20 DEF Environment, ListExpires, EntityExpires
  <1> QED
    BY <1>1, <1>2, <1>3, <1>4, <1>5, <1>6, <1>7, <1>8, <1>9, <1>10, <1>11, <1>12, <1>13, <1>14, <1>15, <1>16, <1>17, <1>18, <1>19, <1>20
    DEF Next, Refuse, List, Get, Create, Modify, Delete, Invalidate

(* Every step keeps what the labels say. *)
LEMMA OnPathStep == TypeOK /\ ItemsInv /\ [Next]_vars => OnPath'
  <1> SUFFICES ASSUME TypeOK, ItemsInv, [Next]_vars PROVE OnPath'
    OBVIOUS
  <1> USE Values DEF TypeOK, Request, Labels, Reading, Writing, Dropping, Goto, docs, caches, history,
          ItemsInv, OnPath, OwnInv
  <1>1. CASE UNCHANGED vars
    BY <1>1 DEF vars
  <1>2. ASSUME NEW w \in Workers, NEW u \in Users, NEW p \in Pages, ListStart(w, u, p) PROVE OnPath'
    BY <1>2 DEF ListStart, Starts, Locals
  <1>3. ASSUME NEW w \in Workers, FindPage(w) PROVE OnPath'
    BY <1>3 DEF FindPage
  <1>4. ASSUME NEW w \in Workers, CountItems(w) PROVE OnPath'
    <2>1. CASE Finish(w)
      BY <1>4, <2>1 DEF CountItems, Finish, NoRequest, Locals
    <2>2. CASE ~Finish(w)
      BY <1>4, <2>2 DEF CountItems, Undeleted
    <2> QED
      BY <2>1, <2>2
  <1>5. ASSUME NEW w \in Workers, SetList(w) PROVE OnPath'
    BY <1>5 DEF SetList, Finish, NoRequest, Locals
  <1>6. ASSUME NEW w \in Workers, NEW u \in Users, NEW i \in Items, GetStart(w, u, i) PROVE OnPath'
    BY <1>6 DEF GetStart, Starts, Locals
  <1>7. ASSUME NEW w \in Workers, FindItem(w) PROVE OnPath'
    <2>1. CASE Finish(w)
      BY <1>7, <2>1 DEF FindItem, Finish, NoRequest, Locals
    <2>2. CASE ~Finish(w)
      BY <1>7, <2>2 DEF FindItem, Undeleted
    <2> QED
      BY <2>1, <2>2
  <1>8. ASSUME NEW w \in Workers, SetEntity(w) PROVE OnPath'
    BY <1>8 DEF SetEntity, Finish, NoRequest, Locals
  <1>9. ASSUME NEW w \in Workers, NEW u \in Authors, NEW t \in Titles, CreateStart(w, u, t) PROVE OnPath'
    BY <1>9 DEF CreateStart, Starts, Locals
  <1>10. ASSUME NEW w \in Workers, Insert(w) PROVE OnPath'
    BY <1>10 DEF Insert
  <1>11. ASSUME NEW w \in Workers, NEW u \in Users, NEW i \in Items, NEW t \in Titles, PutStart(w, u, i, t) PROVE OnPath'
    BY <1>11 DEF PutStart, Starts, Locals
  <1>12. ASSUME NEW w \in Workers, NEW u \in Users, NEW i \in Items, NEW t \in Titles \cup {Null, None}, PatchStart(w, u, i, t) PROVE OnPath'
    BY <1>12 DEF PatchStart, Starts, Locals
  <1>13. ASSUME NEW w \in Workers, CheckTitle(w) PROVE OnPath'
    <2>1. CASE Finish(w)
      BY <1>13, <2>1 DEF CheckTitle, Finish, NoRequest, Locals
    <2>2. CASE ~Finish(w)
      BY <1>13, <2>2 DEF CheckTitle, Undeleted
    <2> QED
      BY <2>1, <2>2
  <1>14. ASSUME NEW w \in Workers, Update(w) PROVE OnPath'
    BY <1>14 DEF Update
  <1>15. ASSUME NEW w \in Workers, NEW u \in Users, NEW i \in Items, DeleteStart(w, u, i) PROVE OnPath'
    BY <1>15 DEF DeleteStart, Starts, Locals
  <1>16. ASSUME NEW w \in Workers, SoftDelete(w) PROVE OnPath'
    BY <1>16 DEF SoftDelete
  <1>17. ASSUME NEW w \in Workers, DelLists(w) PROVE OnPath'
    <2>1. CASE Finish(w)
      BY <1>17, <2>1 DEF DelLists, Finish, NoRequest, Locals
    <2>2. CASE ~Finish(w)
      BY <1>17, <2>2 DEF DelLists, Undeleted
    <2> QED
      BY <2>1, <2>2
  <1>18. ASSUME NEW w \in Workers, DelEntity(w) PROVE OnPath'
    BY <1>18 DEF DelEntity, Finish, NoRequest, Locals, Undeleted
  <1>19. ASSUME NEW w \in Workers, Die(w) PROVE OnPath'
    BY <1>19 DEF Die, Finish, NoRequest, Locals
  <1>20. CASE Environment
    BY <1>20 DEF Environment, ListExpires, EntityExpires
  <1> QED
    BY <1>1, <1>2, <1>3, <1>4, <1>5, <1>6, <1>7, <1>8, <1>9, <1>10, <1>11, <1>12, <1>13, <1>14, <1>15, <1>16, <1>17, <1>18, <1>19, <1>20
    DEF Next, Refuse, List, Get, Create, Modify, Delete, Invalidate

(* A request changes and reads items of its user only. *)
LEMMA OwnStep == TypeOK /\ ItemsInv /\ [Next]_vars => OwnInv'
  <1> SUFFICES ASSUME TypeOK, ItemsInv, [Next]_vars PROVE OwnInv'
    OBVIOUS
  <1> USE Values DEF TypeOK, Request, Labels, Reading, Writing, Dropping, Goto, docs, caches, history,
          ItemsInv, StoredInv, OnPath, OwnInv, Active
  <1>1. CASE UNCHANGED vars
    BY <1>1 DEF vars
  <1>2. ASSUME NEW w \in Workers, NEW u \in Users, NEW p \in Pages, ListStart(w, u, p) PROVE OwnInv'
    BY <1>2 DEF ListStart, Starts, Locals
  <1>3. ASSUME NEW w \in Workers, FindPage(w) PROVE OwnInv'
    <2>0. PICK page \in OnPage(req[w].user, req[w].page) : req' = [req EXCEPT ![w].shown = page]
      BY <1>3 DEF FindPage
    <2>1. req' = [req EXCEPT ![w].shown = page] /\ pc' = [pc EXCEPT ![w] = "count"]
      BY <1>3, <2>0 DEF FindPage
    <2>2. \A x \in page : owner[x[1]] = req[w].user
      BY OnPageActive
    <2> QED
      BY <1>3, <2>1, <2>2 DEF FindPage
  <1>4. ASSUME NEW w \in Workers, CountItems(w) PROVE OwnInv'
    <2>1. CASE Finish(w)
      BY <1>4, <2>1 DEF CountItems, Finish, NoRequest, Locals
    <2>2. CASE ~Finish(w)
      <3>1. /\ pc[w] = "count" /\ pc' = [pc EXCEPT ![w] = "setList"]
            /\ \A x \in req[w].shown : x[2] # Null
            /\ req' = [req EXCEPT ![w].total = Cardinality(Active(req[w].user))]
        BY <1>4, <2>2 DEF CountItems
      <3>2. /\ \A v \in Workers : req'[v].user = req[v].user /\ req'[v].item = req[v].item /\ req'[v].shown = req[v].shown
            /\ \A v \in Workers \ {w} : pc'[v] = pc[v]
        BY <3>1
      <3> QED
        BY <1>4, <3>1, <3>2 DEF CountItems
    <2> QED
      BY <2>1, <2>2
  <1>5. ASSUME NEW w \in Workers, SetList(w) PROVE OwnInv'
    BY <1>5 DEF SetList, Finish, NoRequest, Locals
  <1>6. ASSUME NEW w \in Workers, NEW u \in Users, NEW i \in Items, GetStart(w, u, i) PROVE OwnInv'
    BY <1>6 DEF GetStart, Starts, Locals
  <1>7. ASSUME NEW w \in Workers, FindItem(w) PROVE OwnInv'
    <2>1. CASE Finish(w)
      BY <1>7, <2>1 DEF FindItem, Finish, NoRequest, Locals
    <2>2. CASE ~Finish(w)
      <3> DEFINE i == req[w].item
                 x == <<i, title[i]>>
      <3>1. /\ pc[w] = "findItem" /\ pc' = [pc EXCEPT ![w] = "setEntity"]
            /\ i \in Active(req[w].user) /\ title[i] # Null
            /\ req' = [req EXCEPT ![w].shown = {x}]
        BY <1>7, <2>2 DEF FindItem
      <3>2. /\ \A v \in Workers : req'[v].user = req[v].user /\ req'[v].item = req[v].item
            /\ \A v \in Workers \ {w} : pc'[v] = pc[v] /\ req'[v].shown = req[v].shown
            /\ req'[w].shown = {x}
        BY <3>1
      <3>3. x[1] = i /\ x[2] = title[i] /\ owner[i] = req[w].user
        BY <3>1
      <3> QED
        BY <1>7, <3>1, <3>2, <3>3 DEF FindItem
    <2> QED
      BY <2>1, <2>2
  <1>8. ASSUME NEW w \in Workers, SetEntity(w) PROVE OwnInv'
    BY <1>8 DEF SetEntity, Finish, NoRequest, Locals
  <1>9. ASSUME NEW w \in Workers, NEW u \in Authors, NEW t \in Titles, CreateStart(w, u, t) PROVE OwnInv'
    BY <1>9 DEF CreateStart, Starts, Locals
  <1>10. ASSUME NEW w \in Workers, Insert(w) PROVE OwnInv'
    BY <1>10 DEF Insert
  <1>11. ASSUME NEW w \in Workers, NEW u \in Users, NEW i \in Items, NEW t \in Titles, PutStart(w, u, i, t) PROVE OwnInv'
    BY <1>11 DEF PutStart, Starts, Locals
  <1>12. ASSUME NEW w \in Workers, NEW u \in Users, NEW i \in Items, NEW t \in Titles \cup {Null, None}, PatchStart(w, u, i, t) PROVE OwnInv'
    BY <1>12 DEF PatchStart, Starts, Locals
  <1>13. ASSUME NEW w \in Workers, CheckTitle(w) PROVE OwnInv'
    <2>1. CASE Finish(w)
      BY <1>13, <2>1 DEF CheckTitle, Finish, NoRequest, Locals
    <2>2. CASE ~Finish(w)
      BY <1>13, <2>2 DEF CheckTitle, Undeleted
    <2> QED
      BY <2>1, <2>2
  <1>14. ASSUME NEW w \in Workers, Update(w) PROVE OwnInv'
    BY <1>14 DEF Update
  <1>15. ASSUME NEW w \in Workers, NEW u \in Users, NEW i \in Items, DeleteStart(w, u, i) PROVE OwnInv'
    BY <1>15 DEF DeleteStart, Starts, Locals
  <1>16. ASSUME NEW w \in Workers, SoftDelete(w) PROVE OwnInv'
    BY <1>16 DEF SoftDelete
  <1>17. ASSUME NEW w \in Workers, DelLists(w) PROVE OwnInv'
    <2>1. CASE Finish(w)
      BY <1>17, <2>1 DEF DelLists, Finish, NoRequest, Locals
    <2>2. CASE ~Finish(w)
      BY <1>17, <2>2 DEF DelLists, Undeleted
    <2> QED
      BY <2>1, <2>2
  <1>18. ASSUME NEW w \in Workers, DelEntity(w) PROVE OwnInv'
    BY <1>18 DEF DelEntity, Finish, NoRequest, Locals, Undeleted
  <1>19. ASSUME NEW w \in Workers, Die(w) PROVE OwnInv'
    BY <1>19 DEF Die, Finish, NoRequest, Locals
  <1>20. CASE Environment
    BY <1>20 DEF Environment, ListExpires, EntityExpires
  <1> QED
    BY <1>1, <1>2, <1>3, <1>4, <1>5, <1>6, <1>7, <1>8, <1>9, <1>10, <1>11, <1>12, <1>13, <1>14, <1>15, <1>16, <1>17, <1>18, <1>19, <1>20
    DEF Next, Refuse, List, Get, Create, Modify, Delete, Invalidate

(* The check of a title is good until the title is stored, one request of the user at a time. *)
LEMMA TitlesStep == TypeOK /\ ItemsInv /\ TitlesInv /\ TitlesUnique /\ [Next]_vars => (TitlesInv /\ TitlesUnique)'
  <1> SUFFICES ASSUME TypeOK, ItemsInv, TitlesInv, TitlesUnique, [Next]_vars PROVE (TitlesInv /\ TitlesUnique)'
    OBVIOUS
  <1> USE Values DEF TypeOK, Request, Labels, Reading, Writing, Dropping, Goto, docs, caches, history,
          ItemsInv, StoredInv, OnPath, OwnInv, TitlesInv, TitlesUnique, TitleTaken, Active
  <1>1. CASE UNCHANGED vars
    BY <1>1 DEF vars
  <1>2. ASSUME NEW w \in Workers, NEW u \in Users, NEW p \in Pages, ListStart(w, u, p) PROVE (TitlesInv /\ TitlesUnique)'
    BY <1>2 DEF ListStart, Starts, Locals
  <1>3. ASSUME NEW w \in Workers, FindPage(w) PROVE (TitlesInv /\ TitlesUnique)'
    BY <1>3 DEF FindPage
  <1>4. ASSUME NEW w \in Workers, CountItems(w) PROVE (TitlesInv /\ TitlesUnique)'
    <2>1. CASE Finish(w)
      BY <1>4, <2>1 DEF CountItems, Finish, NoRequest, Locals
    <2>2. CASE ~Finish(w)
      <3>1. /\ pc' = [pc EXCEPT ![w] = "setList"]
            /\ UNCHANGED <<docs, caches, history>>
            /\ req' = [req EXCEPT ![w].total = Cardinality(Active(req[w].user))]
        BY <1>4, <2>2 DEF CountItems
      <3>2. \A v \in Workers : req'[v].user = req[v].user /\ req'[v].item = req[v].item /\ req'[v].title = req[v].title
        BY <3>1
      <3> QED
        BY <1>4, <3>1, <3>2 DEF CountItems
    <2> QED
      BY <2>1, <2>2
  <1>5. ASSUME NEW w \in Workers, SetList(w) PROVE (TitlesInv /\ TitlesUnique)'
    BY <1>5 DEF SetList, Finish, NoRequest, Locals
  <1>6. ASSUME NEW w \in Workers, NEW u \in Users, NEW i \in Items, GetStart(w, u, i) PROVE (TitlesInv /\ TitlesUnique)'
    BY <1>6 DEF GetStart, Starts, Locals
  <1>7. ASSUME NEW w \in Workers, FindItem(w) PROVE (TitlesInv /\ TitlesUnique)'
    <2>1. CASE Finish(w)
      BY <1>7, <2>1 DEF FindItem, Finish, NoRequest, Locals
    <2>2. CASE ~Finish(w)
      <3>1. /\ pc' = [pc EXCEPT ![w] = "setEntity"]
            /\ UNCHANGED <<docs, caches, history>>
            /\ req' = [req EXCEPT ![w].shown = {<<req[w].item, title[req[w].item]>>}]
        BY <1>7, <2>2 DEF FindItem
      <3>2. \A v \in Workers : req'[v].user = req[v].user /\ req'[v].item = req[v].item /\ req'[v].title = req[v].title
        BY <3>1
      <3> QED
        BY <1>7, <3>1, <3>2 DEF FindItem
    <2> QED
      BY <2>1, <2>2
  <1>8. ASSUME NEW w \in Workers, SetEntity(w) PROVE (TitlesInv /\ TitlesUnique)'
    BY <1>8 DEF SetEntity, Finish, NoRequest, Locals
  <1>9. ASSUME NEW w \in Workers, NEW u \in Authors, NEW t \in Titles, CreateStart(w, u, t) PROVE (TitlesInv /\ TitlesUnique)'
    BY <1>9 DEF CreateStart, Starts, Locals
  <1>10. ASSUME NEW w \in Workers, Insert(w) PROVE (TitlesInv /\ TitlesUnique)'
    BY <1>10 DEF Insert
  <1>11. ASSUME NEW w \in Workers, NEW u \in Users, NEW i \in Items, NEW t \in Titles, PutStart(w, u, i, t) PROVE (TitlesInv /\ TitlesUnique)'
    BY <1>11 DEF PutStart, Starts, Locals
  <1>12. ASSUME NEW w \in Workers, NEW u \in Users, NEW i \in Items, NEW t \in Titles \cup {Null, None}, PatchStart(w, u, i, t) PROVE (TitlesInv /\ TitlesUnique)'
    BY <1>12 DEF PatchStart, Starts, Locals
  <1>13. ASSUME NEW w \in Workers, CheckTitle(w) PROVE (TitlesInv /\ TitlesUnique)'
    <2>1. CASE Finish(w)
      BY <1>13, <2>1 DEF CheckTitle, Finish, NoRequest, Locals
    <2>2. CASE ~Finish(w)
      BY <1>13, <2>2 DEF CheckTitle, Undeleted
    <2> QED
      BY <2>1, <2>2
  <1>14. ASSUME NEW w \in Workers, Update(w) PROVE (TitlesInv /\ TitlesUnique)'
    BY <1>14 DEF Update
  <1>15. ASSUME NEW w \in Workers, NEW u \in Users, NEW i \in Items, DeleteStart(w, u, i) PROVE (TitlesInv /\ TitlesUnique)'
    BY <1>15 DEF DeleteStart, Starts, Locals
  <1>16. ASSUME NEW w \in Workers, SoftDelete(w) PROVE (TitlesInv /\ TitlesUnique)'
    BY <1>16 DEF SoftDelete
  <1>17. ASSUME NEW w \in Workers, DelLists(w) PROVE (TitlesInv /\ TitlesUnique)'
    <2>1. CASE Finish(w)
      BY <1>17, <2>1 DEF DelLists, Finish, NoRequest, Locals
    <2>2. CASE ~Finish(w)
      BY <1>17, <2>2 DEF DelLists, Undeleted
    <2> QED
      BY <2>1, <2>2
  <1>18. ASSUME NEW w \in Workers, DelEntity(w) PROVE (TitlesInv /\ TitlesUnique)'
    BY <1>18 DEF DelEntity, Finish, NoRequest, Locals, Undeleted
  <1>19. ASSUME NEW w \in Workers, Die(w) PROVE (TitlesInv /\ TitlesUnique)'
    BY <1>19 DEF Die, Finish, NoRequest, Locals
  <1>20. CASE Environment
    BY <1>20 DEF Environment, ListExpires, EntityExpires
  <1> QED
    BY <1>1, <1>2, <1>3, <1>4, <1>5, <1>6, <1>7, <1>8, <1>9, <1>10, <1>11, <1>12, <1>13, <1>14, <1>15, <1>16, <1>17, <1>18, <1>19, <1>20
    DEF Next, Refuse, List, Get, Create, Modify, Delete, Invalidate

(* A request that begins next to one of the other kind makes its user disturbed. *)
LEMMA ApartStep == TypeOK /\ ItemsInv /\ ApartInv /\ [Next]_vars => ApartInv'
  <1> SUFFICES ASSUME TypeOK, ItemsInv, ApartInv, [Next]_vars PROVE ApartInv'
    OBVIOUS
  <1> USE Values DEF TypeOK, Request, Labels, Reading, Writing, Dropping, Goto, docs, caches, history,
          ItemsInv, OnPath, ApartInv
  <1>1. CASE UNCHANGED vars
    BY <1>1 DEF vars
  <1>2. ASSUME NEW w \in Workers, NEW u \in Users, NEW p \in Pages, ListStart(w, u, p) PROVE ApartInv'
    BY <1>2 DEF ListStart, Starts, Locals
  <1>3. ASSUME NEW w \in Workers, FindPage(w) PROVE ApartInv'
    BY <1>3 DEF FindPage
  <1>4. ASSUME NEW w \in Workers, CountItems(w) PROVE ApartInv'
    <2>1. CASE Finish(w)
      BY <1>4, <2>1 DEF CountItems, Finish, NoRequest, Locals
    <2>2. CASE ~Finish(w)
      <3>1. /\ pc' = [pc EXCEPT ![w] = "setList"]
            /\ UNCHANGED <<docs, caches, history>>
            /\ req' = [req EXCEPT ![w].total = Cardinality(Active(req[w].user))]
        BY <1>4, <2>2 DEF CountItems
      <3>2. \A v \in Workers : req'[v].user = req[v].user /\ req'[v].item = req[v].item /\ req'[v].title = req[v].title
        BY <3>1
      <3> QED
        BY <1>4, <3>1, <3>2 DEF CountItems
    <2> QED
      BY <2>1, <2>2
  <1>5. ASSUME NEW w \in Workers, SetList(w) PROVE ApartInv'
    BY <1>5 DEF SetList, Finish, NoRequest, Locals
  <1>6. ASSUME NEW w \in Workers, NEW u \in Users, NEW i \in Items, GetStart(w, u, i) PROVE ApartInv'
    BY <1>6 DEF GetStart, Starts, Locals
  <1>7. ASSUME NEW w \in Workers, FindItem(w) PROVE ApartInv'
    <2>1. CASE Finish(w)
      BY <1>7, <2>1 DEF FindItem, Finish, NoRequest, Locals
    <2>2. CASE ~Finish(w)
      <3>1. /\ pc' = [pc EXCEPT ![w] = "setEntity"]
            /\ UNCHANGED <<docs, caches, history>>
            /\ req' = [req EXCEPT ![w].shown = {<<req[w].item, title[req[w].item]>>}]
        BY <1>7, <2>2 DEF FindItem
      <3>2. \A v \in Workers : req'[v].user = req[v].user /\ req'[v].item = req[v].item /\ req'[v].title = req[v].title
        BY <3>1
      <3> QED
        BY <1>7, <3>1, <3>2 DEF FindItem
    <2> QED
      BY <2>1, <2>2
  <1>8. ASSUME NEW w \in Workers, SetEntity(w) PROVE ApartInv'
    BY <1>8 DEF SetEntity, Finish, NoRequest, Locals
  <1>9. ASSUME NEW w \in Workers, NEW u \in Authors, NEW t \in Titles, CreateStart(w, u, t) PROVE ApartInv'
    BY <1>9 DEF CreateStart, Starts, Locals
  <1>10. ASSUME NEW w \in Workers, Insert(w) PROVE ApartInv'
    BY <1>10 DEF Insert
  <1>11. ASSUME NEW w \in Workers, NEW u \in Users, NEW i \in Items, NEW t \in Titles, PutStart(w, u, i, t) PROVE ApartInv'
    BY <1>11 DEF PutStart, Starts, Locals
  <1>12. ASSUME NEW w \in Workers, NEW u \in Users, NEW i \in Items, NEW t \in Titles \cup {Null, None}, PatchStart(w, u, i, t) PROVE ApartInv'
    BY <1>12 DEF PatchStart, Starts, Locals
  <1>13. ASSUME NEW w \in Workers, CheckTitle(w) PROVE ApartInv'
    <2>1. CASE Finish(w)
      BY <1>13, <2>1 DEF CheckTitle, Finish, NoRequest, Locals
    <2>2. CASE ~Finish(w)
      BY <1>13, <2>2 DEF CheckTitle, Undeleted
    <2> QED
      BY <2>1, <2>2
  <1>14. ASSUME NEW w \in Workers, Update(w) PROVE ApartInv'
    BY <1>14 DEF Update
  <1>15. ASSUME NEW w \in Workers, NEW u \in Users, NEW i \in Items, DeleteStart(w, u, i) PROVE ApartInv'
    BY <1>15 DEF DeleteStart, Starts, Locals
  <1>16. ASSUME NEW w \in Workers, SoftDelete(w) PROVE ApartInv'
    BY <1>16 DEF SoftDelete
  <1>17. ASSUME NEW w \in Workers, DelLists(w) PROVE ApartInv'
    <2>1. disturbed \subseteq disturbed'
      BY <1>17 DEF DelLists, Undeleted
    <2>2. CASE Finish(w)
      BY <1>17, <2>1, <2>2 DEF DelLists, Finish, NoRequest, Locals
    <2>3. CASE ~Finish(w)
      BY <1>17, <2>1, <2>3 DEF DelLists
    <2> QED
      BY <2>2, <2>3
  <1>18. ASSUME NEW w \in Workers, DelEntity(w) PROVE ApartInv'
    BY <1>18 DEF DelEntity, Finish, NoRequest, Locals, Undeleted
  <1>19. ASSUME NEW w \in Workers, Die(w) PROVE ApartInv'
    BY <1>19 DEF Die, Finish, NoRequest, Locals
  <1>20. CASE Environment
    BY <1>20 DEF Environment, ListExpires, EntityExpires
  <1> QED
    BY <1>1, <1>2, <1>3, <1>4, <1>5, <1>6, <1>7, <1>8, <1>9, <1>10, <1>11, <1>12, <1>13, <1>14, <1>15, <1>16, <1>17, <1>18, <1>19, <1>20
    DEF Next, Refuse, List, Get, Create, Modify, Delete, Invalidate

(* What gets into a cache is of the user whose key it gets. *)
LEMMA PrivateStep == TypeOK /\ ItemsInv /\ CachesPrivate /\ [Next]_vars => CachesPrivate'
  <1> SUFFICES ASSUME TypeOK, ItemsInv, CachesPrivate, [Next]_vars PROVE CachesPrivate'
    OBVIOUS
  <1> USE Values DEF TypeOK, Request, Labels, Reading, Writing, Dropping, Goto, docs, caches, history,
          ItemsInv, StoredInv, OnPath, OwnInv, CachesPrivate
  <1>1. CASE UNCHANGED vars
    BY <1>1 DEF vars
  <1>2. ASSUME NEW w \in Workers, NEW u \in Users, NEW p \in Pages, ListStart(w, u, p) PROVE CachesPrivate'
    BY <1>2 DEF ListStart, Starts, Locals
  <1>3. ASSUME NEW w \in Workers, FindPage(w) PROVE CachesPrivate'
    BY <1>3 DEF FindPage
  <1>4. ASSUME NEW w \in Workers, CountItems(w) PROVE CachesPrivate'
    <2>1. CASE Finish(w)
      BY <1>4, <2>1 DEF CountItems, Finish, NoRequest, Locals
    <2>2. CASE ~Finish(w)
      BY <1>4, <2>2 DEF CountItems, Undeleted
    <2> QED
      BY <2>1, <2>2
  <1>5. ASSUME NEW w \in Workers, SetList(w) PROVE CachesPrivate'
    <2> DEFINE page == [shown |-> req[w].shown, total |-> req[w].total]
    <2>1. UNCHANGED <<owner, entity>>
      BY <1>5 DEF SetList
    <2>2. req[w].user \in Users /\ req[w].page \in Pages
      BY <1>5 DEF SetList
    <2>3. \A x \in page.shown : owner[x[1]] = req[w].user
      BY <1>5 DEF SetList
    <2>4. list' = list \/ list' = [list EXCEPT ![req[w].user][req[w].page] = page]
      BY <1>5 DEF SetList
    <2>5. \A u \in Users, p \in Pages :
            list'[u][p] = list[u][p] \/ (u = req[w].user /\ list'[u][p] = page)
      <3> HIDE DEF page
      <3> QED
        BY <2>2, <2>4
    <2> HIDE DEF page
    <2> QED
      BY <2>1, <2>3, <2>5
  <1>6. ASSUME NEW w \in Workers, NEW u \in Users, NEW i \in Items, GetStart(w, u, i) PROVE CachesPrivate'
    BY <1>6 DEF GetStart, Starts, Locals
  <1>7. ASSUME NEW w \in Workers, FindItem(w) PROVE CachesPrivate'
    <2>1. CASE Finish(w)
      BY <1>7, <2>1 DEF FindItem, Finish, NoRequest, Locals
    <2>2. CASE ~Finish(w)
      BY <1>7, <2>2 DEF FindItem, Undeleted
    <2> QED
      BY <2>1, <2>2
  <1>8. ASSUME NEW w \in Workers, SetEntity(w) PROVE CachesPrivate'
    <2>1. CASE UNCHANGED entity
      BY <1>8, <2>1 DEF SetEntity
    <2>2. CASE ~UNCHANGED entity
      <3>1. PICK x \in req[w].shown : entity' = [entity EXCEPT ![req[w].user][x[1]] = x[2]]
        BY <1>8, <2>2 DEF SetEntity
      <3>2. req[w].user \in Users /\ x[1] = req[w].item /\ x[1] \in Items /\ owner[x[1]] = req[w].user
        BY <1>8, <3>1 DEF SetEntity
      <3>3. \A u \in Users, i \in Items : entity'[u][i] # entity[u][i] => u = req[w].user /\ i = x[1]
        BY <3>1, <3>2
      <3> QED
        BY <1>8, <3>2, <3>3 DEF SetEntity
    <2> QED
      BY <2>1, <2>2
  <1>9. ASSUME NEW w \in Workers, NEW u \in Authors, NEW t \in Titles, CreateStart(w, u, t) PROVE CachesPrivate'
    BY <1>9 DEF CreateStart, Starts, Locals
  <1>10. ASSUME NEW w \in Workers, Insert(w) PROVE CachesPrivate'
    BY <1>10 DEF Insert
  <1>11. ASSUME NEW w \in Workers, NEW u \in Users, NEW i \in Items, NEW t \in Titles, PutStart(w, u, i, t) PROVE CachesPrivate'
    BY <1>11 DEF PutStart, Starts, Locals
  <1>12. ASSUME NEW w \in Workers, NEW u \in Users, NEW i \in Items, NEW t \in Titles \cup {Null, None}, PatchStart(w, u, i, t) PROVE CachesPrivate'
    BY <1>12 DEF PatchStart, Starts, Locals
  <1>13. ASSUME NEW w \in Workers, CheckTitle(w) PROVE CachesPrivate'
    <2>1. CASE Finish(w)
      BY <1>13, <2>1 DEF CheckTitle, Finish, NoRequest, Locals
    <2>2. CASE ~Finish(w)
      BY <1>13, <2>2 DEF CheckTitle, Undeleted
    <2> QED
      BY <2>1, <2>2
  <1>14. ASSUME NEW w \in Workers, Update(w) PROVE CachesPrivate'
    BY <1>14 DEF Update
  <1>15. ASSUME NEW w \in Workers, NEW u \in Users, NEW i \in Items, DeleteStart(w, u, i) PROVE CachesPrivate'
    BY <1>15 DEF DeleteStart, Starts, Locals
  <1>16. ASSUME NEW w \in Workers, SoftDelete(w) PROVE CachesPrivate'
    BY <1>16 DEF SoftDelete
  <1>17. ASSUME NEW w \in Workers, DelLists(w) PROVE CachesPrivate'
    <2>1. \A u \in Users, p \in Pages : list'[u][p] \in {list[u][p], NoKey}
      <3> DEFINE empty == [p \in Pages |-> NoKey]
      <3>1. list' = list \/ list' = [list EXCEPT ![req[w].user] = empty]
        BY <1>17 DEF DelLists
      <3>2. \A p \in Pages : empty[p] = NoKey
        OBVIOUS
      <3> HIDE DEF empty
      <3> QED
        BY <3>1, <3>2
    <2> QED
      BY <1>17, <2>1 DEF DelLists
  <1>18. ASSUME NEW w \in Workers, DelEntity(w) PROVE CachesPrivate'
    BY <1>18 DEF DelEntity, Finish, NoRequest, Locals, Undeleted
  <1>19. ASSUME NEW w \in Workers, Die(w) PROVE CachesPrivate'
    BY <1>19 DEF Die, Finish, NoRequest, Locals
  <1>20. CASE Environment
    <2>1. \A u \in Users, p \in Pages : list'[u][p] \in {list[u][p], NoKey}
      <3>1. CASE UNCHANGED list
        BY <3>1
      <3>2. CASE ~UNCHANGED list
        <4>1. PICK u \in Users, p \in Pages : list' = [list EXCEPT ![u][p] = NoKey]
          BY <1>20, <3>2 DEF Environment, ListExpires, EntityExpires
        <4> QED
          BY <4>1
      <3> QED
        BY <3>1, <3>2
    <2>2. \A u \in Users, i \in Items : entity'[u][i] \in {entity[u][i], NoKey}
      BY <1>20 DEF Environment, ListExpires, EntityExpires
    <2>3. UNCHANGED docs
      BY <1>20 DEF Environment, ListExpires, EntityExpires
    <2> QED
      BY <2>1, <2>2, <2>3
  <1> QED
    BY <1>1, <1>2, <1>3, <1>4, <1>5, <1>6, <1>7, <1>8, <1>9, <1>10, <1>11, <1>12, <1>13, <1>14, <1>15, <1>16, <1>17, <1>18, <1>19, <1>20
    DEF Next, Refuse, List, Get, Create, Modify, Delete, Invalidate

-----------------------------------------------------------------------------
(* Caches and database *)

(* A request that leaves the documents alone, or changes those of another user,
   leaves the pages of a user alone. *)
LEMMA SamePages ==
  ASSUME NEW u, Active(u)' = Active(u),
         \A i \in Active(u) : title'[i] = title[i] /\ created'[i] = created[i]
  PROVE  \A p : OnPage(u, p)' = OnPage(u, p)
  <1> TAKE p
  <1>1. PICK S : S = Active(u) /\ S = Active(u)'
    OBVIOUS
  <1>2. \A n : Heads(S, n)' = Heads(S, n)
    BY <1>1 DEF Heads
  <1>3. Slices(S, p)' = Slices(S, p)
    BY <1>2 DEF Slices
  <1>4. \A P \in Slices(S, p) : {<<i, title'[i]>> : i \in P} = {<<i, title[i]>> : i \in P}
    <2> TAKE P \in Slices(S, p)
    <2>1. \A i \in P : title'[i] = title[i]
      BY <1>1 DEF Slices
    <2> QED
      BY <2>1
  <1>5. {{<<i, title'[i]>> : i \in P} : P \in Slices(S, p)} = {{<<i, title[i]>> : i \in P} : P \in Slices(S, p)}
    BY <1>4
  <1>6. OnPage(u, p)' = {{<<i, title'[i]>> : i \in P} : P \in Slices(S, p)'}
    BY <1>1 DEF OnPage
  <1>7. OnPage(u, p) = {{<<i, title[i]>> : i \in P} : P \in Slices(S, p)}
    BY <1>1 DEF OnPage
  <1> QED
    BY <1>3, <1>5, <1>6, <1>7

(* Steps that leave the documents alone leave the pages alone. *)
LEMMA DocsUnchanged ==
  UNCHANGED docs => \A u : Active(u)' = Active(u) /\ \A p : OnPage(u, p)' = OnPage(u, p)
  BY SamePages DEF docs, Active

(* A change leaves the pages of the other users alone. *)
LEMMA OthersUnchanged ==
  ASSUME TypeOK, ItemsInv, NEW w \in Workers, Insert(w) \/ Update(w) \/ SoftDelete(w)
  PROVE  \A u \in Users \ {req[w].user} :
           /\ Active(u)' = Active(u)
           /\ \A p : OnPage(u, p)' = OnPage(u, p)
           /\ \A i \in Active(u) : title'[i] = title[i]
  <1> SUFFICES ASSUME NEW u \in Users, u # req[w].user
               PROVE  /\ Active(u)' = Active(u)
                      /\ \A i \in Active(u) : title'[i] = title[i] /\ created'[i] = created[i]
    BY SamePages
  <1> USE Values DEF TypeOK, ItemsInv, StoredInv, OnPath, OwnInv, Active, Writing
  <1>1. CASE Insert(w)
    BY <1>1 DEF Insert
  <1>2. CASE Update(w)
    BY <1>2 DEF Update
  <1>3. CASE SoftDelete(w)
    BY <1>3 DEF SoftDelete
  <1> QED
    BY <1>1, <1>2, <1>3

(* A step of a request leaves the others alone, and it is a read, a change, or
   neither. *)
Step(w) ==
  List(w) \/ Get(w) \/ Create(w) \/ Modify(w) \/ Delete(w) \/ Invalidate(w) \/ Die(w)

LEMMA Frame ==
  ASSUME TypeOK, NEW w \in Workers, Step(w)
  PROVE  /\ disturbed \subseteq disturbed'
         /\ \A v \in Workers \ {w} : pc'[v] = pc[v] /\ req'[v] = req[v]
         /\ UNCHANGED docs \/ Insert(w) \/ Update(w) \/ SoftDelete(w)
         /\ FindPage(w) \/ CountItems(w) \/ FindItem(w) \/ pc'[w] \notin {"count", "setList", "setEntity"}
         /\ SetList(w) \/ DelLists(w) \/ Die(w) \/ (UNCHANGED list /\ pc[w] # "delLists")
         /\ SetEntity(w) \/ DelLists(w) \/ DelEntity(w) \/ Die(w) \/ (UNCHANGED entity /\ pc[w] \notin Dropping)
  <1> DEFINE Goal ==
         /\ disturbed \subseteq disturbed'
         /\ \A v \in Workers \ {w} : pc'[v] = pc[v] /\ req'[v] = req[v]
         /\ (UNCHANGED docs \/ Insert(w) \/ Update(w) \/ SoftDelete(w))
         /\ (FindPage(w) \/ CountItems(w) \/ FindItem(w) \/ pc'[w] \notin {"count", "setList", "setEntity"})
         /\ (SetList(w) \/ DelLists(w) \/ Die(w) \/ (UNCHANGED list /\ pc[w] # "delLists"))
         /\ (SetEntity(w) \/ DelLists(w) \/ DelEntity(w) \/ Die(w) \/ (UNCHANGED entity /\ pc[w] \notin Dropping))
  <1> SUFFICES Goal
    OBVIOUS
  <1> USE DEF TypeOK, docs, caches, history, Goto, Dropping
  <1>1. ASSUME NEW u \in Users, NEW p \in Pages, ListStart(w, u, p) PROVE Goal
    BY <1>1 DEF ListStart, Starts
  <1>2. ASSUME FindPage(w) PROVE Goal
    BY <1>2 DEF FindPage
  <1>3. ASSUME CountItems(w) PROVE Goal
    BY <1>3 DEF CountItems, Finish
  <1>4. ASSUME SetList(w) PROVE Goal
    BY <1>4 DEF SetList, Finish
  <1>5. ASSUME NEW u \in Users, NEW i \in Items, GetStart(w, u, i) PROVE Goal
    BY <1>5 DEF GetStart, Starts
  <1>6. ASSUME FindItem(w) PROVE Goal
    BY <1>6 DEF FindItem, Finish
  <1>7. ASSUME SetEntity(w) PROVE Goal
    BY <1>7 DEF SetEntity, Finish
  <1>8. ASSUME NEW u \in Authors, NEW t \in Titles, CreateStart(w, u, t) PROVE Goal
    BY <1>8 DEF CreateStart, Starts
  <1>9. ASSUME Insert(w) PROVE Goal
    BY <1>9 DEF Insert
  <1>10. ASSUME NEW u \in Users, NEW i \in Items, NEW t \in Titles, PutStart(w, u, i, t) PROVE Goal
    BY <1>10 DEF PutStart, Starts
  <1>11. ASSUME NEW u \in Users, NEW i \in Items, NEW t \in Titles \cup {Null, None}, PatchStart(w, u, i, t) PROVE Goal
    BY <1>11 DEF PatchStart, Starts
  <1>12. ASSUME CheckTitle(w) PROVE Goal
    BY <1>12 DEF CheckTitle, Finish
  <1>13. ASSUME Update(w) PROVE Goal
    BY <1>13 DEF Update
  <1>14. ASSUME NEW u \in Users, NEW i \in Items, DeleteStart(w, u, i) PROVE Goal
    BY <1>14 DEF DeleteStart, Starts
  <1>15. ASSUME SoftDelete(w) PROVE Goal
    BY <1>15 DEF SoftDelete
  <1>16. ASSUME DelLists(w) PROVE Goal
    BY <1>16 DEF DelLists, Finish, Undeleted
  <1>17. ASSUME DelEntity(w) PROVE Goal
    BY <1>17 DEF DelEntity, Finish, Undeleted
  <1>18. ASSUME Die(w) PROVE Goal
    BY <1>18 DEF Die, Finish
  <1> HIDE DEF Goal
  <1> QED
    BY <1>1, <1>2, <1>3, <1>4, <1>5, <1>6, <1>7, <1>8, <1>9, <1>10, <1>11, <1>12, <1>13, <1>14, <1>15, <1>16, <1>17, <1>18
    DEF Step, List, Get, Create, Modify, Delete, Invalidate

(* What an undisturbed reader holds stays what is stored. *)
LEMMA FreshStep == TypeOK /\ ItemsInv /\ ApartInv /\ FreshInv /\ [Next]_vars => FreshInv'
  <1> SUFFICES ASSUME TypeOK, ItemsInv, ApartInv, FreshInv, [Next]_vars,
                      NEW v \in Workers, NEW u \in Users \ disturbed', req'[v].user = u
               PROVE  Fresh(v, u)'
    BY DEF FreshInv
  <1> DEFINE Kept == /\ Active(u)' = Active(u)
                     /\ \A p : OnPage(u, p)' = OnPage(u, p)
                     /\ \A i \in Active(u) : title'[i] = title[i]
  <1>1. ASSUME Kept, u \notin disturbed, pc'[v] = pc[v], req'[v] = req[v] PROVE Fresh(v, u)'
    BY <1>1 DEF FreshInv, Fresh
  <1>2. UNCHANGED docs => Kept
    BY DocsUnchanged DEF docs
  <1>3. ASSUME pc'[v] \notin {"count", "setList", "setEntity"} PROVE Fresh(v, u)'
    BY <1>3 DEF Fresh
  <1>4. CASE UNCHANGED vars
    BY <1>1, <1>2, <1>4 DEF vars, history
  <1>5. CASE Environment
    BY <1>1, <1>2, <1>5 DEF Environment, ListExpires, EntityExpires, docs, history
  <1>6. ASSUME NEW w \in Workers, Step(w) PROVE Fresh(v, u)'
    <2>1. u \in Users \ disturbed
      BY <1>6, Frame
    <2>2. CASE Insert(w) \/ Update(w) \/ SoftDelete(w)
      <3>1. pc[w] \in Writing /\ pc'[w] = "delLists" /\ req'[w].user = req[w].user
        BY <2>2 DEF Insert, Update, SoftDelete, Goto, Writing, TypeOK, Request
      <3>2. CASE req[w].user = u
        <4>1. v # w => pc[v] \notin Reading
          BY <1>6, <2>1, <3>1, <3>2, Frame DEF ApartInv
        <4> QED
          BY <1>3, <1>6, <3>1, <4>1, Frame DEF Reading
      <3>3. CASE req[w].user # u
        <4>1. Kept
          BY <2>1, <2>2, <3>3, OthersUnchanged
        <4> QED
          BY <1>1, <1>3, <1>6, <2>1, <3>1, <4>1, Frame
      <3> QED
        BY <3>2, <3>3
    <2>3. CASE UNCHANGED docs
      <3>1. Kept
        BY <1>2, <2>3
      <3>2. CASE v # w
        BY <1>1, <1>6, <2>1, <3>1, <3>2, Frame
      <3>3. CASE v = w /\ FindPage(w)
        <4>1. /\ pc'[w] = "count" /\ req'[w].user = u /\ req'[w].page = req[w].page
              /\ req'[w].shown \in OnPage(req[w].user, req[w].page) /\ req[w].user = u
          BY <3>3 DEF FindPage, Goto, TypeOK, Request
        <4>2. \A p \in Pages : req'[w].page = p => req'[w].shown \in OnPage(u, p)'
          BY <3>1, <4>1
        <4> QED
          BY <3>3, <4>1, <4>2 DEF Fresh
      <3>4. CASE v = w /\ CountItems(w)
        <4>1. CASE Finish(w)
          BY <1>3, <3>4, <4>1 DEF Finish, Goto, TypeOK
        <4>2. CASE ~Finish(w)
          <5>1. /\ pc[w] = "count" /\ pc' = [pc EXCEPT ![w] = "setList"]
                /\ req' = [req EXCEPT ![w].total = Cardinality(Active(req[w].user))]
            BY <3>4, <4>2 DEF CountItems, Goto
          <5>2. /\ pc'[w] = "setList" /\ req'[w].page = req[w].page /\ req'[w].shown = req[w].shown
                /\ req'[w].total = Cardinality(Active(req[w].user)) /\ req[w].user = u
            BY <3>4, <5>1 DEF TypeOK, Request
          <5>3. req'[w].total = Cardinality(Active(u))'
            BY <3>1, <5>2
          <5>4. \A p \in Pages : req[w].page = p => req[w].shown \in OnPage(u, p)
            BY <2>1, <5>1, <5>2 DEF FreshInv, Fresh
          <5>5. \A p \in Pages : req'[w].page = p => req'[w].shown \in OnPage(u, p)'
            BY <3>1, <5>2, <5>4
          <5> QED
            BY <3>4, <5>2, <5>3, <5>5 DEF Fresh
        <4> QED
          BY <4>1, <4>2
      <3>5. CASE v = w /\ FindItem(w)
        <4>1. CASE Finish(w)
          BY <1>3, <3>5, <4>1 DEF Finish, Goto, TypeOK
        <4>2. CASE ~Finish(w)
          <5>1. /\ pc' = [pc EXCEPT ![w] = "setEntity"]
                /\ req[w].item \in Active(req[w].user)
                /\ req' = [req EXCEPT ![w].shown = {<<req[w].item, title[req[w].item]>>}]
            BY <3>5, <4>2 DEF FindItem, Goto
          <5>2. /\ pc'[w] = "setEntity" /\ req'[w].item = req[w].item /\ req[w].user = u
                /\ req'[w].shown = {<<req[w].item, title[req[w].item]>>}
            BY <3>5, <5>1 DEF TypeOK, Request
          <5>3. \A i \in Items : req'[w].item = i => i \in Active(u)' /\ req'[w].shown = {<<i, title'[i]>>}
            BY <2>3, <3>1, <5>1, <5>2 DEF docs
          <5> QED
            BY <3>5, <5>2, <5>3 DEF Fresh
        <4> QED
          BY <4>1, <4>2
      <3> QED
        BY <1>3, <1>6, <3>2, <3>3, <3>4, <3>5, Frame
    <2> QED
      BY <1>6, <2>2, <2>3, Frame
  <1> QED
    BY <1>4, <1>5, <1>6 DEF Next, Refuse, Step

(* A change is followed by the deletion of the user's pages, and nothing stale is put back. *)
LEMMA ListsStep == TypeOK /\ ItemsInv /\ ApartInv /\ FreshInv /\ ListsCoherent /\ [Next]_vars => ListsCoherent'
  <1> DEFINE Cached(u, p) == \/ list[u][p] = NoKey
                             \/ /\ list[u][p].shown \in OnPage(u, p)
                                /\ list[u][p].total = Cardinality(Active(u))
             Due(u) == \E w \in Workers : pc[w] = "delLists" /\ req[w].user = u
  <1> SUFFICES ASSUME TypeOK, ItemsInv, ApartInv, FreshInv, ListsCoherent, [Next]_vars,
                      NEW u \in Users \ disturbed', NEW p \in Pages
               PROVE  Cached(u, p)' \/ Due(u)'
    BY DEF ListsCoherent
  <1> DEFINE Kept == /\ Active(u)' = Active(u)
                     /\ \A q : OnPage(u, q)' = OnPage(u, q)
  <1>1. ASSUME Kept, u \notin disturbed, list'[u][p] \in {list[u][p], NoKey},
               \A v \in Workers : pc[v] = "delLists" /\ req[v].user = u => pc'[v] = pc[v] /\ req'[v] = req[v]
        PROVE  Cached(u, p)' \/ Due(u)'
    BY <1>1 DEF ListsCoherent
  <1>2. UNCHANGED docs => Kept
    BY DocsUnchanged DEF docs
  <1>3. CASE UNCHANGED vars
    BY <1>1, <1>2, <1>3 DEF vars, history, caches
  <1>4. CASE Environment
    <2>1. UNCHANGED <<docs, history, pc, req>>
      BY <1>4 DEF Environment, ListExpires, EntityExpires
    <2>2. list' = list \/ \E v \in Users, q \in Pages : list' = [list EXCEPT ![v][q] = NoKey]
      BY <1>4 DEF Environment, ListExpires, EntityExpires
    <2>3. list'[u][p] \in {list[u][p], NoKey}
      <3>1. CASE UNCHANGED list
        BY <3>1
      <3>2. CASE ~UNCHANGED list
        <4>1. PICK v \in Users, q \in Pages : list' = [list EXCEPT ![v][q] = NoKey]
          BY <2>2, <3>2
        <4> QED
          BY <4>1 DEF TypeOK
      <3> QED
        BY <3>1, <3>2
    <2> QED
      BY <1>1, <1>2, <2>1, <2>3 DEF history
  <1>5. ASSUME NEW w \in Workers, Step(w) PROVE Cached(u, p)' \/ Due(u)'
    <2>1. u \in Users \ disturbed
      BY <1>5, Frame
    <2>2. CASE Insert(w) \/ Update(w) \/ SoftDelete(w)
      <3>1. pc[w] # "delLists" /\ pc'[w] = "delLists" /\ req'[w].user = req[w].user /\ UNCHANGED list
        BY <2>2 DEF Insert, Update, SoftDelete, Goto, TypeOK, Request, caches
      <3>2. CASE req[w].user = u
        BY <3>1, <3>2
      <3>3. CASE req[w].user # u
        <4>1. Kept
          BY <2>1, <2>2, <3>3, OthersUnchanged
        <4> QED
          BY <1>1, <1>5, <2>1, <3>1, <4>1, Frame
      <3> QED
        BY <3>2, <3>3
    <2>3. CASE UNCHANGED docs
      <3>1. Kept
        BY <1>2, <2>3
      <3>2. CASE SetList(w)
        <4> DEFINE page == [shown |-> req[w].shown, total |-> req[w].total]
        <4>1. pc[w] = "setList"
          BY <3>2 DEF SetList
        <4>2. req[w].user \in Users /\ req[w].page \in Pages
          BY <4>1 DEF ItemsInv, OnPath
        <4>3. list' = list \/ list' = [list EXCEPT ![req[w].user][req[w].page] = page]
          BY <3>2 DEF SetList
        <4>4. CASE list'[u][p] = list[u][p]
          BY <1>1, <1>5, <2>1, <3>1, <4>1, <4>4, Frame
        <4>5. CASE list'[u][p] # list[u][p]
          <5>1. u = req[w].user /\ p = req[w].page /\ list'[u][p] = page
            <6> HIDE DEF page
            <6> QED
              BY <4>2, <4>3, <4>5 DEF TypeOK
          <5>2. page.shown \in OnPage(u, p) /\ page.total = Cardinality(Active(u))
            BY <2>1, <4>1, <5>1 DEF FreshInv, Fresh
          <5>3. OnPage(u, p)' = OnPage(u, p) /\ Active(u)' = Active(u)
            BY <3>1
          <5> QED
            BY <5>1, <5>2, <5>3
        <4> QED
          BY <4>4, <4>5
      <3>3. CASE DelLists(w)
        <4> DEFINE empty == [q \in Pages |-> NoKey]
        <4>1. \/ list' = [list EXCEPT ![req[w].user] = empty]
              \/ list' = list /\ disturbed' = disturbed \cup {req[w].user}
          BY <3>3 DEF DelLists, Undeleted
        <4>2. empty[p] = NoKey
          OBVIOUS
        <4>3. req[w].user = u => list'[u][p] = NoKey
          <5> HIDE DEF empty
          <5> QED
            BY <4>1, <4>2 DEF TypeOK
        <4>4. req[w].user # u => list'[u][p] = list[u][p]
          <5> HIDE DEF empty
          <5> QED
            BY <4>1 DEF TypeOK
        <4> QED
          BY <1>1, <1>5, <2>1, <3>1, <4>3, <4>4, Frame
      <3>4. CASE Die(w)
        <4>1. UNCHANGED list /\ (pc[w] = "delLists" => req[w].user # u)
          BY <3>4 DEF Die, Dropping, caches
        <4> QED
          BY <1>1, <1>5, <2>1, <3>1, <4>1, Frame
      <3>5. CASE UNCHANGED list /\ pc[w] # "delLists"
        BY <1>1, <1>5, <2>1, <3>1, <3>5, Frame
      <3> QED
        BY <1>5, <3>2, <3>3, <3>4, <3>5, Frame
    <2> QED
      BY <1>5, <2>2, <2>3, Frame
  <1> QED
    BY <1>3, <1>4, <1>5 DEF Next, Refuse, Step

(* The same of the single items. *)
LEMMA EntitiesStep == TypeOK /\ ItemsInv /\ ApartInv /\ FreshInv /\ EntitiesCoherent /\ [Next]_vars => EntitiesCoherent'
  <1> DEFINE Cached(u, i) == entity[u][i] = NoKey \/ (i \in Active(u) /\ entity[u][i] = title[i])
             Due(u, i) == \E w \in Workers : pc[w] \in Dropping /\ req[w].user = u /\ req[w].item = i
  <1> SUFFICES ASSUME TypeOK, ItemsInv, ApartInv, FreshInv, EntitiesCoherent, [Next]_vars,
                      NEW u \in Users \ disturbed', NEW i \in Items
               PROVE  Cached(u, i)' \/ Due(u, i)'
    BY DEF EntitiesCoherent
  <1> DEFINE Kept == i \in Active(u) => i \in Active(u)' /\ title'[i] = title[i]
  <1>1. ASSUME Kept, u \notin disturbed, entity'[u][i] \in {entity[u][i], NoKey},
               \A v \in Workers : pc[v] \in Dropping /\ req[v].user = u /\ req[v].item = i =>
                 pc'[v] \in Dropping /\ req'[v] = req[v]
        PROVE  Cached(u, i)' \/ Due(u, i)'
    BY <1>1 DEF EntitiesCoherent
  <1>2. UNCHANGED docs => Kept
    BY DocsUnchanged DEF docs
  <1>3. CASE UNCHANGED vars
    BY <1>1, <1>2, <1>3 DEF vars, history, caches
  <1>4. CASE Environment
    <2>1. UNCHANGED <<docs, history, pc, req>>
      BY <1>4 DEF Environment, ListExpires, EntityExpires
    <2>2. entity' = entity \/ \E v \in Users, j \in Items : entity' = [entity EXCEPT ![v][j] = NoKey]
      BY <1>4 DEF Environment, ListExpires, EntityExpires
    <2>3. entity'[u][i] \in {entity[u][i], NoKey}
      <3>1. CASE UNCHANGED entity
        BY <3>1
      <3>2. CASE ~UNCHANGED entity
        <4>1. PICK v \in Users, j \in Items : entity' = [entity EXCEPT ![v][j] = NoKey]
          BY <2>2, <3>2
        <4> QED
          BY <4>1 DEF TypeOK
      <3> QED
        BY <3>1, <3>2
    <2> QED
      BY <1>1, <1>2, <2>1, <2>3 DEF history
  <1>5. ASSUME NEW w \in Workers, Step(w) PROVE Cached(u, i)' \/ Due(u, i)'
    <2>1. u \in Users \ disturbed
      BY <1>5, Frame
    <2>2. CASE Insert(w) \/ Update(w) \/ SoftDelete(w)
      <3>1. /\ pc[w] \notin Dropping /\ pc'[w] = "delLists" /\ UNCHANGED entity
            /\ req'[w].user = req[w].user /\ req'[w].item = req[w].item
        BY <2>2 DEF Insert, Update, SoftDelete, Goto, TypeOK, Request, caches, Dropping
      <3>2. CASE req[w].user = u /\ req[w].item = i
        BY <3>1, <3>2 DEF Dropping
      <3>3. CASE ~(req[w].user = u /\ req[w].item = i)
        <4>1. Kept
          BY <2>2, <3>3, Values
          DEF Insert, Update, SoftDelete, Active, TypeOK, ItemsInv, OnPath, OwnInv, StoredInv, Writing
        <4> QED
          BY <1>1, <1>5, <2>1, <3>1, <4>1, Frame
      <3> QED
        BY <3>2, <3>3
    <2>3. CASE UNCHANGED docs
      <3>1. Kept
        BY <1>2, <2>3
      <3>2. CASE SetEntity(w)
        <4>1. pc[w] = "setEntity" /\ pc[w] \notin Dropping
          BY <3>2 DEF SetEntity, Dropping
        <4>2. CASE entity'[u][i] = entity[u][i]
          BY <1>1, <1>5, <2>1, <3>1, <4>1, <4>2, Frame
        <4>3. CASE entity'[u][i] # entity[u][i]
          <5>1. PICK x \in req[w].shown : entity' = [entity EXCEPT ![req[w].user][x[1]] = x[2]]
            BY <3>2, <4>3 DEF SetEntity
          <5>2. req[w].user \in Users /\ req[w].item \in Items /\ x[1] = req[w].item
            BY <4>1, <5>1 DEF ItemsInv, OnPath, OwnInv
          <5>3. u = req[w].user /\ i = req[w].item /\ entity'[u][i] = x[2]
            BY <4>3, <5>1, <5>2 DEF TypeOK
          <5>4. i \in Active(u) /\ x = <<i, title[i]>>
            BY <2>1, <4>1, <5>1, <5>3 DEF FreshInv, Fresh
          <5> QED
            BY <3>1, <5>3, <5>4
        <4> QED
          BY <4>2, <4>3
      <3>3. CASE DelLists(w)
        <4>1. UNCHANGED entity /\ (req[w].item = i => pc'[w] = "delEntity" /\ req' = req)
          BY <3>3, Values DEF DelLists, Goto, TypeOK
        <4> QED
          BY <1>1, <1>5, <2>1, <3>1, <4>1, Frame DEF Dropping
      <3>4. CASE DelEntity(w)
        <4>1. \/ entity' = [v \in Users |-> [entity[v] EXCEPT ![req[w].item] = NoKey]]
              \/ entity' = entity /\ disturbed' = disturbed \cup {req[w].user}
          BY <3>4 DEF DelEntity, Undeleted
        <4>2. entity'[u][i] \in {entity[u][i], NoKey}
          BY <4>1 DEF TypeOK
        <4>3. req[w].user = u /\ req[w].item = i => entity'[u][i] = NoKey
          BY <4>1 DEF TypeOK
        <4> QED
          BY <1>1, <1>5, <2>1, <3>1, <4>2, <4>3, Frame
      <3>5. CASE Die(w)
        <4>1. UNCHANGED entity /\ (pc[w] \in Dropping => req[w].user # u)
          BY <3>5 DEF Die, caches
        <4> QED
          BY <1>1, <1>5, <2>1, <3>1, <4>1, Frame
      <3>6. CASE UNCHANGED entity /\ pc[w] \notin Dropping
        BY <1>1, <1>5, <2>1, <3>1, <3>6, Frame
      <3> QED
        BY <1>5, <3>2, <3>3, <3>4, <3>5, <3>6, Frame
    <2> QED
      BY <1>5, <2>2, <2>3, Frame
  <1> QED
    BY <1>3, <1>4, <1>5 DEF Next, Refuse, Step

-----------------------------------------------------------------------------
(* The invariant and what it says *)

IInv ==
  /\ TypeOK
  /\ ItemsInv
  /\ TitlesInv /\ TitlesUnique
  /\ ApartInv /\ FreshInv
  /\ ListsCoherent /\ EntitiesCoherent
  /\ CachesPrivate

(* The initial state satisfies the invariant. *)
LEMMA InitInv == Init => IInv
  <1> SUFFICES ASSUME Init PROVE IInv
    OBVIOUS
  <1> USE Values DEF Init
  <1>1. NoRequest \in Request
    BY DEF NoRequest, Locals, Request
  <1>2. TypeOK
    BY <1>1 DEF TypeOK, Labels
  <1>3. ItemsInv
    BY DEF ItemsInv, StoredInv, OnPath, OwnInv, NoRequest, Locals, Writing
  <1>4. TitlesInv /\ TitlesUnique /\ ApartInv
    BY DEF TitlesInv, TitlesUnique, ApartInv, Active, NoRequest, Locals, Reading
  <1>5. FreshInv
    BY DEF FreshInv, NoRequest, Locals
  <1>6. ListsCoherent /\ EntitiesCoherent /\ CachesPrivate
    BY DEF ListsCoherent, EntitiesCoherent, CachesPrivate
  <1> QED
    BY <1>2, <1>3, <1>4, <1>5, <1>6 DEF IInv

(* The inductive invariant: every step of every request, and every fault, keeps it. *)
THEOREM Invariance == Spec => []IInv
  <1>1. IInv /\ [Next]_vars => IInv'
    BY TypeStep, StoredStep, OnPathStep, OwnStep, TitlesStep, ApartStep, FreshStep, ListsStep,
       EntitiesStep, PrivateStep
    DEF IInv, ItemsInv
  <1> QED
    BY <1>1, InitInv, PTL DEF Spec

(* Every variable keeps its type, and no null gets into a cache (schemas.py:84-92). *)
THEOREM TypeCorrectness == Spec => []TypeOK
  <1>1. IInv => TypeOK
    BY DEF IInv
  <1> QED
    BY <1>1, Invariance, PTL

(* Only two requests that overlap give a user two active items with one title
   (service.py:75-82, 105-113, 134-143). *)
THEOREM TitlesStayUnique == Spec => []TitlesUnique
  <1>1. IInv => TitlesUnique
    BY DEF IInv
  <1> QED
    BY <1>1, Invariance, PTL

(* Only overlaps of reads with changes and failures between a change and its
   invalidation leave a stale page in the cache, in whatever order created_at puts the
   items (service.py:28-54, repository.py:41-53). *)
THEOREM ListsStayCoherent == Spec => []ListsCoherent
  <1>1. IInv => ListsCoherent
    BY DEF IInv
  <1> QED
    BY <1>1, Invariance, PTL

(* The same of single items (service.py:31-33, 56-72). *)
THEOREM EntitiesStayCoherent == Spec => []EntitiesCoherent
  <1>1. IInv => EntitiesCoherent
    BY DEF IInv
  <1> QED
    BY <1>1, Invariance, PTL

(* A cache hit, which no check of the owner follows, never shows an item of
   another user (service.py:36-39, 57-61). *)
THEOREM CachesStayPrivate == Spec => []CachesPrivate
  <1>1. IInv => CachesPrivate
    BY DEF IInv
  <1> QED
    BY <1>1, Invariance, PTL
=============================================================================
