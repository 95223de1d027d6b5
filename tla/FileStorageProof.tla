------------------------- MODULE FileStorageProof -------------------------
(* Records, objects, avatars and cached profiles agree: proofs about FileStorage. *)
EXTENDS FileStorage, TLAPS

(* Which operation a call belongs to. *)
OnPath ==
  \A w \in Workers :
    /\ pc[w] \in {"insert", "cacheMeta"} => req[w].op = "upload"
    /\ pc[w] \in {"findRecord", "fillMeta"} => req[w].op \in Lookups
    /\ pc[w] = "read" => req[w].op = "download"
    /\ pc[w] \in {"softDelete", "unsetAvatar", "delMeta", "remove"} => req[w].op = "delete"
    /\ pc[w] = "delProfile" => req[w].op \in Writers
    /\ pc[w] = "update" => req[w].op = "setAvatar"
    /\ pc[w] \in {"readBack", "setProfile"} => req[w].op \in {"setAvatar", "profile"}

(* What is cached, referenced or confirmed as deleted was uploaded before. *)
UploadedInv ==
  /\ \A f \in Files : record[f] # "none" => owner[f] # None
  /\ \A f \in object : owner[f] # None
  /\ \A f \in meta : record[f] # "none"
  /\ \A u \in Users : avatar[u] # None => record[avatar[u]] # "none" /\ owner[avatar[u]] = u

(* A request past its lookup holds a file of its user; an upload is the only one
   that is about to insert its record. *)
HeldInv ==
  \A w \in Workers :
    /\ pc[w] \notin {"idle", "findRecord"} /\ req[w].file # None => owner[req[w].file] = req[w].user
    /\ pc[w] \notin {"idle", "findRecord", "insert"} /\ req[w].file # None =>
         record[req[w].file] # "none"
    /\ pc[w] = "insert" =>
         /\ record[req[w].file] = "none"
         /\ req[w].file \in object
         /\ \A v \in Workers \ {w} : pc[v] = "insert" => req[v].file # req[w].file

(* The calls of a deletion after the record: before and after the avatar. *)
Cleared(w)  ==
  pc[w] \in {"delMeta", "remove"} \/ (pc[w] = "delProfile" /\ req[w].op = "delete")
Deleting(w) == pc[w] = "unsetAvatar" \/ Cleared(w)

DeletingInv == \A w \in Workers : Deleting(w) => record[req[w].file] = "deleted"

(* Once a deletion has cleared the avatar, only an update revives it. *)
ClearedInv ==
  \A w \in Workers, u \in Users :
    Cleared(w) /\ req[w].file \notin revived => avatar[u] # req[w].file

(* The profile is cached as stored, except between a writer's change and its
   deletion of the key: a writer is alone with the profile of its user. *)
Busy(w, u) == pc[w] # "idle" /\ req[w].user = u /\ req[w].op \in ProfileOps

CoherentInv ==
  \A u \in Users \ disturbed :
    /\ redisUp
    /\ \A v, w \in Workers : v # w /\ Busy(v, u) /\ Busy(w, u) => req[v].op \notin Writers
    /\ \/ profile[u] \in {NoKey, avatar[u]}
       \/ \E w \in Workers :
            Busy(w, u) /\ req[w].op \in Writers /\ pc[w] \in {"delMeta", "delProfile", "readBack"}
    /\ \A w \in Workers :
         /\ req[w].user = u
         /\ pc[w] = "setProfile" \/ (pc[w] = "delProfile" /\ req[w].op = "setAvatar")
         => req[w].seen = avatar[u]

FilesInv ==
  /\ OnPath
  /\ UploadedInv
  /\ HeldInv
  /\ DeletingInv
  /\ ClearedInv
  /\ ObjectsMatchRecords
  /\ DeletedIsGone
  /\ DeletedIsNoAvatar

LEMMA Values == None \notin Users /\ None \notin Files /\ NoKey \notin Files /\ NoKey # None
  BY ValuesAssumption

LEMMA AfterLookup ==
  \A op \in Lookups :
    \/ op = "download" /\ After[op] = "read"
    \/ op = "delete" /\ After[op] = "softDelete"
    \/ op = "setAvatar" /\ After[op] = "update"
  <1>1. After["download"] = "read" /\ After["delete"] = "softDelete" /\ After["setAvatar"] = "update"
    BY DEF After
  <1> QED
    BY <1>1 DEF Lookups, Writers

-----------------------------------------------------------------------------
(* Types *)

LEMMA TypeStep == TypeOK /\ OnPath /\ [Next]_vars => TypeOK' /\ OnPath'
  <1> SUFFICES ASSUME TypeOK, OnPath, [Next]_vars PROVE TypeOK' /\ OnPath'
    OBVIOUS
  <1> USE Values DEF TypeOK, OnPath, Labels, Request, ProfileOps, Lookups, Writers,
          Goto, fileVars, userVars, history
  <1>1. CASE UNCHANGED vars
    BY <1>1 DEF vars
  <1>2. ASSUME NEW w \in Workers, Upload(w) PROVE TypeOK' /\ OnPath'
    <2>1. ASSUME NEW u \in Users, NEW f \in Files, PutObject(w, u, f) PROVE TypeOK' /\ OnPath'
      BY <2>1 DEF PutObject, Locals
    <2>2. CASE InsertRecord(w)
      BY <2>2 DEF InsertRecord
    <2>3. CASE CacheMeta(w)
      BY <2>3 DEF CacheMeta, Finish, NoRequest, Locals
    <2> QED
      BY <1>2, <2>1, <2>2, <2>3 DEF Upload
  <1>3. ASSUME NEW w \in Workers, OwnedFile(w) PROVE TypeOK' /\ OnPath'
    <2>1. ASSUME NEW u \in Users, NEW op \in Lookups, NEW f \in Files, LookupMeta(w, u, op, f)
          PROVE  TypeOK' /\ OnPath'
      BY <2>1, AfterLookup DEF LookupMeta, Locals, Overlaps
    <2>2. CASE FindRecord(w)
      <3>1. CASE Finish(w)
        BY <2>2, <3>1 DEF FindRecord, Finish, NoRequest, Locals
      <3>2. CASE ~Finish(w)
        <4>1. Goto(w, "fillMeta") /\ UNCHANGED req
          BY <2>2, <3>2 DEF FindRecord
        <4> QED
          BY <2>2, <4>1 DEF FindRecord
      <3> QED
        BY <3>1, <3>2
    <2>3. CASE FillMeta(w)
      BY <2>3, AfterLookup DEF FillMeta
    <2> QED
      BY <1>3, <2>1, <2>2, <2>3 DEF OwnedFile
  <1>4. ASSUME NEW w \in Workers, GetObject(w) PROVE TypeOK' /\ OnPath'
    BY <1>4 DEF GetObject, Finish, NoRequest, Locals
  <1>5. ASSUME NEW w \in Workers, Delete(w) PROVE TypeOK' /\ OnPath'
    <2>1. CASE SoftDelete(w)
      BY <2>1 DEF SoftDelete
    <2>2. CASE UnsetAvatar(w)
      BY <2>2 DEF UnsetAvatar
    <2>3. CASE DelMeta(w)
      BY <2>3 DEF DelMeta
    <2>4. CASE RemoveObject(w)
      BY <2>4 DEF RemoveObject, Finish, NoRequest, Locals
    <2> QED
      BY <1>5, <2>1, <2>2, <2>3, <2>4 DEF Delete
  <1>6. ASSUME NEW w \in Workers, Profile(w) PROVE TypeOK' /\ OnPath'
    <2>1. ASSUME NEW u \in Users, StartUpdate(w, u) PROVE TypeOK' /\ OnPath'
      BY <2>1 DEF StartUpdate, Locals, Overlaps
    <2>2. ASSUME NEW u \in Users, GetProfile(w, u) PROVE TypeOK' /\ OnPath'
      BY <2>2 DEF GetProfile, Locals, Overlaps
    <2>3. CASE UpdateUser(w)
      BY <2>3 DEF UpdateUser
    <2>4. CASE ReadBack(w)
      BY <2>4 DEF ReadBack
    <2>5. CASE DelProfile(w)
      <3>1. profile' \in [Users -> Files \cup {None, NoKey}]
        BY <2>5 DEF DelProfile
      <3>2. pc' = [pc EXCEPT ![w] = "remove"] \/ pc' = [pc EXCEPT ![w] = "setProfile"]
        BY <2>5 DEF DelProfile
      <3>3. pc'[w] = "remove" => req[w].op = "delete" /\ req[w].file \in Files
        BY <2>5 DEF DelProfile
      <3>4. pc'[w] = "setProfile" => req[w].op \in {"setAvatar", "profile"}
        BY <2>5 DEF DelProfile
      <3> QED
        BY <2>5, <3>1, <3>2, <3>3, <3>4 DEF DelProfile
    <2>6. CASE SetProfile(w)
      BY <2>6 DEF SetProfile, Finish, NoRequest, Locals
    <2> QED
      BY <1>6, <2>1, <2>2, <2>3, <2>4, <2>5, <2>6 DEF Profile
  <1>7. ASSUME NEW w \in Workers, Die(w) PROVE TypeOK' /\ OnPath'
    BY <1>7 DEF Die, Finish, NoRequest, Locals
  <1>8. CASE Environment
    BY <1>8 DEF Environment, RedisFails, RedisRecovers, MetaExpires, ProfileExpires
  <1> QED
    BY <1>1, <1>2, <1>3, <1>4, <1>5, <1>6, <1>7, <1>8 DEF Next, Refuse

-----------------------------------------------------------------------------
(* The other parts of the invariant *)

LEMMA UploadedStep == TypeOK /\ TypeOK' /\ FilesInv /\ [Next]_vars => UploadedInv'
  <1> SUFFICES ASSUME TypeOK, TypeOK', FilesInv, [Next]_vars PROVE UploadedInv'
    OBVIOUS
  <1> USE Values DEF TypeOK, Request, Goto, fileVars, userVars, history,
          FilesInv, UploadedInv, HeldInv, OnPath
  <1>1. CASE UNCHANGED vars
    BY <1>1 DEF vars
  <1>2. ASSUME NEW w \in Workers, NEW u \in Users, NEW f \in Files, PutObject(w, u, f) PROVE UploadedInv'
    BY <1>2 DEF PutObject, Finish, NoRequest, Locals
  <1>3. ASSUME NEW w \in Workers, InsertRecord(w) PROVE UploadedInv'
    BY <1>3 DEF InsertRecord, Finish, NoRequest, Locals
  <1>4. ASSUME NEW w \in Workers, CacheMeta(w) PROVE UploadedInv'
    BY <1>4 DEF CacheMeta, Finish, NoRequest, Locals
  <1>5. ASSUME NEW w \in Workers, NEW u \in Users, NEW op \in Lookups, NEW f \in Files, LookupMeta(w, u, op, f) PROVE UploadedInv'
    BY <1>5 DEF LookupMeta, Finish, NoRequest, Locals
  <1>6. ASSUME NEW w \in Workers, FindRecord(w) PROVE UploadedInv'
    BY <1>6 DEF FindRecord, Finish, NoRequest, Locals
  <1>7. ASSUME NEW w \in Workers, FillMeta(w) PROVE UploadedInv'
    BY <1>7 DEF FillMeta, Finish, NoRequest, Locals
  <1>8. ASSUME NEW w \in Workers, GetObject(w) PROVE UploadedInv'
    BY <1>8 DEF GetObject, Finish, NoRequest, Locals
  <1>9. ASSUME NEW w \in Workers, SoftDelete(w) PROVE UploadedInv'
    BY <1>9 DEF SoftDelete, Finish, NoRequest, Locals
  <1>10. ASSUME NEW w \in Workers, UnsetAvatar(w) PROVE UploadedInv'
    BY <1>10 DEF UnsetAvatar, Finish, NoRequest, Locals
  <1>11. ASSUME NEW w \in Workers, DelMeta(w) PROVE UploadedInv'
    BY <1>11 DEF DelMeta, Finish, NoRequest, Locals
  <1>12. ASSUME NEW w \in Workers, RemoveObject(w) PROVE UploadedInv'
    BY <1>12 DEF RemoveObject, Finish, NoRequest, Locals
  <1>13. ASSUME NEW w \in Workers, NEW u \in Users, StartUpdate(w, u) PROVE UploadedInv'
    BY <1>13 DEF StartUpdate, Finish, NoRequest, Locals
  <1>14. ASSUME NEW w \in Workers, NEW u \in Users, GetProfile(w, u) PROVE UploadedInv'
    BY <1>14 DEF GetProfile, Finish, NoRequest, Locals
  <1>15. ASSUME NEW w \in Workers, UpdateUser(w) PROVE UploadedInv'
    BY <1>15 DEF UpdateUser, Finish, NoRequest, Locals
  <1>16. ASSUME NEW w \in Workers, ReadBack(w) PROVE UploadedInv'
    BY <1>16 DEF ReadBack, Finish, NoRequest, Locals
  <1>17. ASSUME NEW w \in Workers, DelProfile(w) PROVE UploadedInv'
    BY <1>17 DEF DelProfile, Finish, NoRequest, Locals
  <1>18. ASSUME NEW w \in Workers, SetProfile(w) PROVE UploadedInv'
    BY <1>18 DEF SetProfile, Finish, NoRequest, Locals
  <1>19. ASSUME NEW w \in Workers, Die(w) PROVE UploadedInv'
    BY <1>19 DEF Die, Finish, NoRequest, Locals
  <1>20. CASE Environment
    BY <1>20 DEF Environment, RedisFails, RedisRecovers, MetaExpires, ProfileExpires
  <1> QED
    BY <1>1, <1>2, <1>3, <1>4, <1>5, <1>6, <1>7, <1>8, <1>9, <1>10, <1>11, <1>12, <1>13, <1>14, <1>15, <1>16, <1>17, <1>18, <1>19, <1>20
    DEF Next, Refuse, Upload, OwnedFile, Delete, Profile

LEMMA HeldStep == TypeOK /\ TypeOK' /\ FilesInv /\ [Next]_vars => HeldInv'
  <1> SUFFICES ASSUME TypeOK, TypeOK', FilesInv, [Next]_vars PROVE HeldInv'
    OBVIOUS
  <1> USE Values DEF TypeOK, Request, Goto, fileVars, userVars, history,
          FilesInv, UploadedInv, HeldInv, OnPath
  <1>1. CASE UNCHANGED vars
    BY <1>1 DEF vars
  <1>2. ASSUME NEW w \in Workers, NEW u \in Users, NEW f \in Files, PutObject(w, u, f) PROVE HeldInv'
    BY <1>2 DEF PutObject, Finish, NoRequest, Locals
  <1>3. ASSUME NEW w \in Workers, InsertRecord(w) PROVE HeldInv'
    BY <1>3 DEF InsertRecord, Finish, NoRequest, Locals
  <1>4. ASSUME NEW w \in Workers, CacheMeta(w) PROVE HeldInv'
    BY <1>4 DEF CacheMeta, Finish, NoRequest, Locals
  <1>5. ASSUME NEW w \in Workers, NEW u \in Users, NEW op \in Lookups, NEW f \in Files, LookupMeta(w, u, op, f) PROVE HeldInv'
    <2>1. pc'[w] \in {"read", "softDelete", "update", "findRecord"}
      BY <1>5, AfterLookup DEF LookupMeta
    <2>2. pc'[w] # "findRecord" => owner[f] = u /\ record[f] # "none"
      BY <1>5 DEF LookupMeta
    <2> QED
      BY <1>5, <2>1, <2>2 DEF LookupMeta, Locals
  <1>6. ASSUME NEW w \in Workers, FindRecord(w) PROVE HeldInv'
    BY <1>6 DEF FindRecord, Finish, NoRequest, Locals
  <1>7. ASSUME NEW w \in Workers, FillMeta(w) PROVE HeldInv'
    <2>1. pc'[w] \in {"read", "softDelete", "update"}
      BY <1>7, AfterLookup DEF FillMeta
    <2> QED
      BY <1>7, <2>1 DEF FillMeta
  <1>8. ASSUME NEW w \in Workers, GetObject(w) PROVE HeldInv'
    BY <1>8 DEF GetObject, Finish, NoRequest, Locals
  <1>9. ASSUME NEW w \in Workers, SoftDelete(w) PROVE HeldInv'
    BY <1>9 DEF SoftDelete, Finish, NoRequest, Locals
  <1>10. ASSUME NEW w \in Workers, UnsetAvatar(w) PROVE HeldInv'
    BY <1>10 DEF UnsetAvatar, Finish, NoRequest, Locals
  <1>11. ASSUME NEW w \in Workers, DelMeta(w) PROVE HeldInv'
    BY <1>11 DEF DelMeta, Finish, NoRequest, Locals
  <1>12. ASSUME NEW w \in Workers, RemoveObject(w) PROVE HeldInv'
    BY <1>12 DEF RemoveObject, Finish, NoRequest, Locals
  <1>13. ASSUME NEW w \in Workers, NEW u \in Users, StartUpdate(w, u) PROVE HeldInv'
    BY <1>13 DEF StartUpdate, Finish, NoRequest, Locals
  <1>14. ASSUME NEW w \in Workers, NEW u \in Users, GetProfile(w, u) PROVE HeldInv'
    BY <1>14 DEF GetProfile, Finish, NoRequest, Locals
  <1>15. ASSUME NEW w \in Workers, UpdateUser(w) PROVE HeldInv'
    BY <1>15 DEF UpdateUser, Finish, NoRequest, Locals
  <1>16. ASSUME NEW w \in Workers, ReadBack(w) PROVE HeldInv'
    BY <1>16 DEF ReadBack, Finish, NoRequest, Locals
  <1>17. ASSUME NEW w \in Workers, DelProfile(w) PROVE HeldInv'
    BY <1>17 DEF DelProfile, Finish, NoRequest, Locals
  <1>18. ASSUME NEW w \in Workers, SetProfile(w) PROVE HeldInv'
    BY <1>18 DEF SetProfile, Finish, NoRequest, Locals
  <1>19. ASSUME NEW w \in Workers, Die(w) PROVE HeldInv'
    BY <1>19 DEF Die, Finish, NoRequest, Locals
  <1>20. CASE Environment
    BY <1>20 DEF Environment, RedisFails, RedisRecovers, MetaExpires, ProfileExpires
  <1> QED
    BY <1>1, <1>2, <1>3, <1>4, <1>5, <1>6, <1>7, <1>8, <1>9, <1>10, <1>11, <1>12, <1>13, <1>14, <1>15, <1>16, <1>17, <1>18, <1>19, <1>20
    DEF Next, Refuse, Upload, OwnedFile, Delete, Profile

LEMMA DeletingStep == TypeOK /\ TypeOK' /\ FilesInv /\ [Next]_vars => (DeletingInv /\ DeletedIsGone)'
  <1> SUFFICES ASSUME TypeOK, TypeOK', FilesInv, [Next]_vars PROVE (DeletingInv /\ DeletedIsGone)'
    OBVIOUS
  <1> USE Values DEF TypeOK, Request, Goto, fileVars, userVars, history,
          FilesInv, UploadedInv, HeldInv, OnPath, DeletingInv, Deleting, Cleared, DeletedIsGone
  <1>1. CASE UNCHANGED vars
    BY <1>1 DEF vars
  <1>2. ASSUME NEW w \in Workers, NEW u \in Users, NEW f \in Files, PutObject(w, u, f) PROVE (DeletingInv /\ DeletedIsGone)'
    BY <1>2 DEF PutObject, Finish, NoRequest, Locals
  <1>3. ASSUME NEW w \in Workers, InsertRecord(w) PROVE (DeletingInv /\ DeletedIsGone)'
    BY <1>3 DEF InsertRecord, Finish, NoRequest, Locals
  <1>4. ASSUME NEW w \in Workers, CacheMeta(w) PROVE (DeletingInv /\ DeletedIsGone)'
    BY <1>4 DEF CacheMeta, Finish, NoRequest, Locals
  <1>5. ASSUME NEW w \in Workers, NEW u \in Users, NEW op \in Lookups, NEW f \in Files, LookupMeta(w, u, op, f) PROVE (DeletingInv /\ DeletedIsGone)'
    <2>1. pc'[w] \in {"read", "softDelete", "update", "findRecord"}
      BY <1>5, AfterLookup DEF LookupMeta
    <2> QED
      BY <1>5, <2>1 DEF LookupMeta, Locals
  <1>6. ASSUME NEW w \in Workers, FindRecord(w) PROVE (DeletingInv /\ DeletedIsGone)'
    BY <1>6 DEF FindRecord, Finish, NoRequest, Locals
  <1>7. ASSUME NEW w \in Workers, FillMeta(w) PROVE (DeletingInv /\ DeletedIsGone)'
    <2>1. pc'[w] \in {"read", "softDelete", "update"}
      BY <1>7, AfterLookup DEF FillMeta
    <2> QED
      BY <1>7, <2>1 DEF FillMeta
  <1>8. ASSUME NEW w \in Workers, GetObject(w) PROVE (DeletingInv /\ DeletedIsGone)'
    BY <1>8 DEF GetObject, Finish, NoRequest, Locals
  <1>9. ASSUME NEW w \in Workers, SoftDelete(w) PROVE (DeletingInv /\ DeletedIsGone)'
    BY <1>9 DEF SoftDelete, Finish, NoRequest, Locals
  <1>10. ASSUME NEW w \in Workers, UnsetAvatar(w) PROVE (DeletingInv /\ DeletedIsGone)'
    BY <1>10 DEF UnsetAvatar, Finish, NoRequest, Locals
  <1>11. ASSUME NEW w \in Workers, DelMeta(w) PROVE (DeletingInv /\ DeletedIsGone)'
    BY <1>11 DEF DelMeta, Finish, NoRequest, Locals
  <1>12. ASSUME NEW w \in Workers, RemoveObject(w) PROVE (DeletingInv /\ DeletedIsGone)'
    BY <1>12 DEF RemoveObject, Finish, NoRequest, Locals
  <1>13. ASSUME NEW w \in Workers, NEW u \in Users, StartUpdate(w, u) PROVE (DeletingInv /\ DeletedIsGone)'
    BY <1>13 DEF StartUpdate, Finish, NoRequest, Locals
  <1>14. ASSUME NEW w \in Workers, NEW u \in Users, GetProfile(w, u) PROVE (DeletingInv /\ DeletedIsGone)'
    BY <1>14 DEF GetProfile, Finish, NoRequest, Locals
  <1>15. ASSUME NEW w \in Workers, UpdateUser(w) PROVE (DeletingInv /\ DeletedIsGone)'
    BY <1>15 DEF UpdateUser, Finish, NoRequest, Locals
  <1>16. ASSUME NEW w \in Workers, ReadBack(w) PROVE (DeletingInv /\ DeletedIsGone)'
    BY <1>16 DEF ReadBack, Finish, NoRequest, Locals
  <1>17. ASSUME NEW w \in Workers, DelProfile(w) PROVE (DeletingInv /\ DeletedIsGone)'
    BY <1>17 DEF DelProfile, Finish, NoRequest, Locals
  <1>18. ASSUME NEW w \in Workers, SetProfile(w) PROVE (DeletingInv /\ DeletedIsGone)'
    BY <1>18 DEF SetProfile, Finish, NoRequest, Locals
  <1>19. ASSUME NEW w \in Workers, Die(w) PROVE (DeletingInv /\ DeletedIsGone)'
    BY <1>19 DEF Die, Finish, NoRequest, Locals
  <1>20. CASE Environment
    BY <1>20 DEF Environment, RedisFails, RedisRecovers, MetaExpires, ProfileExpires
  <1> QED
    BY <1>1, <1>2, <1>3, <1>4, <1>5, <1>6, <1>7, <1>8, <1>9, <1>10, <1>11, <1>12, <1>13, <1>14, <1>15, <1>16, <1>17, <1>18, <1>19, <1>20
    DEF Next, Refuse, Upload, OwnedFile, Delete, Profile

LEMMA ClearedStep == TypeOK /\ TypeOK' /\ FilesInv /\ [Next]_vars => (ClearedInv /\ DeletedIsNoAvatar)'
  <1> SUFFICES ASSUME TypeOK, TypeOK', FilesInv, [Next]_vars PROVE (ClearedInv /\ DeletedIsNoAvatar)'
    OBVIOUS
  <1> USE Values DEF TypeOK, Request, Goto, fileVars, userVars, history,
          FilesInv, UploadedInv, HeldInv, OnPath, DeletingInv, Deleting, Cleared, ClearedInv, DeletedIsGone, DeletedIsNoAvatar
  <1>1. CASE UNCHANGED vars
    BY <1>1 DEF vars
  <1>2. ASSUME NEW w \in Workers, NEW u \in Users, NEW f \in Files, PutObject(w, u, f) PROVE (ClearedInv /\ DeletedIsNoAvatar)'
    BY <1>2 DEF PutObject, Finish, NoRequest, Locals
  <1>3. ASSUME NEW w \in Workers, InsertRecord(w) PROVE (ClearedInv /\ DeletedIsNoAvatar)'
    BY <1>3 DEF InsertRecord, Finish, NoRequest, Locals
  <1>4. ASSUME NEW w \in Workers, CacheMeta(w) PROVE (ClearedInv /\ DeletedIsNoAvatar)'
    BY <1>4 DEF CacheMeta, Finish, NoRequest, Locals
  <1>5. ASSUME NEW w \in Workers, NEW u \in Users, NEW op \in Lookups, NEW f \in Files, LookupMeta(w, u, op, f) PROVE (ClearedInv /\ DeletedIsNoAvatar)'
    <2>1. pc'[w] \in {"read", "softDelete", "update", "findRecord"}
      BY <1>5, AfterLookup DEF LookupMeta
    <2> QED
      BY <1>5, <2>1 DEF LookupMeta, Locals
  <1>6. ASSUME NEW w \in Workers, FindRecord(w) PROVE (ClearedInv /\ DeletedIsNoAvatar)'
    BY <1>6 DEF FindRecord, Finish, NoRequest, Locals
  <1>7. ASSUME NEW w \in Workers, FillMeta(w) PROVE (ClearedInv /\ DeletedIsNoAvatar)'
    <2>1. pc'[w] \in {"read", "softDelete", "update"}
      BY <1>7, AfterLookup DEF FillMeta
    <2> QED
      BY <1>7, <2>1 DEF FillMeta
  <1>8. ASSUME NEW w \in Workers, GetObject(w) PROVE (ClearedInv /\ DeletedIsNoAvatar)'
    BY <1>8 DEF GetObject, Finish, NoRequest, Locals
  <1>9. ASSUME NEW w \in Workers, SoftDelete(w) PROVE (ClearedInv /\ DeletedIsNoAvatar)'
    BY <1>9 DEF SoftDelete, Finish, NoRequest, Locals
  <1>10. ASSUME NEW w \in Workers, UnsetAvatar(w) PROVE (ClearedInv /\ DeletedIsNoAvatar)'
    BY <1>10 DEF UnsetAvatar, Finish, NoRequest, Locals
  <1>11. ASSUME NEW w \in Workers, DelMeta(w) PROVE (ClearedInv /\ DeletedIsNoAvatar)'
    BY <1>11 DEF DelMeta, Finish, NoRequest, Locals
  <1>12. ASSUME NEW w \in Workers, RemoveObject(w) PROVE (ClearedInv /\ DeletedIsNoAvatar)'
    BY <1>12 DEF RemoveObject, Finish, NoRequest, Locals
  <1>13. ASSUME NEW w \in Workers, NEW u \in Users, StartUpdate(w, u) PROVE (ClearedInv /\ DeletedIsNoAvatar)'
    BY <1>13 DEF StartUpdate, Finish, NoRequest, Locals
  <1>14. ASSUME NEW w \in Workers, NEW u \in Users, GetProfile(w, u) PROVE (ClearedInv /\ DeletedIsNoAvatar)'
    BY <1>14 DEF GetProfile, Finish, NoRequest, Locals
  <1>15. ASSUME NEW w \in Workers, UpdateUser(w) PROVE (ClearedInv /\ DeletedIsNoAvatar)'
    BY <1>15 DEF UpdateUser, Finish, NoRequest, Locals
  <1>16. ASSUME NEW w \in Workers, ReadBack(w) PROVE (ClearedInv /\ DeletedIsNoAvatar)'
    BY <1>16 DEF ReadBack, Finish, NoRequest, Locals
  <1>17. ASSUME NEW w \in Workers, DelProfile(w) PROVE (ClearedInv /\ DeletedIsNoAvatar)'
    BY <1>17 DEF DelProfile, Finish, NoRequest, Locals
  <1>18. ASSUME NEW w \in Workers, SetProfile(w) PROVE (ClearedInv /\ DeletedIsNoAvatar)'
    BY <1>18 DEF SetProfile, Finish, NoRequest, Locals
  <1>19. ASSUME NEW w \in Workers, Die(w) PROVE (ClearedInv /\ DeletedIsNoAvatar)'
    BY <1>19 DEF Die, Finish, NoRequest, Locals
  <1>20. CASE Environment
    BY <1>20 DEF Environment, RedisFails, RedisRecovers, MetaExpires, ProfileExpires
  <1> QED
    BY <1>1, <1>2, <1>3, <1>4, <1>5, <1>6, <1>7, <1>8, <1>9, <1>10, <1>11, <1>12, <1>13, <1>14, <1>15, <1>16, <1>17, <1>18, <1>19, <1>20
    DEF Next, Refuse, Upload, OwnedFile, Delete, Profile

LEMMA ObjectsStep == TypeOK /\ TypeOK' /\ FilesInv /\ [Next]_vars => ObjectsMatchRecords'
  <1> SUFFICES ASSUME TypeOK, TypeOK', FilesInv, [Next]_vars PROVE ObjectsMatchRecords'
    OBVIOUS
  <1> USE Values DEF TypeOK, Request, Goto, fileVars, userVars, history,
          FilesInv, HeldInv, OnPath, DeletingInv, Deleting, Cleared, ObjectsMatchRecords
  <1>1. CASE UNCHANGED vars
    BY <1>1 DEF vars
  <1>2. ASSUME NEW w \in Workers, NEW u \in Users, NEW f \in Files, PutObject(w, u, f) PROVE ObjectsMatchRecords'
    BY <1>2 DEF PutObject, Finish, NoRequest, Locals
  <1>3. ASSUME NEW w \in Workers, InsertRecord(w) PROVE ObjectsMatchRecords'
    BY <1>3 DEF InsertRecord, Finish, NoRequest, Locals
  <1>4. ASSUME NEW w \in Workers, CacheMeta(w) PROVE ObjectsMatchRecords'
    BY <1>4 DEF CacheMeta, Finish, NoRequest, Locals
  <1>5. ASSUME NEW w \in Workers, NEW u \in Users, NEW op \in Lookups, NEW f \in Files, LookupMeta(w, u, op, f) PROVE ObjectsMatchRecords'
    BY <1>5 DEF LookupMeta, Finish, NoRequest, Locals
  <1>6. ASSUME NEW w \in Workers, FindRecord(w) PROVE ObjectsMatchRecords'
    BY <1>6 DEF FindRecord, Finish, NoRequest, Locals
  <1>7. ASSUME NEW w \in Workers, FillMeta(w) PROVE ObjectsMatchRecords'
    BY <1>7 DEF FillMeta, Finish, NoRequest, Locals
  <1>8. ASSUME NEW w \in Workers, GetObject(w) PROVE ObjectsMatchRecords'
    BY <1>8 DEF GetObject, Finish, NoRequest, Locals
  <1>9. ASSUME NEW w \in Workers, SoftDelete(w) PROVE ObjectsMatchRecords'
    BY <1>9 DEF SoftDelete, Finish, NoRequest, Locals
  <1>10. ASSUME NEW w \in Workers, UnsetAvatar(w) PROVE ObjectsMatchRecords'
    BY <1>10 DEF UnsetAvatar, Finish, NoRequest, Locals
  <1>11. ASSUME NEW w \in Workers, DelMeta(w) PROVE ObjectsMatchRecords'
    BY <1>11 DEF DelMeta, Finish, NoRequest, Locals
  <1>12. ASSUME NEW w \in Workers, RemoveObject(w) PROVE ObjectsMatchRecords'
    BY <1>12 DEF RemoveObject, Finish, NoRequest, Locals
  <1>13. ASSUME NEW w \in Workers, NEW u \in Users, StartUpdate(w, u) PROVE ObjectsMatchRecords'
    BY <1>13 DEF StartUpdate, Finish, NoRequest, Locals
  <1>14. ASSUME NEW w \in Workers, NEW u \in Users, GetProfile(w, u) PROVE ObjectsMatchRecords'
    BY <1>14 DEF GetProfile, Finish, NoRequest, Locals
  <1>15. ASSUME NEW w \in Workers, UpdateUser(w) PROVE ObjectsMatchRecords'
    BY <1>15 DEF UpdateUser, Finish, NoRequest, Locals
  <1>16. ASSUME NEW w \in Workers, ReadBack(w) PROVE ObjectsMatchRecords'
    BY <1>16 DEF ReadBack, Finish, NoRequest, Locals
  <1>17. ASSUME NEW w \in Workers, DelProfile(w) PROVE ObjectsMatchRecords'
    <2>1. req[w].op = "delete" => pc'[w] = "remove"
      BY <1>17 DEF DelProfile
    <2>2. \A v \in Workers \ {w} : pc'[v] = pc[v]
      BY <1>17 DEF DelProfile
    <2>3. ASSUME NEW f \in Files, f \in object, record[f] # "active", ~died,
                 NEW v \in Workers, req[v].file = f, req[v].op \in {"upload", "delete"},
                 pc[v] \in {"insert", "unsetAvatar", "delMeta", "delProfile", "remove"}
          PROVE  pc'[v] \in {"insert", "unsetAvatar", "delMeta", "delProfile", "remove"}
      <3>1. CASE v = w
        BY <1>17, <2>1, <2>3, <3>1 DEF DelProfile, Writers
      <3> QED
        BY <2>2, <2>3, <3>1
    <2> QED
      BY <1>17, <2>3 DEF DelProfile
  <1>18. ASSUME NEW w \in Workers, SetProfile(w) PROVE ObjectsMatchRecords'
    BY <1>18 DEF SetProfile, Finish, NoRequest, Locals
  <1>19. ASSUME NEW w \in Workers, Die(w) PROVE ObjectsMatchRecords'
    BY <1>19 DEF Die, Finish, NoRequest, Locals
  <1>20. CASE Environment
    BY <1>20 DEF Environment, RedisFails, RedisRecovers, MetaExpires, ProfileExpires
  <1> QED
    BY <1>1, <1>2, <1>3, <1>4, <1>5, <1>6, <1>7, <1>8, <1>9, <1>10, <1>11, <1>12, <1>13, <1>14, <1>15, <1>16, <1>17, <1>18, <1>19, <1>20
    DEF Next, Refuse, Upload, OwnedFile, Delete, Profile

(* A request that starts without disturbing its user meets no writer's request,
   and no request at all when it is a writer itself. *)
LEMMA StartsAlone ==
  ASSUME NEW w \in Workers, NEW u, NEW op, Overlaps(w, u, op)
  PROVE  /\ disturbed \subseteq disturbed'
         /\ u \notin disturbed' /\ op \in ProfileOps =>
              \A v \in Workers \ {w} :
                Busy(v, u) => req[v].op \notin Writers /\ op \notin Writers
  BY DEF Overlaps, Busy

LEMMA CoherentStep == TypeOK /\ TypeOK' /\ OnPath /\ CoherentInv /\ [Next]_vars => CoherentInv'
  <1> SUFFICES ASSUME TypeOK, TypeOK', OnPath, CoherentInv, [Next]_vars PROVE CoherentInv'
    OBVIOUS
  <1> USE Values DEF TypeOK, Request, Goto, fileVars, userVars, history,
          OnPath, CoherentInv, Busy, ProfileOps, Writers, Lookups
  <1>1. CASE UNCHANGED vars
    BY <1>1 DEF vars
  <1>2. ASSUME NEW w \in Workers, NEW u \in Users, NEW f \in Files, PutObject(w, u, f) PROVE CoherentInv'
    BY <1>2 DEF PutObject, Finish, NoRequest, Locals
  <1>3. ASSUME NEW w \in Workers, InsertRecord(w) PROVE CoherentInv'
    BY <1>3 DEF InsertRecord, Finish, NoRequest, Locals
  <1>4. ASSUME NEW w \in Workers, CacheMeta(w) PROVE CoherentInv'
    BY <1>4 DEF CacheMeta, Finish, NoRequest, Locals
  <1>5. ASSUME NEW w \in Workers, NEW u \in Users, NEW op \in Lookups, NEW f \in Files, LookupMeta(w, u, op, f) PROVE CoherentInv'
    <2>1. pc'[w] \in {"read", "softDelete", "update", "findRecord"}
      BY <1>5, AfterLookup DEF LookupMeta
    <2>2. pc[w] = "idle" /\ req'[w] = Locals(op, u, f)
      BY <1>5 DEF LookupMeta, Locals
    <2>3. \A v \in Workers \ {w} : pc'[v] = pc[v] /\ req'[v] = req[v]
      BY <1>5 DEF LookupMeta
    <2>4. /\ disturbed \subseteq disturbed'
          /\ u \notin disturbed' =>
               \A v \in Workers \ {w} :
                 op \in ProfileOps /\ Busy(v, u) => req[v].op \notin Writers /\ op \notin Writers
      BY <1>5, StartsAlone DEF LookupMeta
    <2> QED
      BY <1>5, <2>1, <2>2, <2>3, <2>4 DEF LookupMeta, Locals
  <1>6. ASSUME NEW w \in Workers, FindRecord(w) PROVE CoherentInv'
    <2>1. CASE Finish(w)
      BY <1>6, <2>1 DEF FindRecord, Finish, NoRequest, Locals
    <2>2. CASE ~Finish(w)
      <3>1. Goto(w, "fillMeta") /\ UNCHANGED req
        BY <1>6, <2>2 DEF FindRecord
      <3> QED
        BY <1>6, <3>1 DEF FindRecord
    <2> QED
      BY <2>1, <2>2
  <1>7. ASSUME NEW w \in Workers, FillMeta(w) PROVE CoherentInv'
    <2>1. pc'[w] \in {"read", "softDelete", "update"}
      BY <1>7, AfterLookup DEF FillMeta
    <2> QED
      BY <1>7, <2>1 DEF FillMeta
  <1>8. ASSUME NEW w \in Workers, GetObject(w) PROVE CoherentInv'
    BY <1>8 DEF GetObject, Finish, NoRequest, Locals
  <1>9. ASSUME NEW w \in Workers, SoftDelete(w) PROVE CoherentInv'
    BY <1>9 DEF SoftDelete, Finish, NoRequest, Locals
  <1>10. ASSUME NEW w \in Workers, UnsetAvatar(w) PROVE CoherentInv'
    BY <1>10 DEF UnsetAvatar, Finish, NoRequest, Locals
  <1>11. ASSUME NEW w \in Workers, DelMeta(w) PROVE CoherentInv'
    BY <1>11 DEF DelMeta, Finish, NoRequest, Locals
  <1>12. ASSUME NEW w \in Workers, RemoveObject(w) PROVE CoherentInv'
    BY <1>12 DEF RemoveObject, Finish, NoRequest, Locals
  <1>13. ASSUME NEW w \in Workers, NEW u \in Users, StartUpdate(w, u) PROVE CoherentInv'
    BY <1>13 DEF StartUpdate, Locals, Overlaps
  <1>14. ASSUME NEW w \in Workers, NEW u \in Users, GetProfile(w, u) PROVE CoherentInv'
    <2>1. pc'[w] = "readBack"
      BY <1>14, AfterLookup DEF GetProfile
    <2>2. pc[w] = "idle" /\ req'[w] = Locals("profile", u, None)
      BY <1>14 DEF GetProfile, Locals
    <2>3. \A v \in Workers \ {w} : pc'[v] = pc[v] /\ req'[v] = req[v]
      BY <1>14 DEF GetProfile
    <2>4. /\ disturbed \subseteq disturbed'
          /\ u \notin disturbed' =>
               \A v \in Workers \ {w} :
                 Busy(v, u) => req[v].op \notin Writers /\ "profile" \notin Writers
      BY <1>14, StartsAlone DEF GetProfile
    <2> QED
      BY <1>14, <2>1, <2>2, <2>3, <2>4 DEF GetProfile, Locals
  <1>15. ASSUME NEW w \in Workers, UpdateUser(w) PROVE CoherentInv'
    BY <1>15 DEF UpdateUser, Finish, NoRequest, Locals
  <1>16. ASSUME NEW w \in Workers, ReadBack(w) PROVE CoherentInv'
    BY <1>16 DEF ReadBack, Finish, NoRequest, Locals
  <1>17. ASSUME NEW w \in Workers, DelProfile(w) PROVE CoherentInv'
    BY <1>17 DEF DelProfile, Finish, NoRequest, Locals
  <1>18. ASSUME NEW w \in Workers, SetProfile(w) PROVE CoherentInv'
    <2>1. pc'[w] = "idle" /\ req'[w] = NoRequest
      BY <1>18 DEF SetProfile, Finish
    <2>2. \A v \in Workers \ {w} : pc'[v] = pc[v] /\ req'[v] = req[v]
      BY <1>18 DEF SetProfile, Finish
    <2>3. \A u \in Users \ {req[w].user} : profile'[u] = profile[u]
      BY <1>18 DEF SetProfile
    <2>4. req[w].user \in Users
      BY <1>18 DEF SetProfile
    <2>9. pc[w] = "setProfile"
      BY <1>18 DEF SetProfile
    <2>5. req[w].user \notin disturbed => redisUp /\ req[w].seen = avatar[req[w].user]
      BY <2>4, <2>9
    <2>6. redisUp => profile'[req[w].user] = req[w].seen
      BY <1>18, <2>4 DEF SetProfile
    <2>7. UNCHANGED <<avatar, disturbed, redisUp>>
      BY <1>18 DEF SetProfile
    <2>8. ASSUME NEW u \in Users \ disturbed
          PROVE  \/ profile'[u] \in {NoKey, avatar[u]}
                 \/ \E v \in Workers \ {w} :
                      Busy(v, u) /\ req[v].op \in Writers /\ pc[v] \in {"delMeta", "delProfile", "readBack"}
      <3>1. CASE u = req[w].user
        BY <2>5, <2>6, <3>1
      <3>2. CASE u # req[w].user
        BY <2>3, <3>2
      <3> QED
        BY <3>1, <3>2
    <2>10. ASSUME NEW u \in Users \ disturbed,
                  NEW v \in Workers, Busy(v, u), req[v].op \in Writers,
                  pc[v] \in {"delMeta", "delProfile", "readBack"}, v # w
           PROVE  Busy(v, u)' /\ req'[v].op \in Writers /\ pc'[v] \in {"delMeta", "delProfile", "readBack"}
      BY <2>2, <2>10
    <2>11. ASSUME NEW u \in Users \ disturbed, NEW v \in Workers,
                  pc'[v] # "idle", req'[v].user = u
           PROVE  pc'[v] = pc[v] /\ req'[v] = req[v]
      BY <2>1, <2>2, <2>11
    <2> QED
      BY <2>7, <2>8, <2>10, <2>11, <2>1
  <1>19. ASSUME NEW w \in Workers, Die(w) PROVE CoherentInv'
    BY <1>19 DEF Die, Finish, NoRequest, Locals
  <1>20. CASE Environment
    BY <1>20 DEF Environment, RedisFails, RedisRecovers, MetaExpires, ProfileExpires
  <1> QED
    BY <1>1, <1>2, <1>3, <1>4, <1>5, <1>6, <1>7, <1>8, <1>9, <1>10, <1>11, <1>12, <1>13, <1>14, <1>15, <1>16, <1>17, <1>18, <1>19, <1>20
    DEF Next, Refuse, Upload, OwnedFile, Delete, Profile

-----------------------------------------------------------------------------
IInv == TypeOK /\ FilesInv /\ CoherentInv

LEMMA InitInv == Init => IInv
  <1> SUFFICES ASSUME Init PROVE IInv
    OBVIOUS
  <1> USE Values DEF Init, Locals, NoRequest
  <1>1. TypeOK /\ OnPath
    BY DEF TypeOK, OnPath, Labels, Request
  <1>2. UploadedInv /\ HeldInv /\ DeletingInv /\ ClearedInv
    BY DEF UploadedInv, HeldInv, DeletingInv, ClearedInv, Deleting, Cleared
  <1>3. ObjectsMatchRecords /\ DeletedIsGone /\ DeletedIsNoAvatar /\ CoherentInv
    BY DEF ObjectsMatchRecords, DeletedIsGone, DeletedIsNoAvatar, CoherentInv, Busy
  <1> QED
    BY <1>1, <1>2, <1>3 DEF IInv, FilesInv

(* In every reachable state the records, objects, avatars and caches are related
   as IInv says, for any numbers of requests, users and files and any faults. *)
THEOREM Invariance == Spec => []IInv
  <1>1. IInv /\ [Next]_vars => IInv'
    <2> SUFFICES ASSUME IInv, [Next]_vars PROVE IInv'
      OBVIOUS
    <2>1. TypeOK' /\ OnPath'
      BY TypeStep DEF IInv, FilesInv
    <2>2. UploadedInv' /\ HeldInv' /\ DeletingInv' /\ DeletedIsGone'
      BY <2>1, UploadedStep, HeldStep, DeletingStep DEF IInv
    <2>3. ClearedInv' /\ DeletedIsNoAvatar' /\ ObjectsMatchRecords'
      BY <2>1, ClearedStep, ObjectsStep DEF IInv
    <2>4. CoherentInv'
      BY <2>1, CoherentStep DEF IInv, FilesInv
    <2> QED
      BY <2>1, <2>2, <2>3, <2>4 DEF IInv, FilesInv
  <1> QED
    BY InitInv, <1>1, PTL DEF Spec

(* Every variable keeps its type, and a request past its lookup has its file. *)
THEOREM TypeCorrectness == Spec => []TypeOK
  <1>1. IInv => TypeOK
    BY DEF IInv
  <1> QED
    BY Invariance, <1>1, PTL

(* An active record always has its object, and only requests that died leave an
   object without one behind. *)
THEOREM RecordsHaveObjects == Spec => []ObjectsMatchRecords
  <1>1. IInv => ObjectsMatchRecords
    BY DEF IInv, FilesInv
  <1> QED
    BY Invariance, <1>1, PTL

(* What an answer confirmed as deleted stays deleted, in both stores. *)
THEOREM DeletionIsFinal == Spec => []DeletedIsGone
  <1>1. IInv => DeletedIsGone
    BY DEF IInv, FilesInv
  <1> QED
    BY Invariance, <1>1, PTL

(* A confirmed deletion has cleared the avatar, unless an update revives it. *)
THEOREM DeletionClearsAvatar == Spec => []DeletedIsNoAvatar
  <1>1. IInv => DeletedIsNoAvatar
    BY DEF IInv, FilesInv
  <1> QED
    BY Invariance, <1>1, PTL

(* Nobody reads another user's file or makes it an avatar. *)
THEOREM FilesArePrivate == Spec => []OwnersOnly
  <1>1. IInv => OwnersOnly
    BY Values DEF IInv, FilesInv, TypeOK, HeldInv, UploadedInv, OwnersOnly
  <1> QED
    BY Invariance, <1>1, PTL

(* Only overlapping requests of one user, deaths and outages leave a stale profile
   in the cache. *)
THEOREM ProfilesStayCoherent == Spec => []ProfileCacheCoherent
  <1>1. IInv => ProfileCacheCoherent
    BY DEF IInv, CoherentInv, Busy, ProfileCacheCoherent
  <1> QED
    BY Invariance, <1>1, PTL

-----------------------------------------------------------------------------
(* FileStorage implements FileLifecycle. *)

(* A step that leaves documents, objects and confirmations alone is a stutter. *)
LEMMA LifecycleStutter ==
  ASSUME UNCHANGED <<record, owner, object, avatar, gone, revived>>
  PROVE  UNCHANGED Lifecycle!vars
  BY DEF Lifecycle!vars, Phase

LEMMA LifecycleInit == Init => Lifecycle!Init
  BY DEF Init, Lifecycle!Init, Phase

(* The phases, file by file; a file without an owner is unknown. *)
LEMMA Phases ==
  ASSUME TypeOK, FilesInv, NEW f \in Files
  PROVE  /\ owner[f] = None => Phase[f] = "unknown"
         /\ record[f] = "none" /\ owner[f] # None => Phase[f] = "uploading"
         /\ record[f] = "active" => Phase[f] = "kept"
         /\ record[f] = "deleted" => Phase[f] \in {"discarded", "gone"}
         /\ Phase[f] = "kept" => record[f] = "active"
         /\ Phase[f] = "gone" <=> f \in gone
  BY DEF Phase, TypeOK, FilesInv, UploadedInv, DeletedIsGone

(* The five steps that change what a user sees of the files. *)
LEMMA UploadStep ==
  ASSUME TypeOK, FilesInv, NEW w \in Workers, NEW u \in Users, NEW f \in Files, PutObject(w, u, f)
  PROVE  Lifecycle!Upload(u, f)
  <1>1. /\ owner[f] = None /\ owner' = [owner EXCEPT ![f] = u] /\ object' = object \cup {f}
        /\ UNCHANGED <<record, avatar, gone, revived>>
    BY DEF PutObject, userVars, history
  <1>2. Phase[f] = "unknown" /\ record[f] = "none" /\ f \notin gone
    BY <1>1, Phases DEF TypeOK, FilesInv, UploadedInv
  <1>3. Phase' = [Phase EXCEPT ![f] = "uploading"]
    BY <1>1, <1>2, Values DEF Phase, TypeOK
  <1> QED
    BY <1>1, <1>2, <1>3 DEF Lifecycle!Upload

LEMMA KeepStep ==
  ASSUME TypeOK, FilesInv, NEW w \in Workers, InsertRecord(w)
  PROVE  Lifecycle!Keep(req[w].file)
  <1> DEFINE f == req[w].file
  <1>1. /\ pc[w] = "insert" /\ record' = [record EXCEPT ![f] = "active"]
        /\ UNCHANGED <<owner, object, avatar, gone, revived>>
    BY DEF InsertRecord, userVars, history
  <1>2. f \in Files /\ f \in object /\ record[f] = "none" /\ owner[f] # None /\ f \notin gone
    BY <1>1 DEF TypeOK, FilesInv, HeldInv, UploadedInv, DeletedIsGone
  <1>3. Phase[f] = "uploading"
    BY <1>2, Phases
  <1>4. Phase' = [Phase EXCEPT ![f] = "kept"]
    BY <1>1, <1>2 DEF Phase, TypeOK
  <1> QED
    BY <1>1, <1>2, <1>3, <1>4 DEF Lifecycle!Keep

(* The first deletion discards the file, a later one finds it discarded. *)
LEMMA DiscardStep ==
  ASSUME TypeOK, FilesInv, NEW w \in Workers, SoftDelete(w)
  PROVE  Lifecycle!Discard(req[w].file) \/ UNCHANGED Lifecycle!vars
  <1> DEFINE f == req[w].file
  <1>1. /\ pc[w] = "softDelete" /\ record' = [record EXCEPT ![f] = "deleted"]
        /\ UNCHANGED <<owner, object, avatar, gone, revived>>
    BY DEF SoftDelete, userVars, history
  <1>2. f \in Files /\ record[f] \in {"active", "deleted"}
    BY <1>1, Values DEF TypeOK, FilesInv, HeldInv
  <1>3. CASE record[f] = "active"
    <2>1. Phase[f] = "kept" /\ f \notin gone
      BY <1>2, <1>3, Phases
    <2>2. Phase' = [Phase EXCEPT ![f] = "discarded"]
      BY <1>1, <1>2, <2>1 DEF Phase, TypeOK
    <2> QED
      BY <1>1, <2>1, <2>2 DEF Lifecycle!Discard
  <1>4. CASE record[f] = "deleted"
    <2>1. record' = record
      BY <1>1, <1>2, <1>4 DEF TypeOK
    <2> QED
      BY <1>1, <2>1, LifecycleStutter
  <1> QED
    BY <1>2, <1>3, <1>4

(* The first answer to a deletion removes the file, a later one finds it removed. *)
LEMMA RemoveStep ==
  ASSUME TypeOK, FilesInv, NEW w \in Workers, RemoveObject(w)
  PROVE  Lifecycle!Remove(req[w].file) \/ UNCHANGED Lifecycle!vars
  <1> DEFINE f == req[w].file
  <1>1. /\ pc[w] = "remove" /\ object' = object \ {f} /\ gone' = gone \cup {f}
        /\ UNCHANGED <<record, owner, avatar, revived>>
    BY DEF RemoveObject, userVars
  <1>2. f \in Files /\ record[f] = "deleted" /\ (f \in revived \/ \A u \in Users : avatar[u] # f)
    BY <1>1 DEF TypeOK, FilesInv, DeletingInv, ClearedInv, Deleting, Cleared
  <1>3. CASE f \in gone
    <2>1. gone' = gone /\ object' = object
      BY <1>1, <1>3 DEF FilesInv, DeletedIsGone
    <2> QED
      BY <1>1, <2>1, LifecycleStutter
  <1>4. CASE f \notin gone
    <2>1. Phase[f] = "discarded"
      BY <1>2, <1>4, Phases
    <2>2. Phase' = [Phase EXCEPT ![f] = "gone"]
      BY <1>1, <1>2 DEF Phase
    <2> QED
      BY <1>1, <1>2, <2>1, <2>2 DEF Lifecycle!Remove
  <1> QED
    BY <1>3, <1>4

LEMMA AvatarStep ==
  ASSUME TypeOK, FilesInv, NEW w \in Workers, UpdateUser(w) \/ UnsetAvatar(w)
  PROVE  \/ \E u \in Users, f \in Files : Lifecycle!Show(u, f)
         \/ \E u \in Users : Lifecycle!Hide(u)
         \/ UNCHANGED Lifecycle!vars
  <1> DEFINE u == req[w].user
             f == req[w].file
  <1>1. /\ pc[w] \in {"update", "unsetAvatar"}
        /\ UNCHANGED <<record, owner, object, gone>>
    BY DEF UpdateUser, UnsetAvatar, fileVars, history
  <1>2. u \in Users /\ f \in Files \cup {None}
    BY <1>1 DEF TypeOK, Request
  <1>3. Phase' = Phase
    BY <1>1 DEF Phase
  <1>4. CASE UpdateUser(w) /\ f # None
    <2>1. f \in Files /\ owner[f] = u /\ record[f] # "none"
      BY <1>2, <1>4 DEF UpdateUser, FilesInv, HeldInv
    <2>2. Phase[f] \in {"kept", "discarded", "gone"}
      BY <2>1, Phases DEF TypeOK
    <2>3. avatar' = [avatar EXCEPT ![u] = f]
      BY <1>4 DEF UpdateUser
    <2>4. record[f] = "deleted" <=> Phase[f] # "kept"
      BY <2>1, Phases DEF TypeOK
    <2>5. revived' = revived \cup ({f} \ {g \in Files : Phase[g] = "kept"})
      <3>1. revived' = revived \cup {g \in {f} \cap Files : record[g] = "deleted"}
        BY <1>4 DEF UpdateUser
      <3> QED
        BY <2>1, <2>4, <3>1
    <2> QED
      BY <1>1, <1>2, <1>3, <2>1, <2>2, <2>3, <2>5 DEF Lifecycle!Show
  <1>5. CASE UpdateUser(w) /\ f = None
    <2>1. revived' = revived
      BY <1>5, Values DEF UpdateUser
    <2>2. avatar' = avatar \/ avatar' = [avatar EXCEPT ![u] = None]
      BY <1>5 DEF UpdateUser
    <2> QED
      BY <1>1, <1>2, <1>3, <2>1, <2>2 DEF Lifecycle!Hide, Lifecycle!vars
  <1>6. CASE UnsetAvatar(w)
    <2>1. revived' = revived
      BY <1>6 DEF UnsetAvatar, history
    <2>2. avatar' = avatar \/ avatar' = [avatar EXCEPT ![u] = None]
      BY <1>2, <1>6 DEF UnsetAvatar, TypeOK
    <2> QED
      BY <1>1, <1>2, <1>3, <2>1, <2>2 DEF Lifecycle!Hide, Lifecycle!vars
  <1> QED
    BY <1>4, <1>5, <1>6

(* Every step of the service is a step in the life of a file, or changes none. *)
LEMMA LifecycleStep == TypeOK /\ FilesInv /\ [Next]_vars => Lifecycle!Next \/ UNCHANGED Lifecycle!vars
  <1> SUFFICES ASSUME TypeOK, FilesInv, [Next]_vars PROVE Lifecycle!Next \/ UNCHANGED Lifecycle!vars
    OBVIOUS
  <1> USE DEF fileVars, userVars, history
  <1>1. CASE UNCHANGED vars
    BY <1>1, LifecycleStutter DEF vars
  <1>2. ASSUME NEW w \in Workers, NEW u \in Users, NEW f \in Files, PutObject(w, u, f) PROVE Lifecycle!Next \/ UNCHANGED Lifecycle!vars
    BY <1>2, UploadStep DEF Lifecycle!Next
  <1>3. ASSUME NEW w \in Workers, InsertRecord(w) PROVE Lifecycle!Next \/ UNCHANGED Lifecycle!vars
    BY <1>3, KeepStep DEF Lifecycle!Next, InsertRecord, TypeOK
  <1>4. ASSUME NEW w \in Workers, SoftDelete(w) PROVE Lifecycle!Next \/ UNCHANGED Lifecycle!vars
    BY <1>4, DiscardStep DEF Lifecycle!Next, SoftDelete, TypeOK
  <1>5. ASSUME NEW w \in Workers, RemoveObject(w) PROVE Lifecycle!Next \/ UNCHANGED Lifecycle!vars
    BY <1>5, RemoveStep DEF Lifecycle!Next, RemoveObject, TypeOK
  <1>6. ASSUME NEW w \in Workers, UpdateUser(w) \/ UnsetAvatar(w) PROVE Lifecycle!Next \/ UNCHANGED Lifecycle!vars
    BY <1>6, AvatarStep DEF Lifecycle!Next
  <1>7. ASSUME NEW w \in Workers, CacheMeta(w) PROVE Lifecycle!Next \/ UNCHANGED Lifecycle!vars
    BY <1>7, LifecycleStutter DEF CacheMeta
  <1>8. ASSUME NEW w \in Workers, FindRecord(w) PROVE Lifecycle!Next \/ UNCHANGED Lifecycle!vars
    BY <1>8, LifecycleStutter DEF FindRecord
  <1>9. ASSUME NEW w \in Workers, FillMeta(w) PROVE Lifecycle!Next \/ UNCHANGED Lifecycle!vars
    BY <1>9, LifecycleStutter DEF FillMeta
  <1>10. ASSUME NEW w \in Workers, GetObject(w) PROVE Lifecycle!Next \/ UNCHANGED Lifecycle!vars
    BY <1>10, LifecycleStutter DEF GetObject
  <1>11. ASSUME NEW w \in Workers, DelMeta(w) PROVE Lifecycle!Next \/ UNCHANGED Lifecycle!vars
    BY <1>11, LifecycleStutter DEF DelMeta
  <1>12. ASSUME NEW w \in Workers, ReadBack(w) PROVE Lifecycle!Next \/ UNCHANGED Lifecycle!vars
    BY <1>12, LifecycleStutter DEF ReadBack
  <1>13. ASSUME NEW w \in Workers, DelProfile(w) PROVE Lifecycle!Next \/ UNCHANGED Lifecycle!vars
    BY <1>13, LifecycleStutter DEF DelProfile
  <1>14. ASSUME NEW w \in Workers, SetProfile(w) PROVE Lifecycle!Next \/ UNCHANGED Lifecycle!vars
    BY <1>14, LifecycleStutter DEF SetProfile
  <1>15. ASSUME NEW w \in Workers, Die(w) PROVE Lifecycle!Next \/ UNCHANGED Lifecycle!vars
    BY <1>15, LifecycleStutter DEF Die
  <1>16. ASSUME NEW w \in Workers, NEW u \in Users, NEW op \in Lookups, NEW f \in Files, LookupMeta(w, u, op, f) PROVE Lifecycle!Next \/ UNCHANGED Lifecycle!vars
    BY <1>16, LifecycleStutter DEF LookupMeta
  <1>17. ASSUME NEW w \in Workers, NEW u \in Users, StartUpdate(w, u) \/ GetProfile(w, u) PROVE Lifecycle!Next \/ UNCHANGED Lifecycle!vars
    BY <1>17, LifecycleStutter DEF StartUpdate, GetProfile
  <1>18. CASE Environment
    BY <1>18, LifecycleStutter DEF Environment, RedisFails, RedisRecovers, MetaExpires, ProfileExpires
  <1> QED
    BY <1>1, <1>2, <1>3, <1>4, <1>5, <1>6, <1>7, <1>8, <1>9, <1>10, <1>11, <1>12, <1>13, <1>14, <1>15, <1>16, <1>17, <1>18
    DEF Next, Refuse, Upload, OwnedFile, Delete, Profile

(* The service implements the life of a file for any numbers of requests, users and
   files and any faults: phases have one direction, a file keeps its holder, and its
   object goes last (service.py:107-129, 179-221). *)
THEOREM ServiceImplementsFileLifecycle == Spec => ImplementsFileLifecycle
  <1>1. IInv /\ [Next]_vars => [Lifecycle!Next]_(Lifecycle!vars)
    BY LifecycleStep DEF IInv
  <1> QED
    BY <1>1, LifecycleInit, Invariance, PTL DEF Spec, ImplementsFileLifecycle, Lifecycle!Spec
=============================================================================
