---------------------------- MODULE FileStorage ----------------------------
(***************************************************************************)
(* Files, avatars and the profile cache (App/modules/storage/service.py,   *)
(* App/modules/users/service.py): a file is a record in MongoDB, an object *)
(* in MinIO and a cache entry; a user's avatar is a reference in the user  *)
(* document and in the cached profile.  A worker is one request; each of   *)
(* its steps is one call to MinIO, MongoDB or Redis.  The profile read of  *)
(* the guard is the same read-through as that of GET /profile, and counts  *)
(* as a request of its own.                                                *)
(***************************************************************************)
EXTENDS FiniteSets

CONSTANTS
  Workers, Users, Files,
  Faults,     \* what the environment may do
  None,       \* no file
  NoKey       \* no cached profile

ASSUME ValuesAssumption == None \notin Users \cup Files /\ NoKey \notin Files \cup {None}

VARIABLES
  record,      \* document of files: "none", "active" or "deleted"
  owner,       \* its user_id; part of the object key, so known from the upload on
  object,      \* files whose object is in MinIO
  meta,        \* files whose metadata is cached
  avatar,      \* avatar_file_id of a user document
  profile,     \* avatar_file_id of the cached profile, NoKey without one
  redisUp,
  gone, revived, disturbed, died,   \* history: see the properties
  pc, req      \* of a worker: its next call and its locals

fileVars == <<record, owner, object>>
userVars == <<avatar, profile>>
history  == <<gone, revived, disturbed, died>>
vars == <<fileVars, meta, userVars, redisUp, history, pc, req>>

(* The operations that read or write the cached profile, and its writers. *)
Writers    == {"delete", "setAvatar"}
ProfileOps == Writers \cup {"profile"}
Lookups    == Writers \cup {"download"}

Labels == {"idle", "insert", "cacheMeta", "findRecord", "fillMeta", "read",
           "softDelete", "unsetAvatar", "delMeta", "delProfile", "remove",
           "update", "readBack", "setProfile"}

Request == [op   : ProfileOps \cup Lookups \cup {"upload", "none"},
            user : Users \cup {None},
            file : Files \cup {None},
            seen : Files \cup {None}]   \* the avatar of the user as last read

Locals(op, u, f) == [op |-> op, user |-> u, file |-> f, seen |-> None]
NoRequest        == Locals("none", None, None)

Init ==
  /\ record = [f \in Files |-> "none"]
  /\ owner = [f \in Files |-> None]
  /\ object = {}
  /\ meta = {}
  /\ avatar = [u \in Users |-> None]
  /\ profile = [u \in Users |-> NoKey]
  /\ redisUp = TRUE
  /\ gone = {} /\ revived = {} /\ disturbed = {} /\ died = FALSE
  /\ pc = [w \in Workers |-> "idle"]
  /\ req = [w \in Workers |-> NoRequest]

Goto(w, label) == pc' = [pc EXCEPT ![w] = label]

Finish(w) ==
  /\ Goto(w, "idle")
  /\ req' = [req EXCEPT ![w] = NoRequest]

(* History: the request starts while another one of the same user is there,
   and one of the two writes the profile. *)
Overlaps(w, u, op) ==
  disturbed' =
    IF \E v \in Workers \ {w} :
         /\ pc[v] # "idle"
         /\ req[v].user = u
         /\ {op, req[v].op} \subseteq ProfileOps
         /\ {op, req[v].op} \cap Writers # {}
    THEN disturbed \cup {u} ELSE disturbed

(* A request refused before its first change: an upload that is not an image,
   a foreign file in the cache; a profile answered from the cache. *)
Refuse(w) == pc[w] = "idle" /\ UNCHANGED vars

-----------------------------------------------------------------------------
(* uploadFile: the object, the record, the cache *)

(* Faulty variant: an error of MinIO is swallowed. *)
PutNothing(w, u, f) ==
  /\ pc[w] = "idle"
  /\ owner[f] = None
  /\ owner' = [owner EXCEPT ![f] = u]
  /\ Goto(w, "insert")
  /\ req' = [req EXCEPT ![w] = Locals("upload", u, f)]
  /\ UNCHANGED <<record, object, meta, userVars, redisUp, history>>

PutObject(w, u, f) ==
  /\ pc[w] = "idle"
  /\ owner[f] = None
  /\ owner' = [owner EXCEPT ![f] = u]
  /\ object' = object \cup {f}
  /\ Goto(w, "insert")
  /\ req' = [req EXCEPT ![w] = Locals("upload", u, f)]
  /\ UNCHANGED <<record, meta, userVars, redisUp, history>>

InsertRecord(w) ==
  /\ pc[w] = "insert"
  /\ record' = [record EXCEPT ![req[w].file] = "active"]
  /\ Goto(w, "cacheMeta")
  /\ UNCHANGED <<owner, object, meta, userVars, redisUp, history, req>>

CacheMeta(w) ==
  /\ pc[w] = "cacheMeta"
  /\ meta' = IF redisUp THEN meta \cup {req[w].file} ELSE meta
  /\ Finish(w)
  /\ UNCHANGED <<fileVars, userVars, redisUp, history>>

-----------------------------------------------------------------------------
(* get_owned_file, the first part of download, delete and avatar change *)

After == [download |-> "read", delete |-> "softDelete", setAvatar |-> "update"]

(* Faulty variant: a cached file is anybody's. *)
LookupAnyones(w, u, op, f) ==
  /\ pc[w] = "idle"
  /\ Goto(w, IF redisUp /\ f \in meta THEN After[op] ELSE "findRecord")
  /\ req' = [req EXCEPT ![w] = Locals(op, u, f)]
  /\ Overlaps(w, u, op)
  /\ UNCHANGED <<fileVars, meta, userVars, redisUp, gone, revived, died>>

(* A cache hit is trusted, whatever the record says by now. *)
LookupMeta(w, u, op, f) ==
  /\ pc[w] = "idle"
  /\ redisUp /\ f \in meta => owner[f] = u
  /\ Goto(w, IF redisUp /\ f \in meta THEN After[op] ELSE "findRecord")
  /\ req' = [req EXCEPT ![w] = Locals(op, u, f)]
  /\ Overlaps(w, u, op)
  /\ UNCHANGED <<fileVars, meta, userVars, redisUp, gone, revived, died>>

FindRecord(w) ==
  /\ pc[w] = "findRecord"
  /\ \/ /\ record[req[w].file] = "active"
        /\ owner[req[w].file] = req[w].user
        /\ Goto(w, "fillMeta")
        /\ UNCHANGED req
     \/ /\ record[req[w].file] # "active" \/ owner[req[w].file] # req[w].user
        /\ Finish(w)
  /\ UNCHANGED <<fileVars, meta, userVars, redisUp, history>>

FillMeta(w) ==
  /\ pc[w] = "fillMeta"
  /\ meta' = IF redisUp THEN meta \cup {req[w].file} ELSE meta
  /\ Goto(w, After[req[w].op])
  /\ UNCHANGED <<fileVars, userVars, redisUp, history, req>>

-----------------------------------------------------------------------------
(* download_file: the object is streamed, or its absence is an error *)

GetObject(w) ==
  /\ pc[w] = "read"
  /\ Finish(w)
  /\ UNCHANGED <<fileVars, meta, userVars, redisUp, history>>

-----------------------------------------------------------------------------
(* delete_owned_file *)

(* Faulty variant: the object goes before the record. *)
RemoveFirst(w) ==
  /\ pc[w] = "softDelete"
  /\ object' = object \ {req[w].file}
  /\ record' = [record EXCEPT ![req[w].file] = "deleted"]
  /\ Goto(w, "unsetAvatar")
  /\ UNCHANGED <<owner, meta, userVars, redisUp, history, req>>

SoftDelete(w) ==
  /\ pc[w] = "softDelete"
  /\ record' = [record EXCEPT ![req[w].file] = "deleted"]
  /\ Goto(w, "unsetAvatar")
  /\ UNCHANGED <<owner, object, meta, userVars, redisUp, history, req>>

(* Faulty variant: the filter compares the UUID, not its string, and matches
   no document. *)
UnsetNothing(w) ==
  /\ pc[w] = "unsetAvatar"
  /\ Goto(w, "delMeta")
  /\ UNCHANGED <<fileVars, meta, userVars, redisUp, history, req>>

UnsetAvatar(w) ==
  /\ pc[w] = "unsetAvatar"
  /\ avatar' = [avatar EXCEPT ![req[w].user] = IF @ = req[w].file THEN None ELSE @]
  /\ Goto(w, "delMeta")
  /\ UNCHANGED <<fileVars, meta, profile, redisUp, history, req>>

DelMeta(w) ==
  /\ pc[w] = "delMeta"
  /\ meta' = IF redisUp THEN meta \ {req[w].file} ELSE meta
  /\ Goto(w, "delProfile")
  /\ UNCHANGED <<fileVars, userVars, redisUp, history, req>>

(* Faulty variant: the answer does not wait for the object. *)
RemoveLater(w) ==
  /\ pc[w] = "remove"
  /\ gone' = gone \cup {req[w].file}
  /\ Finish(w)
  /\ UNCHANGED <<fileVars, meta, userVars, redisUp, revived, disturbed, died>>

(* deleteFile, then the answer 204. *)
RemoveObject(w) ==
  /\ pc[w] = "remove"
  /\ object' = object \ {req[w].file}
  /\ gone' = gone \cup {req[w].file}
  /\ Finish(w)
  /\ UNCHANGED <<record, owner, meta, userVars, redisUp, revived, disturbed, died>>

-----------------------------------------------------------------------------
(* POST /profile and the read-through of get_active_by_id *)

(* Faulty variant: a cleared avatar is looked up as well. *)
LookupNothing(w, u) ==
  /\ pc[w] = "idle"
  /\ Goto(w, "findRecord")
  /\ req' = [req EXCEPT ![w] = Locals("setAvatar", u, None)]
  /\ Overlaps(w, u, "setAvatar")
  /\ UNCHANGED <<fileVars, meta, userVars, redisUp, gone, revived, died>>

(* Without an avatar file there is nothing to look up. *)
StartUpdate(w, u) ==
  /\ pc[w] = "idle"
  /\ Goto(w, "update")
  /\ req' = [req EXCEPT ![w] = Locals("setAvatar", u, None)]
  /\ Overlaps(w, u, "setAvatar")
  /\ UNCHANGED <<fileVars, meta, userVars, redisUp, gone, revived, died>>

(* The avatar is set, cleared, or not part of the update. *)
UpdateUser(w) ==
  /\ pc[w] = "update"
  /\ \/ avatar' = [avatar EXCEPT ![req[w].user] = req[w].file]
     \/ req[w].file = None /\ UNCHANGED avatar
  /\ revived' = revived \cup {f \in {req[w].file} \cap Files : record[f] = "deleted"}
  /\ Goto(w, "readBack")
  /\ UNCHANGED <<fileVars, meta, profile, redisUp, gone, disturbed, died, req>>

(* The document is read: again by update, after a miss by get_active_by_id. *)
ReadBack(w) ==
  /\ pc[w] = "readBack"
  /\ req' = [req EXCEPT ![w].seen = avatar[req[w].user]]
  /\ Goto(w, IF req[w].op = "profile" THEN "setProfile" ELSE "delProfile")
  /\ UNCHANGED <<fileVars, meta, userVars, redisUp, history>>

(* Faulty variant: the key that is deleted is not the one that was set. *)
DelOtherKey(w) ==
  /\ pc[w] = "delProfile"
  /\ Goto(w, IF req[w].op = "delete" THEN "remove" ELSE "setProfile")
  /\ UNCHANGED <<fileVars, meta, userVars, redisUp, history, req>>

DelProfile(w) ==
  /\ pc[w] = "delProfile"
  /\ profile' = [profile EXCEPT ![req[w].user] = IF redisUp THEN NoKey ELSE @]
  /\ Goto(w, IF req[w].op = "delete" THEN "remove" ELSE "setProfile")
  /\ UNCHANGED <<fileVars, meta, avatar, redisUp, history, req>>

SetProfile(w) ==
  /\ pc[w] = "setProfile"
  /\ profile' = [profile EXCEPT ![req[w].user] = IF redisUp THEN req[w].seen ELSE @]
  /\ Finish(w)
  /\ UNCHANGED <<fileVars, meta, avatar, redisUp, history>>

(* get_active_by_id misses the cache, reads the document and fills the cache. *)
GetProfile(w, u) ==
  /\ pc[w] = "idle"
  /\ redisUp => profile[u] = NoKey
  /\ Goto(w, "readBack")
  /\ req' = [req EXCEPT ![w] = Locals("profile", u, None)]
  /\ Overlaps(w, u, "profile")
  /\ UNCHANGED <<fileVars, meta, userVars, redisUp, gone, revived, died>>

-----------------------------------------------------------------------------
(* The environment *)

(* An exception of MinIO or MongoDB, or the end of the process. *)
Die(w) ==
  /\ "die" \in Faults
  /\ pc[w] # "idle"
  /\ died' = TRUE
  /\ disturbed' = disturbed \cup {req[w].user}
  /\ Finish(w)
  /\ UNCHANGED <<fileVars, meta, userVars, redisUp, gone, revived>>

RedisFails ==
  /\ "redis" \in Faults
  /\ redisUp
  /\ redisUp' = FALSE
  /\ disturbed' = Users
  /\ UNCHANGED <<fileVars, meta, userVars, gone, revived, died, pc, req>>

(* With its keys, or without them. *)
RedisRecovers ==
  /\ ~redisUp
  /\ redisUp' = TRUE
  /\ \/ UNCHANGED <<meta, profile>>
     \/ meta' = {} /\ profile' = [u \in Users |-> NoKey]
  /\ UNCHANGED <<fileVars, avatar, history, pc, req>>

MetaExpires(f) ==
  /\ f \in meta
  /\ meta' = meta \ {f}
  /\ UNCHANGED <<fileVars, userVars, redisUp, history, pc, req>>

ProfileExpires(u) ==
  /\ profile[u] # NoKey
  /\ profile' = [profile EXCEPT ![u] = NoKey]
  /\ UNCHANGED <<fileVars, meta, avatar, redisUp, history, pc, req>>

-----------------------------------------------------------------------------
Upload(w) ==
  \/ \E u \in Users, f \in Files : PutObject(w, u, f)
  \/ InsertRecord(w)
  \/ CacheMeta(w)

OwnedFile(w) ==
  \/ \E u \in Users, op \in Lookups, f \in Files : LookupMeta(w, u, op, f)
  \/ FindRecord(w)
  \/ FillMeta(w)

Delete(w) == SoftDelete(w) \/ UnsetAvatar(w) \/ DelMeta(w) \/ RemoveObject(w)

Profile(w) ==
  \/ \E u \in Users : StartUpdate(w, u) \/ GetProfile(w, u)
  \/ UpdateUser(w)
  \/ ReadBack(w)
  \/ DelProfile(w)
  \/ SetProfile(w)

Environment ==
  \/ RedisFails
  \/ RedisRecovers
  \/ \E f \in Files : MetaExpires(f)
  \/ \E u \in Users : ProfileExpires(u)

Next ==
  \/ \E w \in Workers :
       Refuse(w) \/ Upload(w) \/ OwnedFile(w) \/ GetObject(w) \/ Delete(w) \/ Profile(w) \/ Die(w)
  \/ Environment

Spec == Init /\ [][Next]_vars

-----------------------------------------------------------------------------
(* Properties *)

(* Type invariant; a request past its lookup has the file it acts on. *)
TypeOK ==
  /\ record \in [Files -> {"none", "active", "deleted"}]
  /\ owner \in [Files -> Users \cup {None}]
  /\ object \subseteq Files /\ meta \subseteq Files
  /\ avatar \in [Users -> Files \cup {None}]
  /\ profile \in [Users -> Files \cup {None, NoKey}]
  /\ redisUp \in BOOLEAN
  /\ gone \subseteq Files /\ revived \subseteq Files /\ disturbed \subseteq Users
  /\ died \in BOOLEAN
  /\ pc \in [Workers -> Labels]
  /\ req \in [Workers -> Request]
  /\ \A w \in Workers :
       /\ pc[w] # "idle" => req[w].user \in Users /\ req[w].op # "none"
       /\ \/ pc[w] \notin {"idle", "update", "readBack", "delProfile", "setProfile"}
          \/ req[w].op = "delete"
          => req[w].file \in Files

(* An active record has its object, and, as long as no request has died, an
   object without an active record is being uploaded or deleted: nothing is left
   behind, however many requests act on one file (service.py:107-129, 181-196). *)
ObjectsMatchRecords ==
  \A f \in Files :
    /\ record[f] = "active" => f \in object
    /\ f \in object /\ record[f] # "active" /\ ~died =>
         \E w \in Workers :
           /\ req[w].file = f
           /\ req[w].op \in {"upload", "delete"}
           /\ pc[w] \in {"insert", "unsetAvatar", "delMeta", "delProfile", "remove"}

(* A file whose deletion was answered is gone for good, stale metadata in the
   cache or not (service.py:179-196). *)
DeletedIsGone ==
  \A f \in gone : record[f] = "deleted" /\ f \notin object

(* A confirmed deletion has cleared the avatar, unless an update that had looked
   the file up before, or found stale metadata, writes it after the record is
   deleted (service.py:181-192, 218-221). *)
DeletedIsNoAvatar ==
  \A f \in gone \ revived, u \in Users : avatar[u] # f

(* Only the owner's requests read a file or make it an avatar, along the cached
   path too (service.py:163-177). *)
OwnersOnly ==
  /\ \A w \in Workers : pc[w] = "read" => owner[req[w].file] = req[w].user
  /\ \A u \in Users : avatar[u] # None => owner[avatar[u]] = u

(* A profile that no request is about to write is cached as it is stored, unless
   requests of its user, one of them a writer, have overlapped, one has died, or
   Redis has been down; requests of other users never disturb it
   (users/service.py:30-47, 94-98). *)
ProfileCacheCoherent ==
  \A u \in Users \ disturbed :
    \/ profile[u] \in {NoKey, avatar[u]}
    \/ \E w \in Workers : pc[w] # "idle" /\ req[w].user = u /\ req[w].op \in Writers

(* The files as their users see them. *)
Phase == [f \in Files |-> IF f \in gone THEN "gone"
                          ELSE IF record[f] = "deleted" THEN "discarded"
                          ELSE IF record[f] = "active" THEN "kept"
                          ELSE IF owner[f] # None THEN "uploading" ELSE "unknown"]

Lifecycle == INSTANCE FileLifecycle WITH
  phase <- Phase, holder <- owner, stored <- object

(* The service, with its three stores, its stale cache entries and requests that stop
   anywhere, implements the life of a file.  A file never returns from its deletion
   and never changes hands; its object leaves the store by the last step of a deletion
   only, after the record and the avatar, however many uploads, deletions and avatar
   changes race (service.py:107-129, 179-221). *)
ImplementsFileLifecycle == Lifecycle!Spec
=============================================================================
