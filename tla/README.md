# Verification of the Holiday Prep API

TLA+ models, model checking and proofs for the FastAPI backend in `App/`
(imported as `app`), which serves authentication, holiday items, files and
welcome mails from MongoDB, Redis, MinIO, RabbitMQ and an SMTP server, and runs
as two pods (`k8s/06-api/deployment.yaml`) whose endpoints execute in a thread
pool.

1. [The system](#1-the-system)
2. [Modules](#2-modules)
3. [AuthSessions: model and code](#3-authsessions-model-and-code)
4. [WelcomeNotifications: model and code](#4-welcomenotifications-model-and-code)
5. [Registration: model and code](#5-registration-model-and-code)
6. [FileStorage: model and code](#6-filestorage-model-and-code)
7. [HolidayItems: model and code](#7-holidayitems-model-and-code)
8. [Runs](#8-runs)
9. [Proofs](#9-proofs)
10. [Where the code and its documentation disagree](#10-where-the-code-and-its-documentation-disagree)
11. [What is not modelled](#11-what-is-not-modelled)
12. [Plan](#12-plan)

## 1. The system

All endpoints are synchronous functions: FastAPI runs every request in a thread,
and MongoDB is used without transactions (`db.commit()` in `common/db.py` does
nothing). A request is therefore a sequence of atomic calls to MongoDB and Redis,
and the requests of all threads of all pods interleave between any two of them.
The only lock in the program is the Redis lock of `register`.

| component | state it keeps | operations | talks to |
|---|---|---|---|
| Sessions (`modules/auth`) | `session_tokens` documents (one access and one refresh document per session), JTI keys of access tokens in Redis | login, refresh, guard of the protected endpoints, logout, logout-all | MongoDB, Redis |
| Password reset (`modules/auth`) | `password_reset_tokens` documents | forgot-password, reset-password | users, sessions |
| Registration (`modules/auth`) | the lock key in Redis, `users` with a unique e-mail | register | users, sessions, RabbitMQ |
| OAuth (`modules/auth`) | `oauth_states` documents | redirect, callback | users, sessions, Yandex |
| Users and profile (`modules/users`, part of `storage`) | `users` documents, profile cache in Redis | get and update profile, set avatar | MongoDB, Redis, storage |
| Items (`modules/items`) | `holiday_items` documents, list and entity caches in Redis | list, get, create, update, patch, delete | MongoDB, Redis |
| Storage (`modules/storage`) | `files` documents, objects in MinIO, metadata cache | upload, download, list, delete | MongoDB, Redis, MinIO |
| Welcome notifications (`modules/notifications`, `common/queue`) | the durable queue and its dead letter queue, processed and attempt keys in Redis | publish, consume, retry, reject | RabbitMQ, Redis, SMTP |
| Consumer supervision (`consumer.py`, `_run`) | count of failures | connect, reconnect, stop, exit of the process | RabbitMQ, the container runtime |
| Cache wrapper (`common/cache.py`) | none | get, set, delete, delete by pattern, lock; every Redis error is swallowed | Redis |

What makes it hard:

* **Interleaving.** A session is two documents and a key, written by three calls
  and removed by two or more; logout-all removes by filter and by pattern while
  logins and refreshes of the same user and of others add.
* **Two stores that disagree.** The guard asks Redis, then MongoDB. Redis may be
  down for any of the calls, come back with its keys (a volume) or without them
  (`k8s/03-redis` has none), and every error of it reads as "no such key".
* **Requests that die.** An exception of the driver or the end of the process
  between two calls leaves the first part done.
* **Delivery at least once.** A message is redelivered after a crash, after a lost
  connection (the handler blocks the thread that sends the heartbeats) and after a
  failure; idempotency is a key that is read before the send and written after it.
* **Time.** Access tokens, refresh tokens, reset tokens, the keys of the notifications
  and the lock expire at any moment; a JTI key expires up to a second before its token.
  `created_at` is the clock of a pod, taken before the insert.

What makes each component correct:

* Sessions: what was ended stays ended for every later request; a session ends only when
  its own user asked for it; the guard accepts open sessions only.
* Password reset: a token works at most until it is used or replaced; a confirmed
  reset ends the sessions held before.
* Notifications: no acknowledged event is without its mail; copies are bounded while the
  event is marked;
  retries end, in an acknowledgement or in the dead letter queue; a message that a
  consumer gives up with its connection is neither lost nor settled twice.
* Registration and OAuth: one user per e-mail and per Yandex account, by the indexes or
  by the lock; a login reaches only an account that Yandex vouched for.
* Storage: an active record has its object; a confirmed deletion is final and clears the
  avatar; only the owner gets at a file, cached metadata or not.
* Profile: the cache holds what is stored, beyond overlaps of one user's requests.
* Items: the same of the list and entity caches; no foreign item is ever served from
  them; titles of a user stay apart beyond overlaps of that user's requests.

## 2. Modules

| module | what it is |
|---|---|
| `SessionLifecycle` | abstract: what the session service promises to clients, with no token, document or whitelist |
| `AuthSessions` | detailed: sessions, guard, refresh, logout, password reset, one call per step |
| `MCAuthSessions` | instances of it for TLC |
| `AuthSessionsProof` | its inductive invariant and the safety theorems |
| `AuthSessionsRefinement` | `AuthSessions` implements `SessionLifecycle` |
| `MailOutbox` | abstract: what the notification pipeline promises, with no pod, channel, key or attempt |
| `WelcomeNotifications` | queue, dead letter queue, consumers and their supervision, Redis keys, SMTP server |
| `MCWelcomeNotifications` | instances of it for TLC |
| `WelcomeNotificationsProof` | its inductive invariant and the safety theorems |
| `WelcomeNotificationsRefinement` | `WelcomeNotifications` implements `MailOutbox` |
| `UserDirectory` | abstract: what registration and the OAuth login promise about users |
| `Registration` | users, the registration lock, the OAuth callback, the unique indexes and their rebuilding by starting pods |
| `MCRegistration` | instances of it for TLC |
| `RegistrationProof` | its inductive invariant, the safety theorems and the refinement of `UserDirectory` |
| `FileLifecycle` | abstract: the life of a file, with no request, cache or fault |
| `FileStorage` | file records, objects, metadata cache, avatars and the profile cache |
| `MCFileStorage` | instances of it for TLC |
| `FileStorageProof` | its inductive invariant, the safety theorems and the refinement of `FileLifecycle` |
| `HolidayItems` | items, the query that keeps titles apart, pages, list and entity caches |
| `MCHolidayItems` | instances of it for TLC |
| `HolidayItemsProof` | its inductive invariant and the safety theorems |

The modules meet in three steps: `IssueSession` of `Registration` stands for the inserts
that `AuthSessions` details, its `PublishEvent` is the `Publish` of
`WelcomeNotifications`, and every request of `FileStorage` and `HolidayItems` has passed
the guard of `AuthSessions`. They share no other state, so they are checked and proved apart.

Definitions whose comment starts with "Faulty variant" are the ways in which a
plausible slip would change the definition that follows them. `Next` does not use
them; each shows that one property notices that slip (`mutants` in `PROJECT.json`).

## 3. AuthSessions: model and code

A *worker* is a request in execution; `pc[w]` names its next call, `req[w]` holds
its locals. Every action of a worker is one call to a store, with the checks before
and after it.

| state | code |
|---|---|
| `access[s]`, `refresh[s]` | `is_revoked` and `expires_at` of the two documents of session `s`: `none` (not inserted), `valid`, `ending` (less than a second left), `expired`, `revoked` |
| `owner[s]` | their `user_id` |
| `jti` | sessions whose key `auth:user:<user>:access:<jti>` is in Redis |
| `resetState`, `resetUser` | `is_used`, `expires_at` and `user_id` of reset tokens |
| `held`, `resetHeld` | what answers have given to clients: cookies, reset tokens |
| `closed`, `asked`, `stale` | history, see below; no guard reads them |

| actions | code |
|---|---|
| `LoginStart`; `IssueAccess`, `IssueRefresh`, `StoreJti` | `login` up to the verified password; `_issue_session_for_user`: two inserts, then the key |
| `RefreshStart`, `RevokeSession`, `ListAccess`, `DelKey`, `DelDone`, `Issue*` | `refresh_session`: check, revoke, delete keys, issue |
| `Arrive`, `GuardPing`, `GuardJti`, `GuardDb` | `get_current_auth`: JWT, ping of Redis, whitelist, access document |
| `ListAccess`, `DelKey`, `DelDone`, `RevokeSession` | `logout_current_session` |
| `ScanKeys`, `DelKey`, `DelDone`, `RevokeAll` | `logout_all_sessions` and the end of `reset_password` |
| `ForgotStart`, `CreateReset` | `forgot_password` |
| `ResetStart`, `SetPassword`, `MarkUsed` | `reset_password` |
| `Respond` | the answer with its cookies; `Refuse`, `Finish`: the 401 |
| `Abort` | an exception of MongoDB or the death of the process between two calls; also an answer that never reaches the client |
| `RedisFails`, `RedisRecovers`, `AccessExpires`, `RefreshExpires`, `JtiExpires`, `ResetExpires` | the environment |

`closed` collects, at the moment of an answer, what that answer confirmed as ended:
the presented session (logout, refresh), all sessions of the user that a client held
when the request arrived (logout-all, reset), the reset tokens of the user that a
client held when forgot-password arrived, and the token of a reset. `asked` collects the
sessions whose own user has asked to end them: by a logout that the guard let in or a
refresh that was accepted, this session; by a logout-all that was let in or a reset that was accepted,
all sessions of the user, those included that are issued before it revokes. It is written
where a request is accepted or a session inserted, never where documents are revoked, so that the two can
disagree: a revocation that reaches further than was asked violates `UsableUntilEnded` and the
refinement. `stale` are the
sessions obtained, or being obtained, with a password that has been replaced since,
and the ones refreshed from them.

Abstractions:

* A JWT, a cookie and a hash are the session they belong to. A forged or unknown one
  is `Refuse`. Clients may present any cookie they were ever given, at any time.
* `update_many` is one step. MongoDB updates document by document; a document that
  is inserted meanwhile is missed by both readings, and the properties speak of
  documents that existed before the request arrived.
* `delByPattern` is a SCAN that lists the keys once, then one DEL per step: a key
  written after the SCAN passed survives, as in the code. A Redis error ends
  `delByPattern`, and only one key of `del_key`.
* A user lookup by id always succeeds: no operation of the program deletes a user.
* A key's TTL is the remaining life of its access token, cut to whole seconds
  (`service.py:57`): `JtiExpires` is possible from the last second on (`ending`), while the
  token is still valid. The whitelist then refuses it early. `UsableUntilEnded` makes no
  claim about the key in that second; about the documents it does.
* A token's expiry may happen at any time; the order of the expiries of a session's
  access and refresh token is left open.
* A failed DEL or SET whose effect took place is a success followed by an outage.
* Sessions come from a finite set and are never reused: `Sessions` bounds the number
  of sessions issued in a behaviour of a TLC run. The proofs have no such bound.

`SessionLifecycle` knows for each session a phase (`unissued`, `open`, `ended`), its
user, whether this user has asked to end it and whether an answer has confirmed that, and
for each request the session the guard let it in with. A session ends (`End`) only when its
user asked (`Grant` of a protected request, `Ask` by a refresh or a reset), at any moment
from then on, and for good; `Answer` confirms ends that have happened; `Issue` is an answer
with a new session. The refinement maps `phase` to the *documents*, not to the history: a held session
has ended when both are revoked. So a revocation of somebody else's session, a new session
that takes over the documents of another, and a guard that lets a revoked one in are all
steps that the abstract module does not have.

## 4. WelcomeNotifications: model and code

A *consumer* is the thread of `UserRegisteredConsumer` in one pod, with at most one
unacknowledged message (`basic_qos(prefetch_count=1)`).

| state | code |
|---|---|
| `ready`, `unacked`, `acked`, `dead` | the queue, the broker's view of the deliveries, acknowledged messages, the dead letter queue |
| `attempts[e]`, `processed` | the keys `events:attempts:<eventId>` and `events:processed:<eventId>` |
| `pc`, `msg`, `attempt` | the locals of `handle_message`; they end with it |
| `failures` | the local of `_run`; it starts at 0 in every new process |
| `mails`, `mailed`, `failed`, `disturbed` | history: mails accepted since the event's mark last expired (counted until something disturbs), events ever mailed, failed sends, whether a crash, an outage or a lost SMTP answer has occurred |

| actions | code |
|---|---|
| `Publish` | `RabbitMQService.publish`, confirmed by the broker |
| `Deliver`, `Poll` | `process_data_events` and `callback` |
| `NextAttempt` | `_next_attempt`: INCR and EXPIRE; without Redis the attempt of the metadata, 1 |
| `CheckProcessed`, `AckDuplicate` | the idempotency check |
| `SendAccepted`, `SendFails`, `SendAnswerLost` | the three outcomes of an SMTP session |
| `MarkProcessed`, `DelAttempts`, `Ack` | the rest of the `try` block |
| `HandleFailure`, `Requeue`, `Reject` | `except Exception`, and the rejection of malformed messages |
| `Raise` | an exception leaves `consume`: `finally` closes the connection, the broker takes the message back, `_run` counts the failure; the last one is `os._exit(1)` and the container starts anew |
| `Connect`, `ConnectFails` | `_connect` and `basic_consume` in the next iteration of `_run`, in the same process or in the restarted one |
| `Stop` | `stop`: `consume` returns between two messages, and a new pod takes the place. A stop that finds the handler at work ends the process after 5 seconds: `Crash` |
| `MarkExpires`, `AttemptsExpire` | the 24 hours of both keys are over (`consumer.py:111`, `:119`) |
| `ConnectionLost`, `Crash`, `RedisFails`, `RedisRecovers` | the environment |

Abstractions: a message without a usable event (bad JSON, no `eventId`, another
`eventType`) has event `None` and is rejected; one with an `eventId` and another type
counts an attempt before it is rejected, which no message of a real event can see. A
message that raises before the handler's `try` (a body that is no UTF-8 or no object, an
attempt that is no number) is a `Poison`: it goes back to the queue with the connection. The
two keys of an event may expire at any moment, each on its own, since a delivery may be
arbitrarily late. An expired mark lets the event be mailed again, as in the code;
`DuplicatesBounded` therefore counts the mails of one life of the mark.
The counters saturate (`MailCap`, `FailCap`, `MaxRetries`) one above the largest value
a guard or a property compares with. A connection the broker has closed is noticed by
the consumer when it acknowledges (then `_run` reconnects), or not at all until the
handler is over; an idle one notices at once. The pause of three seconds between two
attempts to connect is left out, and so are the other requests of a process that exits:
for them it is `Abort`, `Crash` or `Die` in the other modules.

`MailOutbox` knows where each message is (`unpublished`, `pending`, `delivered`, `dead`),
which events have been mailed and which messages have had a failed send. The refinement
maps the sets of the broker to places and `mailed` and `failed` to the other two. It leaves
out who handles a message and how often it is tried, and keeps what a publisher relies on:
no message leaves `delivered` or `dead`, none is delivered before its mail, and none that
carries an event is dead-lettered without a failed send of its own. The last is what
remains of the retry limit when an event is published more than once or connections are
lost: the attempt counter belongs to the event and counts deliveries, so `MaxRetries`
failures of the message itself are promised by `DeadAfterMaxRetries` only where neither
happens.

## 5. Registration: model and code

A worker is a request; `register` and its alias `POST /users` are one operation.

| state | code |
|---|---|
| `lock[e]` | the key `locks:auth:register:<email>`: the request whose `lock_id` it holds, or `Orphan`, the `lock_id` of a request that is over |
| `email[u]`, `yandex[u]` | the user documents; a user without e-mail does not exist |
| `emailIndex`, `yandexIndex` | whether the unique indexes exist; `startup` is the next call of `create_indexes` in a starting pod |
| `state[t]` | `is_used` and `expires_at` of a document of `oauth_states` |
| `published` | users whose `user.registered` event the broker has confirmed |
| `bypassed` | history: a running request has lost its lock, or a callback has inserted a user while there was no e-mail index |

| actions | code |
|---|---|
| `Acquire`, `AcquireAnswerLost`, `Release` | `acquire_lock` (SET NX EX) and `release_lock` (compare and delete in one script) |
| `CheckEmail`, `InsertUser`, `IssueSession`, `PublishEvent` | the body of the `try` in `register` |
| `Raise` | an exception in it: `finally` releases the lock. `DuplicateKeyError` is part of `InsertUser` |
| `Redirect`, `CallbackStart`, `MarkState`, `Exchange`, `FindByYandex`, `FindByEmail`, `Link`, `CreateOAuthUser`, `SignIn` | `get_oauth_redirect_url` and `handle_oauth_callback` call by call |
| `CallbackFails` | an exception of Yandex or MongoDB in the callback |
| `CreateEmailIndex`, `DropYandexIndex`, `CreateYandexIndex`, `StartupFails` | `create_indexes` in `startup`, which goes on when it fails |
| `Crash`, `LockExpires`, `RedisFails`, `RedisRecovers`, `StateExpires` | the environment |

Abstractions:

* E-mails and accounts are identifiers. Every path lowers and strips the address before
  it is compared or stored, so equal identifiers are equal strings.
* `Profiles` are the pairs of account and e-mail that Yandex may answer, for the whole
  behaviour. `OneUserPerYandexId` says what it assumes of them; the other properties
  allow an account to change its e-mail.
* The lock expires under a running request only with the fault `slow`: 30 seconds are
  far longer than its calls, unless one of them hangs.
* Users are never deleted (no operation does), so `deleted_at` is left out.
* Cache writes of the profile are left out; they are the subject of `FileStorage`.
* `_issue_session_for_user` in the callback is part of `SignIn`.

`UserDirectory` has users with an e-mail and possibly an account, whether it vouches for
one user per e-mail (`unique`, mapped to `emailIndex \/ ~bypassed`), and the users whose
registration was announced. Users enter, are linked and are announced; they never leave or
change their e-mail. `Doubt` stands for the loss of a lock under a running request, `Vouch`
for a pod whose start builds the index, which MongoDB refuses if there are duplicates.

## 6. FileStorage: model and code

| state | code |
|---|---|
| `record[f]`, `owner[f]` | `deleted_at` and `user_id` of a document of `files` |
| `object` | the objects in the bucket; a key is never written twice (`file_id` is a fresh UUID) |
| `meta` | files whose metadata is cached; its content never changes, so presence is enough |
| `avatar[u]`, `profile[u]` | `avatar_file_id` of the user document, and of the cached profile |
| `gone` | history: deletions that were answered |
| `revived` | history: deleted files that an update has made an avatar |
| `disturbed`, `died` | history: users of whom requests overlapped (one of them writing the profile) or died, all users once Redis was down; whether any request has died |

| actions | code |
|---|---|
| `PutObject`, `InsertRecord`, `CacheMeta` | `uploadFile` |
| `LookupMeta`, `FindRecord`, `FillMeta` | `get_owned_file`, the first part of download, delete and avatar change |
| `GetObject` | `getFileStream` |
| `SoftDelete`, `UnsetAvatar`, `DelMeta`, `DelProfile`, `RemoveObject` | `delete_owned_file` |
| `StartUpdate`, `UpdateUser`, `ReadBack`, `DelProfile`, `SetProfile` | `ProfileService.update_profile` and `UsersService.update_profile` |
| `GetProfile`, `ReadBack`, `SetProfile` | the read-through of `get_active_by_id` |
| `Die` | an exception of MinIO or MongoDB, or the end of the process, between two calls |
| `RedisFails`, `RedisRecovers`, `MetaExpires`, `ProfileExpires` | the environment |

Abstractions:

* The avatar stands for the profile: other fields are written by the same statements.
  An update without an avatar leaves it or clears it.
* The guard of every endpoint reads the profile through the cache before the handler
  runs. It keeps only the user's id of it, so this read counts as a request of its own.
* The response of the profile endpoints adds one read of the record; it changes nothing.
* A file id may be presented by anybody at any time, before its upload is over too.
* Failed uploads that stored their object are `PutObject` followed by `Die`.

`FileLifecycle` gives each file a phase (`unknown`, `uploading`, `kept`, `discarded`,
`gone`), one holder for good and its bytes, and each user the avatar shown. `gone` is
mapped from answered deletions, the other phases from the record. Phases go forward only;
`Keep` needs the bytes in the store, `Remove` follows `Discard` and finds no avatar with
the file unless an update revived it, and `Show` is for the holder.

## 7. HolidayItems: model and code

A worker is a request that has passed the guard.

| state | code |
|---|---|
| `status[i]`, `owner[i]`, `title[i]`, `created[i]` | `deleted_at`, `owner_id`, the content and `created_at` of a document of `holiday_items` |
| `list[u][p]`, `entity[u][i]` | the keys `items:list:user:<u>:page:<p>:...` and `items:entity:user:<u>:<i>` |
| `raced`, `disturbed` | history: users of whom two requests with a title overlapped; of whom a read overlapped a change, or a change was not followed by its deletions of entries |
| `req` | the request's arguments and what the database has answered so far |

| actions | code |
|---|---|
| `ListStart`, `FindPage`, `CountItems`, `SetList` | `list_items`: the cache, the page, the count with the building of the response, the cache |
| `GetStart`, `FindItem`, `SetEntity` | `get_item` |
| `CreateStart`, `Insert`, `DelLists` | `create_item`; the title query is part of its start |
| `PutStart`, `PatchStart`, `CheckTitle`, `Update`, `DelLists`, `DelEntity` | `put_item` and `patch_item`; the ownership check is part of their start |
| `DeleteStart`, `SoftDelete`, `DelLists`, `DelEntity` | `delete_item` |
| `Heads`, `Slices`, `OnPage` | sort, skip and limit of `list_active_by_owner`: all answers that the query may give |
| `Refuse` | 404, 403, 409, a validation error, an answer from the cache |
| `Die`, `ListExpires`, `EntityExpires` | the environment |

Abstractions:

* The title stands for all fields: they are stored, cached and answered together, and
  only the title is compared. An explicit null of a PATCH is the value `Null`: the
  validator lets it through next to another field, `update` stores it, and every
  response with it is a validation error.
* Redis fails call by call and each error is swallowed, so there is no `redisUp`: a
  failing get is a miss, a failing set or delete does nothing.
* `delByPattern` is one step here. Keys it would delete one after the other differ
  only by what an expiry in between can do too, and a SCAN that misses a key written
  meanwhile is a reader that overlaps a change (`disturbed`).
* The content of a deleted item is dropped: no query reads it. The document read back
  by `update` is part of the answer only; of a deleted item it is None, a 500.
* `created_at` is any element of `Times`, whatever is stored already: it is taken before the
  insert, in milliseconds, on several pods, so two items may have the same one, and the
  order of the inserts may be another. The page query has no tie-break and skips in a query of its own, so
  of equal items it may answer with any; two pages of one list may then share an item and
  miss another. No property says that pages partition a list, because the code does not
  promise it. An item that is deleted has no `created` any more.
* `total_pages` follows from the count and is left out.
* `Items` bounds the documents of a behaviour (`Room`), `Pages` the page numbers asked
  for, `Authors` the users who create anything; `Limit` is the page size, one for all
  requests.

## 8. Runs

| run | question | instance |
|---|---|---|
| `auth_sessions` | `ClosedSessionIsDead`, `UsableUntilEnded` and the type invariant | 2 requests, 2 users, 3 sessions; login, refresh, whoami, logout, logout-all; expiry of access tokens and keys |
| `auth_faults` | `ClosedSessionIsDead`, `NoGrantAfterClose` and the refinement `ImplementsLifecycle` | 2 requests, 2 users, 2 sessions; Redis outages, dying requests, expiry of both tokens and keys |
| `auth_reset` | `ClosedSessionIsDead`, `ClosedResetTokenIsDead` | 2 requests, 1 user, 2 sessions, 2 reset tokens; dying requests, expiry |
| `notify_faults` | `AckedMeansMailed`, `DuplicatesBounded`, `MessagesConserved` and the refinement `ImplementsOutbox` | 2 pods, two copies of one event, all faults, expiring keys, stops and exits |
| `notify_retry` | `DeadAfterMaxRetries`, `EventuallySettled` and the type invariant | 2 pods, two events, a malformed message and a poison behind them, a failing SMTP server |
| `registration` | `OneUserPerEmail`, `OneUserPerYandexId`, `SignedInByProfile`, `NoForeignRelease`, the type invariant and the refinement `ImplementsDirectory` | 2 requests, 3 users, 2 e-mails, 2 accounts that share one, 2 states; all faults |
| `storage` | `ObjectsMatchRecords`, `DeletedIsGone`, `DeletedIsNoAvatar`, `OwnersOnly`, `ProfileCacheCoherent`, the type invariant and the refinement `ImplementsFileLifecycle` | 2 requests, 2 users, 1 file; all faults |
| `items` | `TitlesUnique`, `ListsCoherent`, `EntitiesCoherent`, `CachesPrivate` and the type invariant | 2 requests, 2 users (one of them without items), 2 items, a title and the null, 2 times, the second page of pages of 1; all faults |
| `auth_reset_race`, `auth_stale_jti`, `notify_duplicate`, `notify_redis_down` | sentences of the documentation that do not hold, section 10 | the smallest that shows it |

**Why these bounds.** Every hazard of the session service is a race of two requests, so two
workers meet each of them; a third is idle in every counterexample we know of. Three
sessions of two users let one request end a session while the other issues one and a third,
of either user, must be left alone. The password reset has a run of its own, with one user;
the theorems cover any number. The faults are switched on in separate runs because the
second half of `UsableUntilEnded` is a statement about a Redis that answers: `auth_faults`
then needs two sessions only (one ended, one issued). In `auth_sessions` access tokens and
their keys expire, which is what the whitelist depends on; in `auth_faults` refresh tokens
do as well. `whoami` changes nothing but the control of its request and is in
`auth_sessions` only. Two reset tokens are a token and its replacement. For notifications
two consumers and two copies of an event are the smallest instance in which check and mark
race and one copy is redelivered; `MaxRetries` is 2 there, the smallest value with a requeue
before the rejection, and the real 3 in `notify_retry`. The failure that ends the process is
the first one there and the third in `notify_retry` (the code: the fifth). In `registration`
two requests race for one e-mail (both registering, both calling back, or one of each), the
second e-mail keeps a third user apart, and two accounts with one e-mail make `Link` meet an
account that is linked already. In `storage` every race is of two requests about one file,
of one user or of two; a second file is related to the first only by the comparison in
`UnsetAvatar`, and the theorems cover any number of all three. In `items` two items of one
user can have one title or compete for it (the null is the second value a title can take and
give up), share a page boundary (`Limit` 1, the second page), be created in order, out of
order or at once (two times), and be changed one after the other; the second user asks for
what is not theirs. Workers, items, users, sessions and consumers are symmetric; no symmetry
is used in the runs that check liveness.

**Fairness.** `FairSpec` assumes weak fairness of each consumer: its thread is a loop
without a blocking call that lacks a timeout (SMTP 15 s, Redis 1 s, one second per
`process_data_events`, heartbeats on the broker connection), and a broker with a
waiting consumer delivers. Nothing is assumed of the SMTP server (it may fail for
ever), nor that Redis comes back, nor that a message is ever published.
`EventuallySettled` speaks of the messages in front of the first poison: the poison goes
back to the head of the queue each time, so what is behind it waits for ever, while a pod
that exits over it is started again and takes up what is in front of it. It is checked with deliveries that are not lost: when connections keep
failing the attempt counter can be deleted and the rejection lost each time, and the
code promises no end. No liveness is claimed of the session service: its requests are
finite sequences of calls.

**No deadlock.** Every run checks deadlock: an idle worker can always refuse a request
and a waiting consumer can always poll.

## 9. Proofs

All theorems hold for any sets of workers, users, sessions, reset tokens, consumers,
messages and events, any subset of the endpoints and of the faults, and any
`MaxRetries`; the assumptions are the named `ASSUME`s of the modules (`None` is not an
identifier, sessions and reset tokens are told apart, `MaxRetries` is positive, the
set of consumers is finite).

**`AuthSessionsProof`.** `Invariance` proves the inductive invariant. Its parts beyond
`TypeOK`:

* `DocsInOrder`: a refresh document implies an access document, an access document an
  owner, and a held session has both documents.
* `NewInv`: a session being issued belongs to one worker only and is not held; which of
  its documents exist is determined by `pc`. An insert could otherwise bring a dead
  session back to life.
* `TargetsInv`: what a request will confirm as ended is held, belongs to the user it
  acts for, and, for logout and refresh, is the presented session. From the
  revocation on it *is* ended.
* `OnPath`: which calls belong to which endpoint; with it, a request reaches its
  answer only through the revocation that its targets need.
* `ClosedInv`: closed sessions were held, and both their documents are ended.
* `ResetInv`: closed reset tokens are used and were held, and a token that a worker is
  about to insert has no document yet and no other worker.

Revocation is monotone (`Revoked` maps ended documents to ended documents), inserts
touch only sessions that are nobody's, and expiry turns valid into expired only, so
`ClosedInv` survives every step. From it follow `ClosedSessionsStayDead`,
`ClosedResetTokensStayDead` and, since `GuardDb` alone leads to `granted` and demands
a valid document, `NoGrantAfterCloseHolds`. Nothing is assumed of Redis: the proof
shows that the whitelist is not needed for the safety of the guard.

`SessionsEndByTheirUsersOnly` has two parts. That no document is revoked before its user
asked holds under all faults and is part of the inductive invariant (`AskedInv`): what is
revoked, the session that a logout or a refresh is about to revoke, and every session,
present or still being issued, of a user for whom a logout-all or a reset has yet to
revoke, is in `asked`. The second part is about the whitelist, while Redis answers and no
request dies (`Calm`). `KeyInv` says that a session whose key was stored and whose access
token has more than its last second left has its key, unless a request is between the
deletion of that key and the revocation. Two facts make it inductive: what a request still
has to delete are keys of sessions that it is ending (`FoundInv`), and a refresh lists the
valid documents only after it has revoked them, so it finds none and deletes no key
(`ListInv`).

**`AuthSessionsRefinement`.** `ServiceImplementsLifecycle`: initial states map to initial
states; `GuardDb` maps to `Grant` (it demands a document that is not revoked),
`RefreshStart` and `ResetStart` to `Ask`, `RevokeSession` and `RevokeAll` to `End` (by
`AskedInv`), `Respond` to `Answer` or `Issue` (targets and issued session have one owner), `Abort` of
an accepted request to `Drop`, every other step to a stutter.

**`WelcomeNotificationsProof`.** `NoWelcomeMailIsLost`. Its inductive invariant says that
an event that is marked processed, or whose consumer is past its send on the way to an
`ack`, has been mailed (`MailedInv`), and that a consumer that settles a message has one
(`HandInv`, `TypeOK`). It holds under all faults, a Redis that loses its keys included:
losing `processed`, or its expiry, only makes the invariant weaker.

`NoMessageIsLostOrDoubled` adds that a channel owns the message its handler was given and
that a consumer between two messages owns none (`OwnInv`); `PlaceInv` is
`MessagesConserved` message by message. Every step of a consumer then either leaves the
broker alone (`BrokerStill`) or takes what its own channel owns to one place (`Placed`).
`AtMostOneMailPerPod` counts consumers (`DupInv`): undisturbed, an event that is not
marked has at most as many mails since its last mark expired as there are consumers about
to mark it, and a marked one leaves room for those that are past their check; the first mark turns the one into
the other, because a consumer is not at both places, and the expiry of the mark starts a new count
at zero. `RetriesAreExact` assumes `Calm`,
that only sends fail and no event is published twice. Then the attempt key of an event
equals the failures of its message, and is ahead of them by one while an attempt is under
way (`HandCounted`); a message in the queue has failures left, so no message ever
fails more than `MaxRetries` times. That is the part of "retries end" which is a safety
property; that a retry comes at all is liveness and stays with TLC.

**`WelcomeNotificationsRefinement`.** `PipelineImplementsOutbox`: initial states map to
initial states; a confirmed `Publish` maps to `Publish`, an accepted mail and a lost SMTP
answer to `Mail`, `SendFails` to `Fail`, a successful `Ack` or `AckDuplicate` to
`Deliver`, a successful `Reject` to `Bury`, every other step to a stutter. A settled
message stays where it is because a consumer settles only what its channel owns (`OwnInv`,
`PlaceInv`). `Deliver` needs `MailedInv`. `Bury` needs an invariant of its own,
`HandledInv`: a consumer in the failure branch *that still owns its message* has seen a
send of this message fail. The qualification is necessary. `ack` is inside the `try`, so
the failure branch is also reached after a mail that was sent, when the channel is gone;
then the rejection fails on the same channel and nothing is buried. No assumption is made
on faults or on copies of events.

**`RegistrationProof`.** While no lock was lost under a running request (`~bypassed`), a
request in its critical section holds the lock of its e-mail (`LockInv`), so no two
are in it for one e-mail, and what `CheckEmail` read still holds at the insert
(`AbsentInv`): this gives `UsersAreUnique` where the index is missing; with the index,
`InsertUser` and `CreateOAuthUser` refuse a duplicate themselves. `ProfileInv` and
`CallbackInv` carry the pair of account and e-mail from `Exchange` into the documents:
every linked account goes with an e-mail that Yandex told for it. `SignInsAreVouchedFor`
is one of its parts, and `YandexAccountsAreUnique` follows: two users of one account
would share the e-mail. It holds although the index is dropped at every start.
`LocksAreReleasedByTheirOwners` needs the types only.

`RegistrationImplementsDirectory`: `InsertUser` maps to `Register`, `CreateOAuthUser` to
`EnterWith`, `Link` to `Link`, `PublishEvent` to `Announce`, a step that starts to bypass
the lock to `Doubt`, `CreateEmailIndex` to `Vouch`; every other step is a stutter. Entering
with a free e-mail is where `LockInv` and `AbsentInv` are used, `EnterWith` and `Link` are
where `CallbackInv` is. Beyond the invariant of the other theorems the step of
`PublishEvent` needs `InsertedInv`: a request past its insert has a user in the
collection, which nothing removes. An insert that is refused as a duplicate releases the
lock at once and never gets to the event.

**`FileStorageProof`.** `UploadedInv` and `HeldInv` say that whatever is cached,
referenced or held by a request was uploaded, and by the user it is used for: ownership
once checked cannot change, so a stale cache entry is harmless to `FilesArePrivate`.
`HeldInv` also says that an upload is alone with the record it is about to insert:
without it an insert could undo a deletion. `DeletingInv` and `ClearedInv` follow a
deletion through its calls; they give `DeletionIsFinal` and `DeletionClearsAvatar`, and
the second depends on the order of the code: the avatar is cleared after the record is
deleted, so an update that finds the record active cannot undo a confirmed deletion
unless it writes later than that. `OnPath` ties
calls to operations. `CoherentInv` is about users that nothing has disturbed: a request
that writes the profile is alone with it, the cache holds the stored value except
between the writer's change and its deletion of the key, and what is about to be cached
is the stored value.

`ServiceImplementsFileLifecycle`: `PutObject` maps to `Upload`, `InsertRecord` to `Keep`,
the first `SoftDelete` of a record to `Discard` and a repeated one to a stutter,
`RemoveObject` to `Remove` (again, only the first), `UpdateUser` to `Show` or `Hide`,
`UnsetAvatar` to `Hide` or, when the avatar is another file, to a stutter. `HeldInv` makes
an upload the only writer of its record, with its bytes in the store, and gives `Show` its
holder; `DeletingInv` and `ClearedInv` make `RemoveObject` the last step of a deletion. The
invariant of the safety theorems (`FilesInv`) is enough.

**`HolidayItemsProof`.** `StoredInv` and `OnPath` say what statuses and labels mean,
`OwnInv` that a change is of an item of its own user and that a reader holds items of its
own user, without a null once the response is built. With them `CachesStayPrivate` needs
no assumption on overlaps: owners never change. `TitlesInv` is about users that are not
`raced`: one request at a time carries a title, and between its check and its write no
other item of the user has that title; this gives `TitlesStayUnique` although no index
does. `ApartInv` and `FreshInv` are about users that are not `disturbed`: readers and
writers are apart, so what a reader holds is what is stored, and what is cached is that
too until a writer, which still has to drop the entries, changes it: `ListsStayCoherent`
and `EntitiesStayCoherent`. "What is stored" is, for a page, any answer the query may
give: no proof assumes an order among items with one `created_at`.

**Model-checked only.** `EventuallySettled`: liveness under fairness is out of the
prover's reach. Every other property of a passing run is stated by a theorem.

## 10. Where the code and its documentation disagree

* **A reset does not end every session** (`auth_reset_race`). `router.py:278` promises
  that the reset revokes all active sessions. A login that verified the old password
  before `update_password` and inserts its documents after `revoke_all_for_user`
  answers with a usable session.
* **Refresh leaves the old JTI** (`auth_stale_jti`). `refresh_session` revokes the old
  documents and then lists the *valid* ones to find the keys to delete: there are none.
  The key stays until its TTL. The guard still refuses the session because of the
  document (`NoGrantAfterClose`): the whitelist alone would not.
* **A repeated event can be mailed twice** (`notify_duplicate`), at most once per pod as
  long as nothing crashes and its mark has not expired (`DuplicatesBounded`).
* **Retries need Redis** (`notify_redis_down`). Without it each delivery is attempt 1,
  and a message whose sends fail is requeued at once, for ever.

Not contradicted by any document, but visible in the models:

* A PATCH with an explicit null for one field and a value for another is stored
  (`schemas.py:59-63`, `items/service.py:143`). From then on the item and every page with it
  answer 500 until a PUT or a PATCH replaces the null or the item is deleted. `FindItem` and
  `CountItems` have this outcome; what is checked is that no null is cached.
* `failures` is reset only when `consume` returns, that is never before the pod stops
  (`consumer.py:38-57`): the fifth exception since the start ends the process, even when
  days lie between them. Messages survive it (`MessagesConserved`).
* Pages can overlap and miss items when `created_at` is equal (`repository.py:45-50` sorts
  without a tie-break); see section 7.
* The overlaps that `raced`, `disturbed` and `revived` leave out are real: two creates
  with one title, a cache filled with what was read before a change, an avatar checked before
  and written after a deletion. The code allows them and no document excludes them; the
  properties say that nothing else leads there.
* One OAuth state serves two callbacks that both find it unused; each signs in the user of
  its own code, and no property forbids it.
* A poison returns to the head of the queue and starves what is behind it; `EventuallySettled`
  is stated for what is in front of it.

## 11. What is not modelled

Cryptography, JWT encoding, password hashing and cookie attributes are data. Web shell,
OpenAPI, error handlers and health endpoints keep no state. `alembic/` and
`k8s/01-postgresql` belong to an earlier PostgreSQL version that the code no longer
uses. MongoDB, Redis, RabbitMQ, MinIO, SMTP and Yandex are environment: modelled as far
as the code can observe them. The deployment files count where they decide a
behaviour (two pods, a Redis without a volume, containers that restart). Configuration is
read once and has no state: its values are CONSTANTS where a model depends on them, and
`parse_duration` only turns text into a number of seconds, which no model counts. Cache
writes of the profile outside `storage` and `users` are left out of `Registration`.

## 12. Plan

All of the first plan is done, in this order:

1. `AuthSessions` with `SessionLifecycle`, their runs and proofs.
2. `WelcomeNotifications`, its runs and proofs, with the supervision of the consumer.
3. `Registration` with OAuth and the indexes, its run and proof.
4. `FileStorage` with the avatar and the profile cache, its run and proof.
5. `HolidayItems` with its pages and caches, its run and proof.
6. The refinements of `MailOutbox`, `UserDirectory` and `FileLifecycle`, checked and proved.

What could follow: a composition of `Registration` and `WelcomeNotifications` (an event
for every user whose registration was answered, a mail for every event), and the profile
cache writes of registration and linking in `FileStorage`.

Three or fewer workers and at most three sessions, files or items per run keep each of
these runs within five minutes.
