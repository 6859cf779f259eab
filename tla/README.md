# TLA+ models of the BKC back end

BKC is a multi-tenant NestJS back end: HTTP controllers and a Socket.IO gateway
over PostgreSQL (TypeORM), Redis (ioredis) and WhatsApp (Baileys).  This
directory holds TLA+ models of the parts whose correctness depends on the order
in which things happen, the TLC configurations that check them on small
instances, and proofs for TLAPS of their invariants for every instance.

1. [Platform](#1-platform) - 2. [Inventory](#2-inventory) -
3. [Modules](#3-modules) - 4. [Runs](#4-runs) - 5. [Findings](#5-findings) -
6. [Proofs](#6-proofs) - 7. [Not modelled](#7-not-modelled) - 8. [Plan](#8-plan)

Paths below are relative to the application, `src/src/` of the checkout.
`PROJECT.json` maps every definition to the lines it models and lists every
hazard with its line.

## 1. Platform

Everything runs in one Node process.  The code between two `await`s is atomic;
what interleaves is requests, socket events, timers and the answers of the
database, of Redis and of the disk.  A step of a model is what a handler does
between two awaits together with the query it waited for.  Four facts shape
every model:

* **Redis** is one connection.  Commands take effect in the order they are
  issued and their replies resume the handlers in the same order.
* **PostgreSQL** is a pool.  Queries of different requests take effect in any
  order; a transaction takes effect at its commit, but `created_at` is the time
  the transaction *began*.
* **`repository.save(entity)`** reads the row again, compares it with the entity
  in memory and writes every column that differs.  An entity read earlier
  therefore writes back what other requests have changed meanwhile.
* **Socket.IO** uses its in-memory adapter: `join`, `fetchSockets` and `emit`
  never leave the process, and messages to one socket keep their order.

Assumed: the program and the database share one clock.  A second process behind
a load balancer is not supported by the code (the adapter is in memory) and not
modelled.  `REDIS_ENABLED=false` replaces Redis by a mock (`app.module.ts:84`)
that lacks `setex`, `expire` and `exists`; the models describe the real one.

## 2. Inventory

| Component | State | Operations | Talks to | What is hard | What makes it correct |
|---|---|---|---|---|---|
| **Presence** `chat/presence`, gateway handshake | a Redis key with a time to live per user, socket rooms, the list each client shows | connect, disconnect, heartbeat, list, logout's key sweep | Redis, clients by broadcast | handshake, disconnect and reconnect interleave; expiry; crash | a present user keeps the key; events keep their order; clients show what Redis says; ghosts expire |
| **Auth session** `auth`, token columns of `users` | `refreshToken`, password, `refresh_grace` keys | login, refresh, logout, switch back, resets, whole-entity saves | Redis, `users` rows | concurrent tabs, stale saves, grace period | a concurrent refresh is not refused; an ended session stays ended |
| **Access tokens** `auth`, `JwtAuthGuard`, `JwtStrategy` | `blacklist_token` keys with a time to live | sign, check, logout | Redis | whole seconds against a key's own clock; a late SET; tokens of one second | a token that was logged out lets in no request that the guard looks up |
| **Chat messages** `chat/message` | messages, receipts, `lastReadAt`, `lastMessageId`, `lastActivityAt` | send, edit, remove, three kinds of read marks, unread count | conversation row | transaction start versus commit, stale saves, marks in several queries | a removed message stays empty; the inbox follows the sends; what was marked is read |
| **Chat rooms** `chat/gateway`, `chat/conversation` | participant rows, the room `conversation:{id}` | handshake, join, leave, load, broadcast, add, remove | message service, presence, notifications | rows and rooms change independently; look-up before broadcast | loading and being told leave no gap; outsiders are never in the room |
| **WhatsApp session** `whatsapp/` | a row, a session folder, the maps of sockets and codes, the phone's list of companions | start, start at boot, `connection.update`, `creds.update`, logout | Baileys, disk | a lost socket, a user and the boot all start one; a late `loggedOut`; a crash between row and folder | a paired device reconnects; a complete logout stays |
| **WhatsApp inbox** `whatsapp/` | logs, contacts, the unread count in Redis, the broadcast job | `messages.upsert`, history, contacts, send, broadcast, `/ping`, resets | rows, Redis, gateway | look-up then insert without a unique index, on two sockets; INCR and SET | a message is logged once; a send that failed has not gone out; the badge is the count |
| **Gallery, documents** `gallery/`, `documents/` | part files, stored files, rows, albums | parts, bulk, documents, remuxing, rename, move, remove | disk, rows | two last parts assemble at once; parts deleted under a reader; stale saves; a crash between disk and row; an unlink that fails | a file is shown whole or not at all; rows and files go together; an upload ends |
| **Streaming** of the three services | none | `Range` requests | disk | ends of files, limits, suffixes (refused) | the bytes asked for are served |
| **Company profile** `company-profile/` | a row, a logo file, copies in Redis | create, update, upload, remove | Redis, disk | unlink before save; read before and kept after an invalidation | the logo exists; the copy is fresh |
| **Finance** `rumah-tangga/` | transactions, budgets, categories, members | generate a month, upsert a budget, edit; a dozen sums | rows | check-then-insert; removed categories; the turn of the year | an income is copied by one generation; the pages agree |
| **Users, employees, profile cache** `users/`, `pegawai/` | rows, `user_profile` keys | create, change, status, passwords, remove; read through | Redis, rows, those of roles and tenants | whole-row saves after a hash; a cache filled late, with rows of other services | a replaced password stays replaced; the copy is fresh |
| **Roles, permissions** | rows | assign, copy, overwrite; guard | rows | look-up and save without a constraint; a resource named twice | a removed permission is denied |
| **Menus** | rows, the cached tree | create, move, remove; read through | Redis, rows | a tree read before and kept after a change | the tree kept is that of the rows |
| **Tenants** | tenants, and the rows a clone makes | clone | rows | look-up and insert; overlapping clones, of one source or several | no menu is doubled |
| **Lists** of all services | none | pages by OFFSET, pages by cursor | rows | ties in the order; rows changing between pages | a row is on one page |
| **Other guards, contacts, notifications, activity logs, master data** | single rows and files | create, read, update, delete | rows, disk | nothing that interleaves (their lists are in the row above) | constraints of the database |
| **Glue**: modules, filters, interceptors, seeds | none of its own | wiring, validation | all | - | - |

The gateway authenticates a socket with the access token (auth), marks its user
online (presence), joins it to its conversations (rooms), stores what it sends
(messages) and broadcasts it (rooms).  Logout deletes `*:{userId}` in Redis and
so also deletes presence keys.  `users` rows are shared by auth and user
management: the operations of both that touch the session are in `AuthSession`,
those that touch passwords and profiles in `Accounts`.  The inbox of WhatsApp
lives on the sockets of its session.

## 3. Modules

| Module | Models | Instances | Proofs |
|---|---|---|---|
| `OnlineStatus` | what the online status promises (abstract) | - | - |
| `Presence`, implements `OnlineStatus` | `presence.service.ts`; `handleConnection`, `handleDisconnect`, `heartbeat`, `get_online_users` of `chat.gateway.ts`; logout's key sweep | `MCPresence` | `PresenceProofs` |
| `LoginSession` | what a session promises (abstract) | - | - |
| `AuthSession`, implements `LoginSession` | `login`, `refresh`, `logout`, `switchBack` of `auth.service.ts`; `updateUser`, `toggleUserStatus`, `resetUserPassword`, `changePassword` of `users.service.ts` | `MCAuthSession` | `AuthSessionProofs` |
| `AccessTokens` | `JwtAuthGuard`, `JwtStrategy`; the signing and the blacklist of `auth.service.ts` | `MCBackoffice` | `BackofficeProofs` |
| `ChatMessages` | `send`, `update`, `remove`, `markRead`, `markThreadRead` of `message.service.ts`; `markAllRead`, unread count, `update` of `conversation.service.ts` | `MCChatMessages` | `ChatMessagesProofs` |
| `Delivery` | what a conversation promises (abstract) | - | - |
| `ChatRooms`, implements `Delivery` | handshake join, `join_conversation`, `leave_conversation`, `broadcastNewMessage` of the gateway; `findMessages`, `send` up to its commit; `addParticipant`, `removeParticipant` | `MCChatRooms` | `ChatRoomsProofs` |
| `WaSession` | `initSession`, the `connection.update` and `creds.update` handlers, `logoutSession`, `onApplicationBootstrap` of `whatsapp.service.ts` | `MCWhatsApp` | `WhatsAppProofs` |
| `WhatsApp`, EXTENDS `WaSession` | `messages.upsert`, `messaging-history.set`, `contacts.upsert`, contacts, unread count, `sendMessage`, `startBroadcast`, `/ping` | `MCWhatsApp` | `WhatsAppProofs` |
| `Uploads` | what an upload promises (abstract) | - | - |
| `Gallery`, implements `Uploads` | `uploadChunk`, bulk and document uploads, remuxing, media, albums, removal | `MCFiles` | `FilesProofs` |
| `Streaming` | range arithmetic of `streamMedia` (twice) and `getMedia` | `MCFiles` | `FilesProofs` |
| `CompanyProfile` | `company-profile.service.ts` | `MCFiles` | `FilesProofs` |
| `Recurring` | `generateIncomeFromPrevious`, `generateFromPrevious`, `upsert` of budgets | `MCBackoffice` | `BackofficeProofs` |
| `Ledger` | transactions, categories, members; dashboard, reports, budgets, filtered list | `MCBackoffice` | `BackofficeProofs` |
| `Access` | `role.service.ts`, `permission.service.ts`, `updateRoleMenuPermission`, `PermissionGuard` | `MCBackoffice` | `RightsProofs` |
| `Menus` | `menu.service.ts` with the cached tree | `MCBackoffice` | `BackofficeProofs` |
| `Tenants` | `cloneTenantConfig` | `MCBackoffice` | `RightsProofs` |
| `Accounts` | `users.service.ts`, `pegawai.service.ts` with the cached profile; of `role.service.ts` and `tenants.service.ts` that they change a joined row | `MCBackoffice` | `BackofficeProofs` |
| `Listing` | the paged lists of thirteen services, `findMessages` | `MCBackoffice` | `BackofficeProofs` |
| `Conversations` | `create`, `findExistingDirect`, `addParticipant`, `removeParticipant` of `conversation.service.ts` | `MCBackoffice` | `RightsProofs` |

**Presence.**  `replies` is the queue of answers on the Redis connection: an
action that awaits a command changes `key` at once and appends a reply, and
`HandleReply` is the continuation.  `handler` says how far the handshake of a
socket has come, `view` what a client that applied all events shows.  `silent`
and `overtaken` are history: users whose key vanished with no event (expiry,
logout), and users announced for a socket that was gone.  `OnlineStatus` knows
neither replies nor handshakes: its `store` is the keys that exist, its `due` the users about
whom something is under way, and its every step ends with clients that are right about
everyone else.  It says by which steps a user comes online (a handshake) and goes
offline (his last disconnect, or silently), and that a client changes its picture
by announcements, or by a list that it has asked for, alone.

**AuthSession.**  A token is named by the second of its signature, because two
tokens of one account signed in one second are the same string.  Each request
is a record with its program counter `at`, what it read (`entity`, `token`) and
what it will write (`fresh`, `dirty`); `Reload` and `Write` are TypeORM's
`save`.  `grace` holds live grace keys.  `calm`, `lapsed` and `revoked` are
history variables for the properties.  `LoginSession` forgets passwords, grace and
queries: of a request it keeps the tokens that it may still store (`plan`, here
`MayStore`).  Only a login, or a request that finds the session open, gets any; so
after a logout nothing else brings the session back.

**AccessTokens.**  `clock` counts ticks finer than a second, because the program
counts whole seconds and Redis does not: `barred` says at which tick a key of the
blacklist runs out.  A request (`visit`) is refused or let in by the guard, and may be a
logout, which ends with the SET.  `looked` tells the requests whose token the guard finds
and looks up from those whose header spells the scheme other than `Bearer`, which only
passport reads.  `out` and the field `gone` are history: the tokens that are on the
blacklist, and the requests that came after that.

**ChatMessages.**  `now` counts ticks finer than a millisecond, `Ms` cuts a time
to what a `Date` of the program holds.  A send is `Begin` (takes its date) and
`Commit` (writes message and conversation); an edit or removal is a read, a
`Reload` and a `Write`, and so is a new name of the conversation, which saves its
whole row (`overtaken`, history, marks a send that commits between that read and
the save, or after a later one); a mark is `Stamp`, `List`, `Compare`, `Insert`, and the
insert may fail on the unique constraint.

**ChatRooms.**  `row` are the participants, `room` the Socket.IO room, `cast`
how far each message has come from the check of its sender to the last
recipient, `change` the requests that add or remove, `shown` what each client
has been given, `loaded` the clients that have loaded the history since they
connected, as long as their user takes part.  A message whose participants
could not be looked up goes to the room alone (`BroadcastBlindly`, the code's
`catch`).  `Delivery` has neither rooms nor turns: a client of an invited user is given
saved messages one by one or all at once, loses none while it is connected, and a
message counts as sent around (`told`: its `cast` is `telling` or `done`) no sooner than
every client that attends (`loaded`) has it.

**WaSession.**  One device.  `row` is its status in the table, `folder` the pairing
whose credentials are on disk, `linked` the pairings the phone accepts, `sock`
the sockets that are alive or whose handlers have work left, `active` and `code`
the two maps.  `initSession` is `FindDevice`, `SaveDevice`, `LoadCreds`,
`MakeSocket`; a logout is a sequence of phases of one record.  `gaveUp` (a call
of `initSession` failed, nobody tries again) and `sealed` (a logout ended with
nothing alive) are history.

**WhatsApp.**  `log` counts the rows of each message, `book` holds the rows of the
contact, `handler` and `filing` are writers between their look-up and their
save, `commands` and `replies` the Redis connection, `badge` what the gateway
has emitted last.  A message may arrive on each open socket, and what was sent
arrives as an echo.  History: `raced` and `bookRaced` (two writers overlapped),
`cutOff` (a crash ended the call of a message that was sent already), `cut` (an emission
was lost in a crash).

**Gallery.**  `parts` is the folder of one chunked upload, `disk` says of each
stored file where it is and what it holds, `req` are the requests from one wait
to the next.  `arrived` is the client's side and the only variable it shares with
`Uploads`; `Shown` maps rows and disk to what a reader gets.  History: `torn` (a
removal that did not finish or met a save), `revived` (a row written back by a
save of an older copy), `stray` (files that a crash, a rewritten video or an album left
behind, or that a removal or a clean-up could not unlink: `removeFile` logs the error
and its callers delete the row all the same).

**Streaming** keeps one request and its answer; a suffix (`bytes=-N`) is refused by all
three services, and the property excepts it from what has to be served; **CompanyProfile** one row, its logo
and one cached copy (`lost` and `cache.excused` are history).

**Recurring** fills a month; `made` counts the copies of an income by the generation
that made them, and `overlapped` marks incomes that were copied while another
generation that had not seen them was at work.  **Ledger** has the tables
of a household and, as operators, every query that sums them, each with the
joins, filters and groups of its own; a sum counts units (`Total`), and an `ASSUME`
of `MCBackoffice` compares that with adding up.  **Access** has roles, rows of
permissions and requests in two steps; a request names for each resource a list of
levels (`Named`), since one may name a resource twice and then inserts two rows.
`revoked` and `doubled` (pairs that got a second row, in one request, by two, or in a
copy of such rows) are history.  **Menus** is a forest with the tree that Redis keeps;
`late` tells that what is kept was read before a change.  **Tenants** is the transaction
of a clone, row by row, with the locks of its unique indexes; each request names its
source and the roles it brings, and `apart` (history) has the pairs of clones that
overlapped and inserted no role in common, so that neither waited for the other.
**Accounts** has users, employees and the profile, and `joined`, the rows of roles and
tenants that a profile holds too; `replaced`, `crossed` (a password was saved while
another change held the row) and `outdated` are history.  **Listing** has one table and
a client that reads all pages of a list; `stirred` tells what changed meanwhile.
**Conversations** has the rows of the conversations and of their participants, and
requests between their look-up and their save; `entangled` (pairs created twice at one
time, or of whom one was added to a direct conversation of the other) and `grown` are
history.

The history variables have one purpose: a property that the code keeps except in
a known race names the race exactly, so that everything outside of it is still
checked.  No guard reads them, but for those in `Gallery` and `Listing` that give a
new file or row a name nothing has had before.

`ChatRooms` composes with the others by abstraction, not by `INSTANCE`: it sees
of a message only that it was saved, and of presence only which sockets are
connected.  `WhatsApp` extends `WaSession`: its actions that open, reset or crash are
those of the session together with what they do to the inbox.  The modules of
`MCFiles` and `MCBackoffice` share no variable; each of these instances has a variable
`focus` that keeps one of its modules busy, and the run explores them one after the
other.  Where the code does share rows, the module that reads them has the other
service's change as an action of its own (`SaveJoined` of `Accounts` for roles and
tenants, `MoveSource` of `Tenants` for menus).  One such change is in neither: a clone
inserts menus and permissions for its target and then drops the kept trees, which `Menus`
and `Access` do not see; to them it would be one more change of a
kind they have.  `MCWhatsApp` uses `focus` to divide the
inbox: the session alone, what arrives, the contact, what is sent, the answer to
`/ping`, the last four with sockets that are lost and processes that crash.

## 4. Runs

States are distinct states.

| Run | Instance | States | Shows |
|---|---|---|---|
| `presence` | 2 users, one with 2 tabs; 2 replies under way | 1.3 M | `TypeOK`, `PresentUserIsOnline`, `NoLateOffline`; refinement `ShowsStatus`; under all interleavings, expiry, logout and crashes |
| `presence_expiry` | 1 user, 2 tabs; 4 replies | 160 k | liveness `GhostsExpire`: a user without a socket is offline in the end |
| `presence_gone` | as `presence`, 3 replies, no crash | violated | `GoneUserIsNotShown` fails, see findings |
| `auth` | 2 requests, 2 passwords, 3 seconds | 1.6 M | `ConcurrentRefreshSurvives`; refinement `KeepsSession` |
| `auth_revoke`, `auth_tabs` | 2 seconds | violated | `RevocationFinal` and `TabsSurvive` fail, see findings |
| `chat_messages` | root and reply, 2 users, 2 requests, 2 ticks | 6.9 M | `QuietRemovalFinal`, `MarkedIsRead`, `InboxFollowsSends` |
| `chat_removed` | as `chat_messages` | violated | `RemovedIsEmpty` fails, see findings |
| `chat_rooms` | creator on HTTP, 1 other user with a socket, 2 messages, 2 changes | 1.1 M | `NoGap`, `OnlyInvited`; refinement `Delivers` |
| `whatsapp` | 2 sockets, 1 call, 1 pairing; 2 incoming, 3 outgoing messages, 2 deliveries, 2 handlers, 2 writers of the contact | 729 k | `SealedStaysOut`, `LoggedOnce`, `OneContact`, `BadgeIsUnread`, `FailedIsUnsent`; liveness `Reconnects` |
| `files` | 2 parts sent 4 times, a video, a photograph, a document, an album, 2 requests; files of 5 bytes; 2 profiles, 2 logos, 3 changes | 394 k | `RowsMatchFiles`, `RangeAsAsked`, `ShownAsStored`; refinement `ShownWhole`; liveness `UploadEnds` |
| `backoffice` | 2 requests of each kind, 2 to 4 beginnings; 3 menus, 3 rows, 2 roles, 2 tenants to clone, 2 accounts with 1 joined row, 2 transactions, 3 chat users, 2 access tokens | 1.7 M | `GeneratedOnce`, `SumsAgree`, `RevokedIsDenied`, `CachedTree`, `MenusOnce`, `NewPasswordStays`, `ProfileIsFresh`, `EachRowOnce`, `OneDirect`, `LoggedOutIsRefused` |

Every passing run explores its whole state space.  Every property has a mutant
in `PROJECT.json`: a plausible bug in a mapped definition that makes the run
fail.

*Bounds, and why they are enough.*  The code compares nothing but identities of
users and sockets, so a second socket of one user and one onlooker give every
relation a handler can see.  Two requests are what a race needs; the
proofs cover any number of them.  `MaxReplies` bounds the unanswered Redis
commands; the proofs hold for every value of it.
`MaxSeconds = 3` lets a token be presented, replaced and its replacement be
replaced.  `TicksPerMs = 2` and `MaxTime = 2` give times in one millisecond and
in different ones.  In `ChatRooms` each user sends one message, so the socket is
once that of the sender and once that of a recipient.  `InboxFollowsSends` is
checked with one root message; the theorem covers any number.

In `whatsapp` the second socket is the one a reconnection, a user or the boot makes
beside the first; a message that arrives twice and two handlers give both orders
of any check and insert.  In `files` two parts sent four times let the upload be
repeated while it is put together; two requests race, a third beginning follows.
A file of five bytes with pieces of two has ranges inside, at and beyond every
edge.  In `backoffice` two requests race and one or two follow what they left:
`MaxRows = 4` saves let a month be generated, spoiled and generated again;
`MaxOrders = 2` lets a permission be doubled or revived by one race (the property
speaks of the state after any number of orders, but a third adds only rows of the
same kinds), `MaxNamed = 2` by one request that names it twice; `MaxCalls = 3` lets a
generation follow two that overlapped; two tenants to clone from, of which one has two
menus and the other a menu of the same name, and each a role of its own, give clones
that wait for each other and clones that do not; `MaxDoings = 4` a password be set, replaced and overwritten; the dates
of `Ledger` are the last day of a year and the first of the next, on either side
of `Since`; three menus form every forest with a grandchild and, in two changes, a
cycle; three rows with columns in `{1, 2, 3}` and two ticks to a millisecond have
ties, rows of one millisecond and rows of different ones on pages of one and two;
three chat users and two conversations let a pair have two, and a third user come
between; tokens of two seconds that live for two, at two ticks to a second, are signed,
barred and used at the start of a second, in its middle, and after their time.
New permissions and menus take the first free row (`PermsInOrder`, `InOrder`), since
nothing tells free rows apart.

Every safety property of the passing runs, the refinements `ShowsStatus`, `KeepsSession`,
`Delivers` and `ShownWhole` among them, is also proved, for every value of the
constants: a bound can only hide something from the three liveness properties.

*Deadlock* is checked in the runs of presence, auth and chat, but says little: a
server that waits for its clients is never stuck, and `Crash` or a client's next
move is always possible.  It is not checked in `whatsapp`, `files` and
`backoffice`, where the bounds on messages and requests end a behaviour.
*Symmetry* permutes only slots that are alike (tabs of one user, request slots; in
`backoffice` those of all components at once), in runs without liveness.

*Fairness* is assumed for three liveness properties, never of clients, and no safety
property needs it.

* `Presence`: the process handles a reply it has received, the database query of a
  handshake answers or fails, and a key runs out of time while no client that could
  renew it is connected.  Redis and Node guarantee the first and the last, the
  driver's time-outs the second.
* `SessionFairness`: queries are answered and handlers run on (weak), a process
  that has met an unhandled rejection ends (weak), the phone rejects credentials it
  does not know (weak), and a socket that can try again and again opens in the end
  (strong: the network is bad now and then, not for ever).  Nobody has to scan,
  start or log out.  `Reconnects` speaks of behaviours whose crashes end.
* `GalleryFairness`: every step of an upload under way is taken (weak); Node and the
  disk see to it.

## 5. Findings

Each is the run of a property that quotes the repository and fails.

* **`presence_gone`** - `handleDisconnect`'s comment (`chat.gateway.ts:107`)
  promises that a user is taken offline and the tenant told.  The handshake is
  not cancelled when its client goes: its `user_online` at `:94` follows
  `user_offline` and nobody takes it back.  `presence_expiry` shows what remains
  true: the key expires.
* **`auth_revoke`** - logout's comment (`auth.service.ts:242`) promises that the
  refresh token is revoked.  A `save` of an entity read before
  (`users.service.ts:375`) or the end of a refresh under way
  (`auth.service.ts:184`) writes a token back.  `KeepsSession` is what holds: nothing
  but those, which had found the session open, does so before the next login; with
  nothing under way the session stays ended (`QuietRevocationFinal`).
* **`auth_tabs`** - `refresh`'s comments (`auth.service.ts:141`, `:180`) promise
  that concurrent tabs do not fail.  Only the token presented gets a grace key;
  a slow refresh of an older token displaces the newer one without any.
  `ConcurrentRefreshSurvives` is what holds: refreshes of *the same* token all
  survive.
* **`chat_removed`** - `remove`'s and `update`'s comments
  (`message.service.ts:245`, `:277`) promise that a deleted message has no text.
  An edit that read the row before a removal writes its text into it.
  `QuietRemovalFinal` is what holds.

Other divergences are seen by reading or met while modelling.  The properties of
the passing runs name them as exceptions where they bear on one: a removed
participant's sockets stay in the room until they disconnect
(`docs/chat_implementation_plan.md:289` speaks of joining only),
`broadcastMessageDelete` has no caller.  The same plan (`:256`) gives 30 s for
the presence key where the code has 35.  Further:

* Saves of whole rows undo what happened since the load: a changed password
  (`users.service.ts:375`, in `crossed`), a removed gallery row (`revived`), a removed
  permission (`doubled`).
* A new name of a conversation is saved with the `lastMessageId` and
  `lastActivityAt` it had when it was read: a send in between is undone in the inbox
  (`conversation.service.ts:220-226`, in `overtaken`).
* Two users who ask for a direct conversation at one time get two, in spite of the
  check of `conversation.service.ts:139`.  The search (`:188`, "TEPAT kedua user")
  also finds a direct conversation that a third user was added to, for each pair in
  it; and whoever asks for one with himself gets any direct conversation of his.
* The guard looks up the blacklist only for a token it finds itself, in a header that
  starts with `Bearer ` or in the query (`jwt-auth.guard.ts:34-41`); `jwt.strategy.ts:10`
  also takes `bearer`, and the gateway (`chat.gateway.ts:487`) looks up nothing.  Such
  requests are let in with a token that was logged out (`looked`).
* A logout answers that the token is invalid although the SET has failed, or the token
  came in the query (`auth.controller.ts:95` reads the header only, the guard both).  A
  login in the second in which the token was signed gives the same token, so it is
  refused after the logout of the first.
* Generations of a month, assignments of permissions, and clones into one tenant that
  insert no role in common insert twice when they overlap; only budgets, roles and
  accounts have a unique index.  A request that names a resource twice inserts two
  permissions for it (`permission.service.ts:216`), and a copy of such rows both again.
* `generateIncomeFromPrevious` says "Untuk setiap item, buat salinan baru"
  (`transaction.service.ts:312`, a new copy of each item; `transaction.controller.ts:165`
  speaks of all), but puts the key of each copy among those it skips (`:400`): of two
  recurring incomes with one category, description and amount it copies one.
  `GeneratedOnce` does not depend on it: it asks that the copies come from one
  generation, however many they are.
* A file that cannot be unlinked is logged (`upload-storage.util.ts:213`), and its row is
  deleted all the same: nothing leads to the file any more (`stray`).
* A suffix range (`bytes=-N`) is answered 416 by all three services, although its bytes
  are there.
* `cloneTenantConfig` run again adds another account, although its comment speaks of
  an account that is there.
* Menus that two changes put below each other are in no tree.  A tree, a profile or a
  company profile that was read before a change and kept after it stays for its time
  to live; changes of an employee by the administration, of a role or of a tenant drop no
  profile at all.
* The check that keeps a category with transactions from being removed never fires,
  because the removal is a soft one; what was spent in it leaves the chart by category
  but not the summary.
* Lists are ordered by a date or a name alone, except where a join makes TypeORM page
  over the ids: rows that tie may come twice or never.  The cursor of `findMessages`
  is cut to milliseconds and leaves out older messages of its millisecond.
* A device whose `initSession` fails, at boot or for a user, is not tried again.

## 6. Proofs

`tlapm <Module>Proofs.tla` checks a module to the last leaf; about 15 800
obligations in eight modules.  Assumptions are only those the modules state about
their constants: owners and authors are functions, bounds are natural numbers,
`None` is no member, what an action chooses from is not empty, a date is one of the
calendar.  Nothing is assumed about the number of users, sockets, messages or
requests: the sets need not even be finite, but for the rows of `Listing` and of
`Ledger`, whose places and sums are counted.

Three of the proof modules hold the proofs of several components, one section each:
`FilesProofs` (streaming, gallery, company profile), `BackofficeProofs` (recurring
incomes, access tokens, menus, accounts, sums, lists) and `RightsProofs` (permissions,
tenants, conversations), which `BackofficeProofs` extends.  The first two extend
`MCFiles` and `MCBackoffice`, and end with the compositions that these instances check:
a behaviour of the composition is one of each component, so every theorem about a
component holds where they run side by side.

| Theorem | Property | Argument |
|---|---|---|
| `PresenceTypeOK`, `AuthTypeOK`, `MessagesTypeOK`, `RoomsTypeOK` | `TypeOK` | inductive, for `ChatMessages` together with `FormInv` (which fields of a request are set in which phase) |
| `PresenceKeyStays` | `PresentUserIsOnline` | with `NoLateOffline`, `HandshakeInv` (a reply in the queue tells how far its handshake is, and a handshake has one reply at most) and `OrderInv` (a DEL behind the SETEX of a handshake means that its socket has gone too) |
| `OfflineNeverLate` | `NoLateOffline` | the same invariant; replies leave the queue in order |
| `ConcurrentRefreshIsSafe` | `ConcurrentRefreshSurvives` | `CalmInv`: a refresh whose token only its own kind has replaced finds it in the row, in grace, or lapsed, because the grace key is set before the row is written |
| `SessionIsKept` | `KeepsSession` | `AuthSession` implements `LoginSession`: a request gets a plan only where it reads a token in the row (`ReadRow`, `ReadEntity`) or is a login, later steps narrow it, and `CalmInv` says that what is stored was signed |
| `QuietRevocationIsFinal` | `QuietRevocationFinal`, a case of it | `QuietInv`: until a login begins after a quiet end, no request is on its way to write a token |
| `QuietRemovalIsFinal` | `QuietRemovalFinal` | `RemovalInv`: changes of one message that overlap know it (`Alone`), and what a change that was alone leaves unwritten is what the row says (`Saving`) |
| `InboxIsInOrder` | `InboxFollowsSends` | inductive with the types: a commit in order is the newest; `NamingInv`: a conversation read to be named is as it was read, until a send is overtaken |
| `MarkedStaysRead` | `MarkedIsRead` | `MarkInv`: `ClockInv` (no row is from the future), `MarkOf` (what each phase of a mark has covered already), `LaterOf` (a time that the same user's later mark has still to write is not older) |
| `NothingMissed` | `NoGap` | `GapInv`: from the look-up to the broadcast whoever has loaded has the message or is among the recipients (`Way`), because loading users are active and connected (`Loaders`) |
| `RoomsDeliver` | `Delivers` | `ChatRooms` implements `Delivery`: when the broadcast begins to tell, `GapInv` gives the message to everyone who attends; nobody who is shown anything lacks a row (`SeenInv`); whoever is about to leave has a row (`LeaversInv`), so leaving invites nobody |
| `RoomIsOfInvited` | `OnlyInvited` | `SeenInv`: a row that a handshake, a join or a broadcast has seen never vanishes (`RowsStay`) |
| `ClientsAgree` | `ViewsAgree`, part of `ShowsStatus` | `PictureInv`: a list under way is right about each user who was not silent or overtaken, or an announcement about him is behind it in the queue (`ListInv`); a DEL under way leaves the key absent, or an announcement is behind its reply (`DelInv`) |
| `StatusIsShown` | `ShowsStatus` | `Presence` implements `OnlineStatus`: with the invariants above, a lemma per action says which users are still due (`Due`), that he stays due until his last handshake and his last DEL are answered, and that a DEL is issued only for a user none of whose sockets has been marked; `Agreed` is `ViewsAgree` |
| `LogoutStays` | `SealedStaysOut` | `LogoutInv`: from the removal of the folder to the end of the logout something still tries (`Lives`), or no socket is registered and the folder is away (`Away`) |
| `MessagesAreLoggedOnce` | `LoggedOnce` | `OnceInv`: a message that no two handlers raced for has one writer at most, and none once it is in the log; an old and a new socket, the history and the echo are such writers |
| `FailedSendsAreUnsent` | `FailedIsUnsent` | `EarlyInv`: a message that is not out yet has no row, has not come back and is with no handler, and a call that fails is at that point, or a crash cut it off (`CutInv`), since the save of the row fails no call |
| `ContactsAreOne` | `OneContact` | `ContactInv`: unless two writers overlapped there is one row and one writer, which has found that row |
| `BadgeFollowsRedis` | `BadgeIsUnread` | `BadgeInv`: the last reply under way, or the badge if there is none, holds the count of Redis |
| `InboxKeepsSession` | - | each step of `WhatsApp` is one of `WaSession` or leaves the session alone, so what holds of the session holds beside the inbox |
| `FilesAreShownWhole` | `ShownWhole` | `Gallery` implements `Uploads` step by step: `DiskInv` (a file that is stored is whole and all its parts have arrived), `UploadInv` (an upload that has its parts together owns its files: no row names them, no other request works on them) |
| `RowsAndFiles` | `RowsMatchFiles` | with `UploadInv`, and `DropInv`: what a request deletes is not stored any more, or known to be stray as its unlink failed, and its row goes next, or is `torn` or `revived` |
| `ProfileIsShownAsStored` | `ShownAsStored` | `LogoInv` (a logo has one holder: a row or the request that stored it) and `CopyInv` (the copy, and what a reader is about to keep, is fresh or excused by name) |
| `NothingRevokedIsAllowed` | `RevokedIsDenied` | `OneRow`, `NoneRevoked`: a pair of role and resource has one row, and none once it is revoked, unless it was doubled, in one request that names it twice or in a copy of doubled rows among others; `CopiesInv` and `RolesInv`: the role of a row was created and what an order has read was used, so a role or row that is created later is touched by none of them |
| `MenusAreClonedOnce` | `MenusOnce` | `ClonesInv`: clones that have inserted their roles hold names nobody else holds, as the unique index makes the second wait; `ApartInv`: those that clone menus beside each other have inserted none in common, so they are `apart`; `MenusInserted` (who inserted an uncommitted menu) and `PlaceInv`, which is `MenusOnce` for menus that are not committed as well; for any number of sources, trees and clones |
| `DirectOnce` | `OneDirect` | `AsksInv` (a pair about to get a conversation has none, or is entangled), `PairsInv` (nor has any pair two), `TwoInv` (a direct conversation that nobody was added to has the two rows it was created with) |
| `KeptTreeIsCurrent` | `CachedTree` | `ReadInv`: a tree that was read is that of the rows or known to be old; `EditInv` |
| `OldPasswordsAreGone` | `NewPasswordStays` | `PasswordsInv`: the password of a change that has not saved is nobody's yet (`PastInv`, `FreshInv`), and an update has loaded none that was replaced, unless they crossed (`OldInv`) |
| `KeptProfileIsFresh` | `ProfileIsFresh` | `ProfilesInv`: a kept profile is that of the rows, outdated, or about to be dropped by a change (`KeptInv`), where a profile is that of the user, the employee, the role and the tenant, and one read but not yet kept is so or known to be old (`ViewInv`); an employee has one account (`OneAccount`) |
| `PagesShowTheSameSums` | `SumsAgree` | from the types alone: two queries take the same rows (`ListedRows`, by the arithmetic of months), and the units of a sum are in bijection with those of its groups (`GroupsAddUp`) |
| `PagesShowRowsOnce` | `EachRowOnce` | `PagesInv`: with a total order a row not yet shown is behind the pages read if none was removed, and one that was shown is on them if none was inserted; `HistoryInv`: what was shown is not older than the cursor's millisecond, and what is not older was shown or is hidden by one of its millisecond |
| `RangesAreServed` | `RangeAsAsked` | a lemma per service about its arithmetic, for every size, range and limit: nothing is served but what was asked for, and all of it up to the limit, unless the range is a suffix, which is refused |
| `IncomeIsCopiedOnce` | `GeneratedOnce` | `OnceInv`: the copies of an income come from one generation (`OneCopied`), and while one has still to copy it (`Blind`) none has (`Uncopied`), because what the month has is read, and noted, before anything is saved; with `WorkInv` (`HasWork`: only generations of incomes have incomes to copy) and `SavesInv` (no key has more rows than were saved) |
| `RecurringIsTyped` | - | the same invariant |
| `LogoutIsFinal` | `LoggedOutIsRefused` | `BarInv`: a key that is set lasts to the second in which the token runs out (`Lasting`), because the seconds that are left were counted earlier and rounded in its favour (`TimeLeft`); a request that came later, was looked up and found no key is refused for the time |
| `WhatsAppIsTyped` | `TypeOK` | inductive; the recipients of a broadcast are counted |
| `TokensAreTyped`, `GalleryTypes`, `ProfileTypes`, `AccessIsTyped`, `TenantsAreTyped`, `ConversationsAreTyped`, `MenusAreTyped`, `AccountsAreTyped`, `LedgerIsTyped`, `ListingIsTyped` | - | each part of the `TypeOK` of `files` and `backoffice`, with the invariant of its component |
| `FilesKeepApart`, `BackofficeKeepsApart` | - | a step of the composition is one of the component that `focus` names, and leaves the variables of the others alone |
| `FilesAreTyped`, `BackofficeIsTyped` | `TypeOK` of the two compositions | from the rows above |

Each step lemma has one case per action and below it one per conjunct that the
action can disturb; actions that touch nothing relevant go through one "aside"
lemma (`RemovalAside`, `GapAside`, `MarkAside`).

Only model-checked: liveness (`GhostsExpire`, `Reconnects`, `UploadEnds`), which is
out of the prover's reach.  That counting units is adding up needs induction over
data and is evaluated on small functions only (`TotalIsSum`).  The four violated
properties are of course not theorems.

What the proofs taught about the models: sums as folds could not be compared, as sums
of units they can; a month has at most the days that `DaysIn` gives it, which the
comparison of the pages by month with those by interval rests on and which is now an
assumption; a place in a list needs finitely many rows.  The refinement of `OnlineStatus`
needed an exception that the invariants did not show: the handshake of a client that
has gone announces its user to all others, and that is the only step after which
something false has been said.

## 7. Not modelled

* *Presence*: a separate failure of KEYS in the handshake (it ends like that of
  SETEX), several `get_online_users` of one socket at once, several tenants (a
  key names its tenant).
* *AuthSession*: impersonated refreshes and `switchUser` (they write nothing of the
  session), registration, `is_active` and soft deletion as reasons of refusal, expiry
  of the refresh tokens.
* *ChatMessages*: reactions, attachments, counts of replies, pages of `findThreads`
  (those of `findMessages` are in `Listing`), changing participants (they are in
  `ChatRooms`).
* *ChatRooms*: the creation of conversations (it is in `Conversations`, which knows no
  rooms), the kinds of notifications, typing, reaction and receipt events, the page limit, and what a
  client does with an event.  Nobody's role changes because no code changes it.
* *WhatsApp*: texts and media, the forms of a number (LID and telephone number),
  groups, more than one device or contact (rows and keys name theirs), the paged lists
  of contacts.
* *Gallery*: thumbnails, names and covers of albums, downloads as archives; the rest of
  a request that only reads.
* *Streaming*: replies without a range, headers for caches.
* *Household*: suggestions, photographs of receipts.
* *Users*: avatars, the form of the menus in a profile.
* *Menus*: the tree with the access levels of a role, which only reads.
* *Tenants*: the clone's copies of permissions, which look and insert like those of
  menus; changes of single tenants, but that profiles hold them (`Accounts`).
* *Races too small for a model of their own*: two
  registrations of one name (the unique index refuses one), two toggles of one
  reaction, the order of two events of one socket, late notifications.
* *Guards other than the JWT guard and `PermissionGuard`, contacts, chat uploads,
  notifications, activity logs, master data, glue*: their operations are single queries
  or read only.  Their lists are in `Listing`.

## 8. Plan

The modules are written, their safety properties proved, and the four components
whose promise has a simple form (online status, session, delivery, uploads) are shown to
implement it.  What is left:

1. One abstract read-through cache for `Menus`, `Accounts` and `CompanyProfile`, whose
   invariants (`CachedTree`, `ProfileIsFresh`, `ShownAsStored`) say the same of three
   caches.
2. Action properties of messages beside their invariants: a message that was removed
   alone is never written again, a commit never moves the inbox back.
3. Shorter proofs: the sections of `BackofficeProofs` on lists and sums hold lemmas
   about cardinalities that could be stated once.
