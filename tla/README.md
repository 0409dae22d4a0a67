# Hi_Server in TLA+

Hi_Server is the back end of a chat application: users send confessions to each
other anonymously, the addressee ("crush") reads them and accepts or rejects
them, and an accepted confession opens a chat. This directory models it,
model-checks the models with TLC and proves most of their safety properties with
TLAPS. Paths below are relative to the repository.

## The system

| part | code | state | operations |
|---|---|---|---|
| confession handlers | `src/Controllers/Confessions` | none of their own | send, read, accept, reject |
| notification skeleton | `src/Services/send_message_to_user.ts` | none | look up in Redis; publish (online) or save over gRPC (offline); then the statements |
| statements | `src/Database/Cassandra/queries.ts` | Cassandra: sent, unread and read confessions, two chat tables, chat messages | fixed lists of INSERT, UPDATE, DELETE, SELECT, each awaited |
| presence | `src/Services/user_online_services.ts` | Redis: a set of users, a hash per user | is online; come online (two calls, not called in `src/`) |
| gRPC client | `src/Services/grpc.ts` | a channel per call | save one message; stream a user's messages |
| queue service | `QueueService/` (Go) | a Badger store in a temporary directory | SaveMessage, GetMessages |
| chats | `src/Controllers/Chats`, `src/Queues` | none; RabbitMQ queues nobody in `src/` consumes | send, delete for me / for everyone, update status |
| accounts, OTP | `src/Controllers/Users`, `src/Controllers/Otp` | MongoDB users | create, log in, change e-mail, send and verify a code |
| authentication | `src/Middlewares/user.ts` | none | token to `req.id`, for three of five controllers |
| retrieval | `src/Controllers/RetrieveData` | none | unread and read confessions page by page, chats, queued messages |
| wiring | `app.module.ts`, `connect_to_services.ts`, models, constants, generated gRPC | none | |

How they interact. A client's HTTP request runs a handler in one of three
replicas (`k8s/web-server`). The handler calls `sendMessageToUser` with the
addressee and a closure of Cassandra statements, `afterAcknowledgement`. The
skeleton awaits Redis, notifies, then runs the closure. If the addressee is
online the closure is awaited and the client answered last; if offline the
closure is a floating promise, the gRPC save is issued without waiting, and the
client is answered first. Replicas share nothing but Redis, Cassandra, MongoDB
and the queue service.

What is hard here: every `await` is a point where other requests run; there are
no transactions, no conditional statements and no unique indexes; the
notification goes out before the statements; an exception in a floating promise
or in a callback ends the process with all its requests; UPDATE creates rows
that do not exist; the primary keys contain times that are converted in some
statements and not in others. `PROJECT.json` lists these hazards line by line,
with the properties that would catch each.

What makes each part correct:

- confessions: a confession is in the table its status says, a verdict is given
  once and over a read confession, an accepted one has a chat on both sides, an
  acknowledged request is stored;
- skeleton and presence: Redis tells who is online, each addressee is told or
  the message queued, not both, and each request ends;
- queue service: what is acknowledged is kept, what is kept is delivered, to its
  user and in order;
- chats: a message has its two copies until it is deleted for someone;
- retrieval: a walk over the pages shows what was there, once, and ends;
- accounts: one account per e-mail and per username, its owner can log in, and
  it is verified only by a code sent to its e-mail.

## Modules

| module | models |
|---|---|
| `ConfessionService` | handlers, skeleton, statements, and the process they run in |
| `ConfessionLifecycle` | what the handlers promise: one atomic step per decision (`LifecycleSafe`), and that an owed chat is opened (`LifecycleSpec`) |
| `QueueService` | the Go service over its store |
| `MessageQueue` | what that service promises: a queue without clocks, keys and processes |
| `Delivery` | presence and `sendMessageToUser` call by call, over `MessageQueue` |
| `ChatMessages` | the chat handlers, the two copies of a message, the RabbitMQ producer |
| `Retrieval` | the paged routes, against the statements that move their rows |
| `Accounts` | sign-up, login, change of e-mail, codes, authentication |
| `...Proofs` | the theorems about the module they are named after |
| `ConfessionSerialProofs`, `ConfessionLifecycleProofs` | the theorems about `ConfessionService` for patient clients |
| `MC...` | its instances for TLC |

`ConfessionService` implements `ConfessionLifecycle`; `QueueService` implements
`MessageQueue`, and `Delivery` composes its callers with that one instead of the
detailed service. `ConfessionService` and `Delivery` show two sides of the
skeleton: the first has its statements in full and a lookup that answers either
way at any time, the second has the presence the lookup reads and one step for
the statements.

### ConfessionService

Each request is a process. `op`, `arg`, `host` say what it is; `pc` is the
await it is at, and its values are the statements of `queries.ts` by name;
`note` is the fate of its notification, `reply` what its client was answered.
The tables are functions of their keys: `sent` by confession and sending time,
with the status and whether an INSERT ever filled the row (`full`), `unread` the
keys present, `read` by confession and reading time. `chatS` and `chatC` are the
requests whose chat row (with its own `chat_id`) is in each chat table. User ids
and texts are constant per confession and left out.

An action is the code between two awaits: it applies the statement the request is at
and moves to the next. `StartSend` ... `StartReject` are the controllers;
`CheckOnline`, `CheckOffline`, `Publish`, `Finish`, `Throw` the skeleton;
`InsertSent` ... `InsertChatC` the statements; `Refuse` the exceptions the code
itself raises (`rows[0]` missing, wrong status, `toISOString` of a string, text in a
timestamp column). `over` is a history variable: whose row of the sent, unread or
read table a statement of another request has written again or deleted. `Stored` is
what a request writes, row by row: the row is there, with the status the request
gave it unless the request is in `over` for it. Faults are errors of Redis,
Cassandra and gRPC and the death of a replica, at most `MaxFaults`. A failed
statement may or may not have been applied: `DbError` before or after the step.

Clients are as the routes allow: a crush reads what it heard of (push, queue,
unread route), decides on what it read. `Pacing` says how patient they are:
`free` sends at any time, `reply` waits for an answer, `serial` also for the
floating work.

### QueueService and MessageQueue

`createBadgerEntry` copies the id into the key and then overwrites its first
eight bytes with the clock, so `Key` is the clock and the rest of the id, `Id`
the bare id, and `Before` the byte order (a text id starts above a clock until
about the year 4000: `TextAboveClock`). `New` opens the store on its receiver
but registers a fresh `CoreServer`: `served` is "fresh" for the server
`main.go` starts and "filled" for the one the methods were written for. `owed`
and `savedAt` are history variables: what a stream's user had stored when it
opened, and the clock as each message was saved, whatever its key became.
`SaveErrors` is the error a call may return, of the transaction or of an empty id.

`MessageQueue` is what is left of it for a caller: a save is answered once, a
stream opens on a snapshot, brings each message at most once and closes only
when its user has had all of that snapshot, and what is lost is lost together.
The mapping forgets the keys of the store and the order of what a stream
brought. `SharedTick` lets two saves fall into one microsecond, which may share
a key; the refinement needs that they do not.

### Delivery

`online` is the Redis set, `socketId` the hashes, `socket` the connections the
gateway holds. `userOnline` is the two writes `SAdd` and `HSet`, with `JoinFails`
for either; nothing in `src/` removes a user or calls `userOnline`, so
`Connect`, `Disconnect` and `Remove` are the least an external gateway must do,
in any order it may do it. A send is at the SISMEMBER (`LookupOnline`,
`LookupOffline`), the HGET (`HGet`), the `Publish` or its `afterAcknowledgement`.
`Push` is the gateway's end of the PUBLISH: the socket is there or not, and the
count Redis returns is not looked at. `sendMessageToOfflineUser` sends the save
and lets the statements float; `SaveArrives` and `SaveFails` are steps of the
queue, the latter the callback that throws. `RedisError` is the catch: it would
queue the message after a `WebSocketMessageError`, which nothing throws.

Four history variables say what the properties need: `muddled`, users whose
presence calls overlapped or failed; `doubled`, users who had two sockets since they
last had none; `moved`, sends during which their user came or went; `found`, how
Redis had their user as they began: rightly `online` or `offline`, `dangling` (in the
set, by a hash whose socket is gone) or `hidden` (not in the set, with a socket open).

What holds, then, is less than one might want, and the properties say it so. The set
has one entry and the hash one socket id per user. With two sockets opened one after
the other, each call done before the next and none failed, closing one takes the user
from the set while the other is open: the user is hidden, and messages go to the
queue instead of to the socket. With calls that overlap or fail a hash may dangle, and
then a message is pushed to nobody and not queued, though its user never moves.
`PresenceIsTrue` excludes the first only for users that are not in `doubled`, the second
only for users that are not in `muddled`; `SteadyIsReached` promises nothing to a send
that found a dangling hash, and to one that found its user hidden the queue only.

### ChatMessages

The four handlers of `chats_controllers.ts`. `rows` is the chat message table: a
message, named by the request that sent it, and the side that owns the copy.
`InsertS` and `InsertR` are the two statements of `saveChatMessage`, `DeleteOwn`
and `DeleteOther` those of `deleteChatMessageForEveryone`. The skeleton is that
of `ConfessionService`, with one difference: the update handler does not await
its service, so it is answered at once (`Update`) and an exception in it is
unhandled at any await (`Floating`). `mq` is the fate of the RabbitMQ message:
`createChannel` only begins to connect (`Produce`, `DeleteMine`), `Queue` is its
callback, `ConnectFails` the error it logs and `ChannelFails` the one it does
not survive. Clients name messages they have a copy of or were told of
(`Known`). `late` notes, in a request's argument, whether a deletion came when
the request that sent the message had ended; no action reads it.

### Retrieval

The routes for unread and read confessions, `eachRow` with a `fetchSize` and a
`page_state`. The server keeps nothing between pages, so any replica may serve
the next: `cursor` is the client's, `server` the replica that has its call.
`Fetch` is Cassandra's answer, `HasPageState` when it carries a `page_state` (a
full page that is also the last may), `Answer` the `res.json`. The writers are
the statements of `ConfessionService` that touch the two tables: `InsertUnread`,
and `DeleteUnread` and `InsertRead` of a read request, with a gap between them.
The controller is not behind `AuthMiddleware`, so its other three routes have no
`req.id`; they are modelled as what they do to everybody else (`RetrieveChats`,
`RetrieveOffline`): an error without a listener, or a write of an object, that
ends the process, as does an error in `eachRow`'s callback (`PageFails`).

### Accounts

An account is known by the sign-up that made it; `email` is the collection,
`verified` its `isEmailVerified`. Each request goes through its route's awaits:
`Auth` is the middleware's `findById`, `LookupEmail` and `LookupName` the two
lookups of `createAccount` and `Save` its write; `LookupLogin` finds any one
account of an e-mail; `UpdateEmail` writes without a lookup; `Mail` and
`MailSent` are `sendMail` and its callback, `CheckOtp` and `UpdateVerified` the
verification. Passwords are those of the person: a check succeeds on one's own
account. A code is known by the request that mailed it, and `fits` are the codes
that the four characters `verifyOtp` asks for can write (there are six digits).
`seen` and `seenName` note what a sign-up's lookups saw, `changed` the accounts
whose e-mail was ever changed. `StoreAccount`, `StoreEmail` and `StoreVerified` are
the writes alone: `DbError` is a query that rejects, its write applied or not.

## Runs

| run | instance | shows |
|---|---|---|
| `confession_races` | 4 requests on 1 confession, `free`, no faults | what holds of the tables under every interleaving of send, read and two decisions |
| `confession_faults` | 3 requests, `reply`, 2 instants of one second, dates and strings, 1 fault | crashes and errors at any point leave the tables in the safe order; no acknowledged row is missing, no stored confession lost but by a cut read; requests and saves end; an accept past its check opens its chat |
| `confession_serial` | 5 requests, `serial` | the tables agree; the handlers implement `ConfessionLifecycle`, its liveness included |
| `queue_store` | 3 messages, 2 users, 2 streams, clock 0 to 2, 1 crash | order, completeness, durability, delivery; the service implements `MessageQueue` |
| `delivery` | 2 users, 2 sockets of one of them, a send to each, 1 fault | when Redis is right and when not, whom a send reaches, and that it ends somewhere |
| `chat_messages` | 3 requests, dates and strings, batches of at most 1, 1 fault or crash | the copies of a message are stored and deleted in a safe order; answered updates are queued |
| `retrieval` | 3 confessions, 2 of one instant, 2 reads, pages of 2, 2 replicas, 1 fault | pages repeat and swallow nothing, and a walk ends |
| `accounts` | 2 people, 2 addresses, 4 requests, 1 fault | when accounts collide, whom login turns away, what a verified account says |
| `accept_killed`, `verdict_race` | 4 requests | two findings in the handlers |
| `queue_nil_store`, `queue_everyones` | 2 or 3 messages, 2 streams | two findings in the queue service |

Bounds.

- Confessions never share rows, so one is enough for every property of
  `ConfessionService`, which all speak of one. Four requests are the least for
  two decisions (send, read, decide, decide), and five add a repeated read. One
  fault is the least that cuts a handler short. The fault run has one replica:
  a crash there takes all requests with it, so a handler that survives another's
  crash is seen only after an error, and in the proofs, which are for any number.
  Two instants of one second are what `toString` confuses; in one behaviour of
  that run all requests write times the same way and name the same instant
  (`SameTimes`).
- Three chat requests are a message and two that disagree about it; batches of
  one reach both sides of the batch limit, which is 50 in the code.
- Two sockets of one user are the least for presence calls that overlap; they
  are opened in a fixed order, which loses nothing but a renaming (`InOrder`).
- Three confessions and pages of two are the least with a page boundary inside
  the table; two of one instant make the order depend on the id.
- In `accounts` the four requests are two sign-ups, a change of e-mail or a
  code, and a login or a verification (`May`), so that each property's route is
  there against both others; the bodies of sign-ups (`Bodies`) cover equal and
  different e-mails and names, and one that says it is verified.
- Requests are interchangeable (SYMMETRY) in `confession_races` and its kin;
  where symmetry is unsound, in liveness and refinement runs, they are numbered
  by arrival instead (`InOrder`). These orders are action constraints: they only
  hold back clients and gateway, to whom no fairness is owed. Deadlock checking is
  off: with no request left to make the systems stop rightly.

Fairness. In all modules weak fairness of what the server does for each request
it has: the event loop runs every resolved promise, and drivers answer or time
out. Nothing is assumed of faults. Of clients nothing is assumed either, but in
`Retrieval`: a walk ends only if its client asks for the next page. Of the
queue service: the goroutine of an open stream goes on. That it is started again, is
called at all or sees its clock advance is not assumed. In `Delivery` the save of a
living process is answered, and nothing is assumed of the gateway. Chat handlers
are treated like the confession handlers, and a RabbitMQ connection that was
begun succeeds or fails. In `Accounts` MongoDB and the mail service answer or
fail.

## What is proved

All for any values of the constants that satisfy the named assumptions of the
module, and so for any number of requests, users, replicas and faults. Every
module below has its type invariant proved (`TypeCorrect`).

`ConfessionServiceProofs` (milliseconds are dropped idempotently, `NoArg` is not an
argument): `UnreadHasSentAlways`, `ChatsPaired`, `ChatIsOfReadConfessionAlways`,
`AdvancedSentAlways`, `VerdictAnnouncedAlways`, `AcknowledgedIsStoredAlways`,
`VerdictOverwrites`. No statement ever removes a sent or a read row, or a chat
(`DeleteUnread` is the only delete), so a row once written is a fact for good, and
its status is the request's own until another one is seen to change it (`over`, for
`AcknowledgedIsStoredAlways`). `StageInv` records, for a request at a given
statement, the rows the statements before it wrote; `HandlerInv` that a request at a
statement of a handler is of that kind and has passed the skeleton. The properties
follow from the order of the statements; they are not inductive without `StageInv`,
since from the tables alone nothing says that a request about to insert the unread
row has inserted the sent one.

Two of the findings below say what the handlers lose; two theorems of that module
say that they lose nothing else, whatever the interleaving and the faults. By
`StoredIsReadableAlways` a stored confession is in the unread table, or has a read
row, or a read of it is between its DELETE and its INSERT or has stopped. By
`AcceptedIsOpenedAlways` an `ACCEPTED` in either table is of an accept that has
opened its chat, is at a statement on the way there, or was stopped. Both follow the
requests of the confession from stage to stage (`StageMoves`). `AnsweredOnceAlways`:
no answer is changed or given again, because a request floats only once it was
answered (`AnswerInv`).

`ConfessionSerialProofs` and `ConfessionLifecycleProofs` are about what the code
promises clients that wait. Their circumstances:

- `PatientClients`: `Pacing` is `serial`, no faults, whole seconds;
- `Dates` (where a chat is concerned): `createChat` throws at text;
- `Spared`: when a floating request is refused, no live request of its replica is of
  another confession.

`Spared` is a condition on the behaviour, and it is needed. With two confessions on
one replica and otherwise the same circumstances, a second decision on the one
while its sender is offline is refused, its floating promise ends the process, and
the send of the other is cut between its two INSERTs: TLC finds the tables
disagreeing with five requests. With one confession, as in the runs, `SparedOfOne`
proves it.

Then `TablesAgreeAlways` (`TablesAgree`), `AcceptedHasChatAlways` (`AcceptedHasChat`,
which `accept_killed` refutes for clients that do not wait) and `LifecycleSafety`,
the safety of the refinement `ImplementsLifecycle`. `TablesAgree` speaks of the
moments between requests only and is far from inductive. The invariant `SInv` says
that a confession has one live request (`OneLive`) and one send, which is over
before anything else of it starts (`OneSend`, `AfterSend`); what the live request
finds in the tables at each of its stages (`Midway`); and that the tables agree
where no request is between its first and last write (`Agreement`). A refusal comes
before the first write or after the last, so it leaves no request midway. `DInv`
adds that a chat row is written once and that an acceptance has its opener. For the
refinement each step is mapped by the parts of the abstract state: the insert of
the sent row is `Send`, the update after the read row is `Read`, the last update of
a decision `Accept` or `Reject`, the sender's chat row `OpenChat`, and everything
else, refusals and the gRPC answers included, stutters.

`QueueServiceProofs`: `NothingMissedAlways` (the reverse scan from a bare id
visits the whole store, because an id lies above every clock; what a stream owes
is in what it sent or has still to visit, `OwedIsAhead`), `NewestFirstAlways`
(`OrderInv`: a key starts with the clock of its saving, and what is still to bring
was saved no later than what was brought),
`AckedIsStoredAlways` and `ServesQueueAlways`, the refinement of `MessageQueue`,
both if no two saves share a microsecond. Of the module's assumptions
`TextAboveClock` is the one that matters. The refinement needs `LiveInv`, that an
open stream's iterator still visits only what is in the store, since `New` gives
the process another one. `BroughtOnceAlways`, which needs no separate microseconds:
a stream brings no message twice and none that was not acknowledged (`OnceInv`: each
message is one entry at most, still ahead of a stream or behind it).

`DeliveryProofs`: `PresenceIsTrueAlways` (`PresInv`: call by call, what Redis
holds of a user that is not muddled, and of one that is not doubled either),
`SteadyIsReachedAlways` (`SteadyInv`: a send whose user does not move reads what it
would have read as it began, right or wrong, and acts on it) and `NotTwiceAlways`.
`PushedToOwnAlways`: a message is pushed to no socket but its addressee's, stale and
muddled hashes included. `UsesQueueAlways`: to the queue, every step of `Delivery`
is a step of `MessageQueue`; with `ServesQueueAlways` the composition rests on what
the service does, if no two saves share a microsecond.

`ChatMessagesProofs`: `LoneCopyAlways`, `DoneIsStoredAlways`,
`DeletedIsGoneAlways`. A copy comes only by its own request's statement
(`CopiesCome`) and goes only by a request that deletes it, which stays one
(`CopiesGo`, `DeletingStays`); `StageInv` ties the stage of a request to the
copies it stored or removed, and `LateInv` keeps the messages of a late deletion
among those whose requests have ended, so nothing brings them back.

`RetrievalProofs`: `PagesInOrderAlways` (`WalkInv`: what was shown lies up to the
`page_state`), `SteadyIsShownAlways` (`SteadyInv`: a row that stays was shown or
lies after the `page_state`, and if a page is on its way, in it or after it) and
`ShownOrMovingAlways` (`OwedInv`: where a confession the client is owed can be
while it walks one table, turns, and walks the other).

`AccountsProofs`: `EmailsApartAlways`, `NamesApartAlways`,
`LoginFindsOwnerAlways`, `VerifiedOwnsMailboxAlways`. Type correctness carries
that a request is only at an await of its own route and acts on an account of
its own person (`OwnInv`). `SeenInv` and `NameInv` say what a sign-up past a
lookup saw, `KeptInv` that an e-mail is the one signed up with until changed;
two accounts of one e-mail then overlapped or changed it. `LoginInv` adds why a
login was turned away, `MailInv` and `CodeInv` that a verification past its check
has a code its person was mailed.

Only model-checked: liveness (`RequestsEnd`, `AcceptOpensChat`, `OwedIsDelivered`,
`Reached`, `UpdateIsQueued`, `WalkEnds`), and of
`ImplementsLifecycle` that an owed chat is opened: fairness and ENABLED are out of
the prover's reach.

## Findings

- `accept_killed`: a repeated accept of an offline sender's confession is an
  unhandled rejection that ends the process, possibly between another accept's
  verdict and its chat (`send_message_to_user.ts:86`).
- `verdict_race`: an accept and a reject that overlap both succeed
  (`queries.ts:314`).
- `queue_nil_store`: the registered server has no store, so the first call ends
  the service (`core.go:106`). With `grpc.ts:22`, whose callback throws, each
  message for an offline user then also ends a web process.
- `queue_everyones`: a stream brings every user's messages (`core.go:33`).

Seen while modelling, not kept as runs:

- a read cut after its DELETE loses the confession, text and all
  (`queries.ts:241`); a read that overtakes a late INSERT leaves it unread;
- a verdict the status check refuses was already announced; `readConfession`
  announces the new status to the crush instead of the sender
  (`confession_services.ts:87`); a send to an offline crush is answered before
  anything is stored;
- a date with milliseconds is stored under another key than it is looked up by;
  times that arrive as text make `createChat` fail after the verdict is stored;
  every chat message sent over HTTP has its time as text and is refused by
  `toISOString` before it is stored, after it was announced;
- a deletion for everyone that overtakes the INSERTs of its message leaves a
  copy behind; three chat handlers never answer when they succeed; each RabbitMQ
  message opens a connection that is never closed (`base.ts:19`);
- a restart of the queue service forgets all it acknowledged;
- the routes of `RetrieveData` that read `req.id` run without `AuthMiddleware`
  (`app.module.ts:51`), and their failure ends the process;
- `WebSocketMessageError` is thrown nowhere, so a push to nobody is never queued;
  a user with two sockets is offline to the server once one of them closes; nothing
  in `src/` calls `userOnline` or removes a user from the set;
- sign-ups that overlap, and `changeEmail`, make two accounts of one e-mail, of
  which login finds either; no handler checks `isEmailVerified`, which sign-up
  takes from its body, though the README asks that no user gets in unverified; a
  code has six digits and is checked against four, so at most one with two leading
  zeros can pass.

## What is not modelled

- How the driver binds text to a timestamp in an unprepared statement: the
  constant `DriverTakesText` covers both, the proofs for either; the runs have it
  refuse.
- A Cassandra statement applied after the process that issued it died, and
  last-write-wins between replicas of Cassandra: a statement is atomic.
- The gateway that holds the sockets, and Redis' own failures beyond rejected
  calls. In `ConfessionService` a lookup answers either way at any time.
- `DeleteMessages` of the queue service, which is not the RPC
  `DeleteMessagesById` and is reached by no call.
- The batches of `queries.ts` (475-549) and the helpers that build them: nothing
  in `src/` calls them, their place is behind queues that nothing in `src/`
  consumes.
- `send_otp_for_password_change.ts`, provided to no module and wired to no route,
  and `set_user_online.ts`, which is commented out.
- Time in `Accounts`: `CheckOtp` may refuse any code, which stands for one that has
  expired; login tokens do not expire.
- Wiring, error texts and status codes, models, generated code, deployment.

## Plan

What is left, in the order of its worth:

1. An abstract message with its owners that `ChatMessages` implements for clients
   that delete only what has settled.
2. `Spared` from what clients do: which requests to decide, on which replica, can
   be refused while they float.
3. `confession_faults` with a second replica, so that handlers outlive the crash
   of another; it needs a smaller state, such as the skeleton's stages merged.
