# Telethon_App ("TeleSaver"): verification project

TeleSaver archives the Telegram messages of its users.  A user signs up on a
website, is approved by an administrator, links Telegram accounts, and from
then on a worker process stores every message that the user's filters let
through.  The hard promise of the system is *revocation*: when an administrator
suspends a user, or the user changes password or e-mail address, everything
that ran under the old authority must stop, although it runs in other
processes and was on its way when the decision fell.  This project models that
promise first.

Paths below are relative to `src/`; `node/` stands for `my-node-server/`.

## 1. The system

### Parts, state and operations

| Part | State | Operations |
|---|---|---|
| MySQL (`node/mysql_db/migrations`) | `users(is_approved, auth_version, status)`, `telegram_accounts(connection_status, session_ciphertext, user_id)`, `messages`, `media`, `pdf_exports`, filters, `telegram_login_attempts`, `pending_signups`, `user_email_changes`, settings, rate limits | transactions with row locks (`FOR UPDATE`, `FOR SHARE`) |
| Approval (`node/services/accountApproval.js`) | `is_approved`, `auth_version`; the pause commands sent | approve, suspend (transaction; cancel transfers; disconnect sockets; pause every account) |
| Ingestion (`node/routes/messages.post.js`) | messages, senders, channels, media rows | `POST /messages`: check, lock owner and account, upserts, commit, socket notification |
| Worker (`telegram_worker.py`, `worker_http.py`) | `clients`, `locks`, `event_tasks`, the monitor loop, control requests, HTTP calls in flight | `restore_all`, `start_account`, `stop_account`, `restart_account`, `close`, `reconcile_approval`, `_process_event` |
| Worker routes (`node/routes/worker.internal.js`, `services/workerEligibility.js`) | `connection_status` | `GET /accounts`, `/eligibility`, `/accounts/:id`, storage settings; `PATCH /accounts/:id/status` |
| Account routes (`node/routes/telegram-accounts.js`, `services/telegramWorkerClient.js`) | `connection_status`, `session_ciphertext` | reconnect, disconnect, remove connection, display settings |
| Telegram login (`node/routes/telegram-connect.js`, `telegram_auth_service.py`) | `telegram_login_attempts` | start, verify code, verify password, finalize |
| Streams (`node/services/protectedStream.js`) | registry of open responses per user | stream, cancel all of a user, one-second poll |
| Web sessions and sockets (`auth.js`, `requireAuth.js`, `sessionValidity.js`, `realtime.js`) | `session.userId`, `session.authVersion`, rooms | login, logout, check, emit, disconnect |
| Signup, profile (`signup.js`, `profile.js`, `profileMail.js`) | pending signups, pending e-mail change, `auth_version` | request, resend, verify, cancel; password, e-mail, name |
| Media and PDFs (`media.s3.js`, `s3Media.js`, `pdf.export.js`, `pdf.exports.js`) | rows and S3 objects | list, stream, delete, generate, save |
| Retention and storage (`retention.js` x 2, `storage.js`, `storageSettings.js`) | policies, previews, a cache | preview, confirm, hourly clean-up, cached totals |
| Filters (`filters.js`, `filters.check.js`, `public/utils/filterRules.js`) | allow and deny rows | create, update, delete, check |
| Admin, reads, browser pages | sessions, nothing, DOM | lists, approval; queries; pages |

### Interactions

* The worker calls Node over HTTP with a 10 s time-out; Node commands the
  worker over HTTP (`start`, `stop`/`pause`, `restart`) with a time-out of its
  own.  Either side goes on with a request whose caller has given up.
* Worker and Node share no memory; they meet in `users` and
  `telegram_accounts`.  `auth_version` is the *generation*: a client carries
  the one it was started under (its lease), a message names it, a web session
  and a stream remember it.
* Inside the worker, coroutines of one event loop interleave at `await`; an
  `asyncio.Lock` per account orders starts and stops.  Handlers run outside it.
* Inside Node, callbacks of one event loop interleave; database transactions
  are the only mutual exclusion between requests.

### What is hard, and what "correct" means for each part

* *Ingestion against revocation*: nothing of an earlier generation is stored
  once the revoking transaction has committed, whatever is in flight.
* *The worker*: one client per account; a stop that is reported has happened
  (no client, no handler, no upload); a suspension answered as confirmed is
  one; whatever is lost, a stale client ends; a suspended owner's account is
  never restored by a restart.
* *Streams*: no response outlives its session; the registry does not leak.
* *Media, PDFs, retention*: rows and objects are deleted in two systems, one
  after the other; a failure in between must be repairable, and nothing the
  user did not confirm is deleted.
* *Sessions, sockets, login attempts*: no authority is granted from a value
  read before it was withdrawn; a Telegram identity never changes hands.
* *Verification codes*: an address is proved by a code mailed to it, once;
  wrong guesses are counted over resends and concurrent requests.
* *Filters*: a message that the switches or the rules refuse is not archived,
  and what the page shows is what is decided.
* *Exports and storage totals*: a recorded export can be opened, an object
  without a record is not forgotten, a refreshed total is not of yesterday.

`PROJECT.json` ("hazards") lists each such place at its line, with the
properties that cover it, or why none does.

## 2. The modules

```
ArchiveGate    <--implements-- Ingestion <--INSTANCE-- WorkerLease
                                         <--EXTENDS--- FilterRules
TelegramLinks  <--implements-- TelegramConnect
ExportLibrary  <--EXTENDS----- StorageOverview
ProtectedStream, WebSession, Retention, VerificationCodes (each on its own)
Archive_proofs              theorems about ArchiveGate, Ingestion and FilterRules
StorageOverview_proofs      theorems about ExportLibrary and StorageOverview
*_proofs                    of WorkerLease, TelegramConnect, ProtectedStream,
                            WebSession, Retention, VerificationCodes
MC*.tla, MC*.cfg                                            instances for TLC
```

### ArchiveGate (abstract)
What suspension promises about the archive, with no worker, request or lock:
`Save` appends the owner's current generation, only while the owner is
approved; `Suspend` and `ChangeCredential` open a new one.  An archive is the
sequence of the generations of its messages; the content is abstracted away.

### Ingestion
`POST /messages` (`Receive`, `Lock` or `Reject`, `Commit`, `Abort`) against
the transactions of `setApproval` and of `profile.js`.  Each of these locks the
owner's row of `users` with `SELECT ... FOR UPDATE` and is one action here,
except the ingestion transaction, which holds the row from `Lock` to `Commit`
or `Abort`: a lock is a `pc`, not a variable.  `HoldsRow` is the lock table,
`Admissible` what the `SELECT` returns.  Requests name any account and any
generation: nothing is assumed of the caller.
`Abort` stands for all ways a request ends without storing: validation,
foreign media key, lock wait time-out, deadlock victim, end of the process.

### WorkerLease
The worker, the routes it calls, the routes and services that command it, and
the rows they share.  `Ingestion` is instantiated, its variables are shared:
`Ingest` is `_process_event` posting through `I!Receive`, `ServePost` is
`I!Serve`, `Suspend` conjoins `I!Suspend` with what the same transaction does
to `telegram_accounts` and the pauses that follow.

| Variable | Code |
|---|---|
| `status`, `session` | `connection_status`, `session_ciphertext IS NOT NULL` |
| `unsent`, `awaited`, `confirmed` | `Promise.allSettled(accounts.map(controlAccount('pause')))` in `setApproval`; `confirmed` becomes `!worker_pause_pending` |
| `removing` | `DELETE /:id/connection` between its stop command and its commit |
| `late` | `PATCH .../status` requests the worker has given up on and Node still serves |
| `phase`, `mon` | `run()`; `monitor_approval` and the rows it has just read |
| `clients[a]` | `self.clients.get(a)`: none, connected, or given up on by Telegram, with `auth_version` |
| `op[s]` | one coroutine of `start_account`, `stop_account` or `restart_account`; `pc` is the await it stands at; `live` that its own, not (or no longer) registered client is connected; `snap` the local `tasks` list |
| `task[p]` | one `_process_event`; `own` that it was created by the client connected last, whose `disconnect()` cancels and awaits it |

One `await` is one step.  Between two of them Python code is atomic, so each
action runs from one await to the next.  `LockFree` is the account's
`asyncio.Lock`.  `set_status` is three steps (`PatchCheck`, `PatchApply` or
`PatchTimeout`), because the middleware's eligibility read, the `UPDATE` and
the answer are separate in `worker.internal.js`.  `StartFails` is the `except`
clause, reached from each place that raises.  `SendPause`, `PauseLost` and
`CommandTimesOut` are the ways a pause can go.  `Crash` loses everything in
memory at any time; a `PATCH` already sent may survive it in `late`.

Telethon is external: `connect()` and `disconnect()` return after some time or
raise, `disconnect()` cancels and awaits the client's own handler tasks, a
client may give up by itself (`ClientDies`).

Abstractions a reader should know of: only accounts that have been connected
before exist at the start; a shutdown that interrupts restores or monitor
stops is a `Crash`; `Link` is `finalizeConnection` with the start command after it
(the login before it is TelegramConnect); two suspensions of one owner do not
overlap; message content, filters and settings only decide whether a handler
goes on; a status request of a *finished* coroutine is kept apart in `late`
and at most `MaxLate` of them exist.

### FilterRules
What comes before the transaction of `Ingestion`, which it extends: a message
is checked by the worker, downloaded, posted and checked again by the server,
each time in two queries (`CheckSwitches`, `CheckRule`), and a failed query lets
it pass (`CheckFails`).  Meanwhile the user changes switches (`SwitchArchive`,
`SwitchFilters`) and rules, by id from the filter page (`SetChannel`,
`SetSender`) or by name (`CreateRule`, `EditRule`), and channels change title.

| Variable | Code |
|---|---|
| `archiveOn`, `filtersOn` | `telegram_accounts(archive_enabled, filters_enabled)` |
| `title` | the title of each channel at Telegram |
| `channels` | `channels(telegram_chat_id, name)`, upserted by `Store` |
| `channelRules` | `channel_filters`; `chat` is `NoChat` where `/filters/create` leaves it NULL |
| `senderRules` | `sender_filters`; `by` tells rules by id from rules by name |
| `msg[p]` | the message of a handler, then of its request; `rule`, that the first query of a check is over |
| `blocked` | history: the reasons to refuse a message that have stood since it arrived |

`LIMIT 1` without an order returns any matching row, so `Allows` and `Denies` may both
hold of a sender with two rules.  What an unchanged rule decides is a matter of
one message: `blocked` forgets a reason as soon as it does not hold for a moment.

### TelegramLinks (abstract) and TelegramConnect
TelegramLinks is the promise: an identity belongs to who connected it first,
and a session is stored for an approved user at the present generation.
TelegramConnect is `telegram-connect.js`: an attempt is read, Telegram is asked for up to
thirty seconds without any lock or mark on the attempt, then
`finalizeConnection` locks the user (`LockOwner`), the account if there is
one (`LockAccount`), and stores (`Store`).  Two requests may work on one
attempt, and two users on one identity.

| Variable | Code |
|---|---|
| `attempt` | `telegram_login_attempts`; `issued`, `completed` are history |
| `accounts` | `telegram_accounts`; `gens`, the generation a session was stored under, stands for the session, empty when it was removed |
| `req[r]` | a `start`, `verify-code` or `verify-password`; `gen` is `session.authVersion`, `found` that the `SELECT ... FOR UPDATE` found a row |

The refinement mapping takes `owner[i]` to the users of the rows of `i`, and
`under[i]` to their generations: sets, so that two rows of one identity or two
owners are something that the abstract specification refuses.

### VerificationCodes
Both ways an address becomes an account's: `signup.js` and the e-mail change of
`profile.js`.  A signup mails the code inside the transaction that stores it, a
change of address stores it first and takes it back when the mail fails.

| Variable | Code |
|---|---|
| `email` | `users.email` |
| `pending[x]` | the row of `pending_signups` or `user_email_changes`; `fresh` is `expires_at > NOW()` |
| `req[r]` | a request that waits for the mail server, its commit or bcrypt; `row` what it has read or will store |
| `codes`, `mails`, `sent`, `void`, `wrong` | history: the account of each code, who got it by mail, answered with success, no longer to be accepted, wrong guesses |

Left out: the rate limits and the minute between two mails (more requests are
allowed here than there), the mail to the old address, the check of
`auth_version` in `transaction` (WebSession has it).  A check that
finds an address free and the insertion of a signup are one step; whether it is
still free is asked again where it counts, in `Correct`.

### ExportLibrary and StorageOverview
ExportLibrary is the life of a PDF export: rendered, checked, uploaded, recorded
under the lock on its owner, answered; deleted by hand.  Every step may throw, and
the catch clause removes an object that was not recorded (`Orphaned`, the
variable `persisted` of the code).  StorageOverview adds `storage.js`, which
lists the user's objects in S3 while exports come and go: one computation at a time per
user (`pending`), shared by the requests that arrive meanwhile, and a cache of
bounded size.  A total of bytes is modelled by the set of objects it counts.

| Variable | Code |
|---|---|
| `objects`, `rows`, `used` | keys in S3; in `pdf_exports`; history: all keys |
| `job[j]` | one `GET /channel-pdf` |
| `del[d]` | one `DELETE /api/pdf-exports/:id` |
| `hollow`, `stray` | history: rows and objects that may lack the other, and why |
| `cache`, `pending`, `ask` | the two Maps of `storage.js`, the requests |

### ProtectedStream
`watchTransfer`, `cancelUserTransfers` and `streamObject` in one Node process.
The registry is a `Map` of `Set` objects, and each call keeps its own
reference to the `Set` it joined: the model keeps the identity of `Set`s
(`SetIds`), because the code deletes the `Map` entry by user and not by `Set`.
`Ends` and `Returns` both run `cleanup()`: it runs twice for most responses.  It
runs a third time when a timer check was waiting for the database as the
response ended and then finds the session invalid, or fails: `clearInterval` does
not stop a callback under way.  `late` has the checks under way whose response is
over, one record per user and `Set`; the response may be over, and its slot in use
again, by then.
Process boundaries: suspensions issued in another process are the case in
which `CancelUserTransfers` never runs, covered because its step may be
delayed for ever.

### WebSession
The website's sessions and private sockets against everything that withdraws
their authority: `auth.js`, `requireAuth.js`, `sessionValidity.js`,
`profile.js`, `realtime.js` and the parts of `accountApproval.js` that touch
them.  express-session is the reason why this is hard: a request works on a
*copy* of the session, loaded when it arrived, and a request that changed its
copy writes it back as a whole at its end (`SaveCopy`, of `POST
/api/retention/preview`), whatever has become of the stored one.

| Variable | Code |
|---|---|
| `approved`, `ver`, `pw` | `users(is_approved, auth_version, password_hash)`; `pw` counts passwords |
| `store`, `issued` | the session store; ids that have been used, `regenerate` never reuses one |
| `req[r]` | a login, logout or authenticated request; `pc` is the await it stands at, `copy` its session |
| `sock[s]` | a socket in its handshake, admitted or joined to the room of its user |
| `emit` | one `emitToUser`; `todo` the sockets of the room when it began, `copy` the session it has just read; `revoked` (history) those whose authority was gone when it began |
| `suspending` | between the commit of a suspension and its `disconnectUser` |
| `out` | history: the session ids whose logout is complete |

### Retention
The files of one user: `routes/retention.js`, `services/retention.js`, the two
deletions by hand, and the delivery of a message with a file, which may be
repeated and uses the same S3 key each time.  A file is a row in `media` or
`pdf_exports` and an object in S3; the two change one after the other, and
between them anything may happen: an S3 error with or without effect, a lost
connection.

| Variable | Code |
|---|---|
| `policy`, `preview` | `user_storage_settings`; `session.retentionPreview` (its token is the fact that a request sends it back) |
| `req[r]` | a `POST /preview` between its reads and its answer, a `PUT` before and after its `FOR UPDATE`; `shown` is the preview in its copy of the session |
| `age`, `row`, `obj` | days since `saved_at` or `created_at`; rows; objects |
| `clean` | `cleanupUser`: the categories left, `due` (old enough at its `now`), the locked rows of the current batch, the rows deleted in the open transaction, the file whose S3 deletion is awaited |
| `del[d]` | a `DELETE`, before and after its S3 request; it holds the row's lock for media and nothing for exports |
| `dlv`, `stray` | a delivery between upload and commit; uploads whose message was not stored |

Left out: text bodies (one `UPDATE` inside the same transaction), `LIMIT 100`
(a batch is everything due of one category), a second Node process (the clean-up is one at a
time by `running` and `GET_LOCK`), expiry of the preview (one of the outcomes of
`ReqFails`), local legacy files.

### Faulty variants
An operator named `X_Y` is a plausible bug in `X`.  No specification uses it;
substituting it for `X` makes TLC report the property named here, which is how
the project knows that the property says something about the code.

| Variant | The bug | Property it breaks |
|---|---|---|
| `HoldsRow_PlainSelect` | `FOR UPDATE` dropped | `LockedIsCurrent`, `NothingAfterSuspension` |
| `Admissible_AnyGeneration`, `_NotNewer`, `_Suspended` | generation not compared, compared with `<=`, approval not checked | `NothingAfterSuspension`, `GenerationsInOrder`, `ImplementsGate` |
| `Suspend_EveryRetry` | a retried suspension opens a generation | `TypeOK` |
| `Passed_Once` | the server does not check a message again | `BlockedNotArchived` |
| `UpsertChannel_ByChat` | the upsert of channels looks at the chat only, not at the unique title | `FilterTypeOK` |
| `Exhausted_OffByOne` | one more wrong code is accepted | `TypeOK` |
| `Renewed_ResetsAttempts` | a resend resets the wrong guesses | `GuessesBounded` |
| `Withdrawn_ByUser` | a failed mail deletes the user's pending change, whichever it is | `SentCodesKept` |
| `AfterPassword_Kept` | a change of password keeps the pending change of address | `AddressProven` |
| `Insertable_PerUser` | the unique key on `telegram_user_id` includes the user | `TypeOK` |
| `AskPassword_Upsert` | the answer "password required" stores the attempt again | `CompletedAttemptGone` |
| `Authorized_Approved` | `finalizeConnection` does not compare the generation | `ImplementsLinks` |
| `Authorized_AtUpload` | the owner is not checked again before an export is recorded | `RevokedSavesNothing` |
| `LockOwner_SetsPersisted` | `persisted` is set before the commit | `NoStrayObjects` |
| `Orphaned_Uploaded` | the catch clause removes every uploaded object | `SavedCanBeOpened` |
| `Settled_Kept` | a finished computation stays in the Map | `RefreshSkipsDeleted` |
| `Full_OneMore` | the cache makes room one entry late | `StorageTypeOK` |
| `StatusMatches_AnyOwner` | the `JOIN users ... is_approved` dropped from the `UPDATE` | `SuspendedNotRestorable` |
| `LockFree_NoLock` | no lock per account | `OneClientPerAccount` |
| `StartFails_NoDisconnect` | a failed start does not disconnect its client | `FailedStartDisconnects` |
| `Drained_NoGather` | a stop does not wait for cancelled handlers | `QuietAfterStop` |
| `StopIneligible_AccountOnly` | the monitor compares accounts, not generations | `LeaseEnds` |
| `PauseLost_Unreported` | a refused pause is not reported | `ConfirmedStop` |
| `SessionValid_ApprovedOnly` | a stream's poll ignores the generation | `RevokedTransfersEnd` |
| `Left_KeepEmpty`, `Left_DropsEntry` | the registry keeps empty sets; a clean-up drops the user's entry although its `Set` is not empty | `RegistryClean`, `ReachableKept` |
| `Saved_FreshVersion` | a login stores the generation of the moment instead of the one it compared the password under | `NoOldPassword` |
| `TransactionAllowed_Approved` | a credential change does not compare the generation again | `NoOldPassword` |
| `Regenerate_KeepsId` | a login or a renewal goes on under the old session id | `OneSessionPerId` |
| `Deliverable_Present` | a delivery checks only that the session exists | `RevokedReceiveNothing` |
| `RowFree_PlainSelect` | a deletion by hand ignores the clean-up's locks | `TypeOK` (the clean-up's batch has rows) |
| `Spared_RowToo` | after an S3 error the row is deleted all the same | `NoOrphans` |
| `PolicyFree_NoLock` | the settings are read without `FOR UPDATE` | `RetentionRespectsPolicy` |
| `Confirmed_AfterOnly` | the preview's original settings are not compared | `ShorteningPreviewed` |

## 3. The runs

Deadlock is checked in every run; none of the models stops.  Where the type invariant
says no more than types (WorkerLease, ProtectedStream, WebSession) no run repeats it: it
is proved (`TypeCorrect`).

| Run | Instance | Shows |
|---|---|---|
| `filters` | 1 account, 2 channels, 2 titles, 1 sender, 1 message at a time, 1 rule, 1 failed query, 2 generations | `BlockedNotArchived`, the tables' keys (`FilterTypeOK`), and of the transaction `LockedIsCurrent`, `NothingAfterSuspension`, `GenerationsInOrder`, the refinement of `ArchiveGate` |
| `worker_commands` | 1 account, 2 concurrent control requests, logins, removals, disconnects, suspensions, one timed-out status request carried out later, also after a crash | `FailedStartDisconnects`, `OneClientPerAccount`, `ConfirmedStop`, `SuspendedNotRestorable` |
| `worker_leases` | 1 account, 1 handler slot, 1 control request, fair; reconnects, suspensions, credential changes | `QuietAfterStop`, `NothingAfterSuspension` with the real sender, `LeaseEnds` |
| `codes` | 2 signups, 1 user, 3 addresses, 3 codes, 2 concurrent requests, 2 attempts, 3 mails | `TypeOK`, `GuessesBounded`, `SentCodesKept`, `AddressProven` |
| `connect` | 2 users, 1 identity, 2 attempts, 3 concurrent requests, 2 generations | `TypeOK`, `CompletedAttemptGone`, refinement of `TelegramLinks` |
| `streams` | 1 user, 3 responses, 3 sets, 1 late check, 3 generations, fair | `RegistryClean`, `ReachableKept`, `RevokedTransfersEnd` |
| `sessions` | 1 user, 2 session ids, 2 concurrent requests, 1 socket, 3 generations | `OneSessionPerId`, `NoOldPassword`, `RevokedReceiveNothing` |
| `retention` | a PDF attachment and a PDF export, 2 concurrent requests about the settings, 1 deletion by hand, periods of 1 day and Forever | `TypeOK`, `NoOrphans`, `RetentionRespectsPolicy`, `ShorteningPreviewed` |
| `exports` | 2 users, 1 key, 1 export, 2 deletions, 2 requests for totals, a cache of 1 | `StorageTypeOK`, `SavedCanBeOpened`, `NoStrayObjects`, `RefreshSkipsDeleted`, `RevokedSavesNothing` |
| `stream_immediate` | 1 user, 2 responses | **violated**: finding 1 |
| `session_logout` | 1 user, 2 session ids, 2 requests | **violated**: finding 2 |
| `filters_shown` | 1 account, 1 channel, 2 titles, 1 rule | **violated**: finding 3 |

*Bounds.*  `MaxVer` bounds `auth_version`: one change is enough to tell a
current lease from a stale one, two (in `streams` and `sessions`) for
"suspended, approved again, suspended".  Two control requests together with
the slot of restore/monitor/shutdown give three coroutines contending for one
account's lock: one holds it, two wait in either order.  Accounts share only
their owner, and the pauses of two accounts are lost or answered separately: what
the answer to the administrator says of one does not depend on the others.
The two worker runs share out the kinds of request; each kind is in one of
them.  In `filters` a message and its request have one slot: messages meet only
in the rows they lock, and what concurrent requests may do to each other
there is proved for any number (section 5).  One rule is enough for a rule and a
channel to part (that rules are unique, a part of `FilterTypeOK`, says nothing of one rule; it is
proved for any number); two channels and two titles are needed for an exchange of titles.
`MaxSaved` stops the archive from growing
without bound.  In WorkerLease `MaxLate = 1` gives one late status request, which is what a
10 s time-out against a serial sender leaves at a time; in ProtectedStream one timer
check that outlives its response, which is one clean-up more of an old `Set`.  Three
`Set`s at once are those of a response that has yet to return, of a late check, and
of the response registered now.  In `sessions` two
requests are what a write-back of an old copy needs, two ids what a renewal
needs, and users share nothing.  In `retention` `MaxAge = 1` leaves two
policies, one that keeps everything and one under which what is a day old goes:
a save either shortens or lengthens, and a file is either due or not.  The
clean-up selects PDFs and exports one after the other, each in a batch of its own, and
the instance has one of each, but of one category of the model and so in one
batch: what the run shows is a batch of which one file is protected by row locks against
deletion by hand and the other is not.  A further batch is what the theorems
`RespectsPolicy` and `NothingOrphaned` cover, for any files and categories.  When the
connection is lost the model ends the clean-up at that file (`LostEnds`), where the code's loop
may still delete objects of the batch from S3; their rows remain, as after any
failed commit, and `RetentionRespectsPolicy` claims nothing of what follows a
lost connection.  In `codes` the limits are 2 wrong
guesses and 3 mails instead of 5 and 5: enough to reach each limit with another
request under way, to replace a code and to lose a mail in between.  In `connect` three requests are
two verifications of one attempt besides another user's, or a new start.  In `exports`
one key is one export: exports of one user meet only in the owner's row;
two deletions may have read the same row.  `MaxCache = 1` fills the cache with one user,
so that the other one's result must evict it.  Of the requests about the settings, two are needed for a
save between another one's preview and its commit.

*Fairness* (`FairSpec`).  Weak fairness of each coroutine's next step: HTTP calls
have time-outs, and Telegram calls are assumed to return.  Strong fairness of
acquiring a lock: `asyncio.Lock` is first-come first-served.  Weak
fairness of the worker's own loop (`Loop`: restoring, polling, stopping,
closing): the loop sleeps two seconds and goes on.  An upload thread ends.  Not assumed:
that anyone sends a command, that a pause arrives, that a crash does not occur,
that the worker is started again, that Telegram delivers, or that the database
finds an eligible account.  The timer of an open response fires and
handlers return (`ProtectedStream`).

## 4. Findings

1. **`cleanup()` in `protectedStream.js` may unregister another response**
   (`stream_immediate`).  It runs on `finish` and again in the handler's
   `finally`.  Between the two a new response of the user finds no entry and
   puts a new `Set` into the `Map`; the second run looks at its own old, empty
   `Set` and deletes the user's entry; a timer check answered late may do the
   same.  `ReachableKept` says that nothing else does.  A suspension then does not cancel the
   new response, against "Revocation in this process aborts immediately"
   (line 7).  The one-second poll still ends it: `RevokedTransfersEnd` holds.
2. **A request can undo a logout** (`session_logout`).  `POST
   /api/retention/preview` stores its token in the copy of the session it
   loaded on arrival; express-session writes that copy back when the response
   ends, also after `POST /logout` has destroyed the session.
   `STEP10_PRIVATE_REALTIME_TESTING.md` says "Logout destroys the HTTP session".
   A change of password or e-mail, and a suspension, are safe from this, since the
   generation in the copy is old: `NoOldPassword`.
3. **A renamed channel is archived although the page shows it as denied**
   (`filters_shown`).  The page joins rules to channels by `telegram_chat_id`, the
   decision looks for `channel_key`, the title the channel had when the rule was
   made.  After a change of title the rule found by the page is not the
   one that decides, and switching it again changes only its mode, because
   the upsert meets the old rule's unique key on the chat.

Seen while modelling, without a run of its own: a worker restarted after a change
of password, and before its monitor has acted, restores the account under the
new generation, where `ADMIN_APPROVAL_SETUP.md` expects connected clients to
"require reconnecting after those security changes"; `restore_all` looks at the stored
status only.

## 5. The proofs

The modules `*_proofs` hold for any number of owners, accounts, identities, sessions,
sockets, files, rules, requests, coroutines and generations, from the assumptions
named in the modules: `Owner` is a function from accounts to users, `NoAccount`
and the other absent values are none of the present ones, control slots are not accounts, every file
has a category, exports are files, a key has one user, bounds are naturals and the cache
holds at least one result.  Every invariant and every safety action property of a passing run
is a theorem.

* **Ingestion** (`Archive_proofs`).  The inductive invariant is `TypeOK /\ PostsNamed /\
  LockedIsCurrent`.  `PostsNamed` says that a request being served has an
  account, without which the owner of its row is not a user.  The argument for
  `LockedIsCurrent`: every action that changes `approved[u]` or `ver[u]`
  needs `RowFree(u)`, so a locked request's owner is not the one that changes.
  `Barrier` (`NothingAfterSuspension`) follows: only `Commit` touches `saved`,
  and it runs at a locked, hence admissible, request.  `Refinement`: `Commit` maps
  to `Save` for the same reason, the revoking transactions to the actions of
  the same name, the rest to stuttering.  `InOrder` is then not proved again but
  inherited from `GateOrdered`, a theorem about `ArchiveGate` alone.
* **WorkerLease**.  `TypeCorrect` over every action.  `Composition`: each step of the
  composed system is a step of `Ingestion` or leaves its variables alone (`UserStep`), so the
  invariant of `Ingestion` holds here (`RowsInv`) and with it `Barrier`, of what the worker
  really sends.
  `NotRestorable`: besides the type of the statuses,
  `SuspendedNotRestorable` is its own strengthening, because the three writers of a
  status respect it for different reasons: `StoreStatus` re-checks approval in
  the same statement, `Link` and `Approve` find the owner approved, `Suspend` rewrites the statuses in the
  transaction that withdraws approval.
  The theorems about clients rest on the account's lock.  `LockInv` says: who is past the
  lock is alone with its account (`Mutex`); what its program counter says of its own
  client and of the entry in `clients` (`AllSound`: only a start that found no connected
  client has one of its own, who disconnects has popped the entry); and, for an owner
  suspended with every pause answered so far, each account either still has a pause to
  be sent or answered, or is left with coroutines that will start nothing (`Stopping`).
  The third part is what the answer `worker_pause_pending = false` stands for, and is why a start
  already queued behind the pause does no harm: its lookup finds the account
  ineligible.  A coroutine's step is described once (`Turn`: what it leaves to the
  others, and what it may answer), and a step of anyone else once (`Queued`).
  `OneClient`, `StopsConfirmed` and `FailedStarts` (`FailedStartDisconnects`) follow, the last
  because who is to report a failure has disconnected its own client or found none
  (`AllSound`), and no other start has passed the lock.  `StopIsQuiet` adds `AllLeft`: the handlers a
  stop has not yet waited for are those it noted or those of the client it is
  about to disconnect; handlers only fade (`Fades`) while it holds the lock with no
  connected client, and at the report none is left.
* **WebSession**.  `TypeCorrect` over every action.  `PasswordsCurrent`: a
  session that passes the check was opened with the current password.  The
  strengthening, `AllReliable`, says this of the copies held by requests too,
  since each may be written back, and adds that no session is of a
  generation ahead of its user's: a change of password opens a
  generation that no session or copy has yet.
  `RevokedLeftOut` (`RevokedReceiveNothing`) needs two facts about `emitToUser`, which reads
  a session, waits, and then emits to a socket that was admitted with an earlier copy.
  `OneContent`, which is the theorem `OneSession` (`OneSessionPerId`): all copies under one id
  are equal, in the store, in requests and in sockets, since a renewal takes a new id; so what the delivery reads is what the socket has.
  `AllCurrent`: no copy is of a later generation than its user's row, and one of the row's
  own generation belongs to an approved user; so authority does not come back, to
  a suspended user who is approved again either (`Advances`).  `Passes` describes what a
  step may put under an id, and `Delivery` derives the invariant from it once for all
  actions.
* **VerificationCodes**.  `Live` ties the rows, the requests and the history of codes
  together: a pending row bears a live code of its account and has counted its wrong
  answers (`RowOK`); what a request in progress has read of the row it has locked still holds
  (`ReqOK`); one request locks a row (`Mutex`); a code is known together with one
  address only, in rows, requests and mails (`OneAddress`).  `Guesses` and `CodesKept` are
  parts of it.  `Proven` (`AddressProven`) uses `OneAddress`: a verified row has the address
  its code was mailed to.  `Touches` and `Acts` are the frame: which rows and requests a step
  changes, and what becomes known of codes.
* **ProtectedStream**.  `TypeOK /\ RegistryClean` is inductive.  The step that could break it is
  `cleanup()`, which empties the response's own `Set` and then deletes the user's entry,
  whichever `Set` that is by then (finding 1): `OwnSets` (users do not share a `Set`) and `OneSet` (a
  response is in no other `Set` than its own) show that what is left in the `Map` is
  still neither empty nor of a response that is over, also when a late check cleans up.
  `Reachable` (`ReachableKept`) follows from it: a registered response loses its entry only by
  a clean-up whose `Set` is not the one in the `Map`, because that one is not empty
  while the response is in it.
* **Retention**.  The inductive invariant is about locks (`LocksOK`): the clean-up and
  saves exclude each other (`SettingsLock`), what a save has read under the
  lock is still the row (`ReadUnderLock`), a media file being deleted by hand
  is not in the clean-up's transaction (`RowLock`), and the object whose deletion is awaited
  belongs to the locked batch (`AwaitsBatch`).  `TypeCorrect` needs it, because `TypeOK` says
  that locked rows exist, and `Previewed` (`ShorteningPreviewed`) follows from it.
  `RespectsPolicy` adds `DueKept`: under the lock the settings cannot change,
  files only grow older, and the one step that makes a file young again, a
  delivery whose row is new, takes it off the list.  `NothingOrphaned`
  (`NoOrphans`) adds `GoneOK`: whoever is about to delete a row has deleted the
  object, unless a delivery has uploaded it again, and then `dlv` or
  `stray` accounts for it.
* **FilterRules** (`Archive_proofs`).  `Composition`: the filters only decide when `Receive`
  happens, so every behaviour is one of `Ingestion`, and its five theorems hold
  with the filters in front.  `FilterTypeCorrect`: `MsgsOK` ties a request of the
  ingestion path to the message it carries, without which the upsert could
  store a title of nobody; `OneRowEach` is the argument about the two
  unique keys.  `Refused` (`BlockedNotArchived`) assumes `MaxErrors <= 1`, and
  that is the point: its invariant `Standing` says that a message something has stood against has
  passed at most the worker's check, and only by the one failed
  query.  `Effect` describes once what any step does to any message.
* **TelegramConnect**.  The parts of the type invariant, and two facts about row
  locks: who holds the user's row finds its authority unchanged
  (`LockedCurrent`), who has found the identity's row has found the user's own, and it stays
  (`OwnRow`).  `Refinement`: only the committing step is a `Connect` of
  `TelegramLinks`, enabled by these two; where no row was found the unique key
  gives the same.  `CompletedGone`: ids are used once, and an `UPDATE` of
  a deleted attempt does nothing.
* **ExportLibrary and StorageOverview** (`StorageOverview_proofs`).  The inductive invariant says
  what the flag `persisted` of a request means (`Persisted`): without it a row of its key
  comes from a commit in doubt, with it the object has a row or is deleted; a key
  belongs to one request (`OwnKeys`).  `Openable`, `NothingStray` and
  `RevokedNotSaved` follow.  `Composition` carries them over to the
  composed module that the run checks.  `Refreshed` (`RefreshSkipsDeleted`): what is
  deleted stays deleted, and a computation and those who wait for it know
  the same deletions (`CalcOK`).  `StorageTypeCorrect` is about the cache (`CacheOK`): dropping
  what has expired keeps the order and the one result of a user, and the eviction leaves room
  for the new one.  `Unexpired` describes the results that stay by their places, in
  increasing order, because facts about the library's recursive `SelectSeq` need
  induction.

Only model-checked: the liveness properties `LeaseEnds` and `RevokedTransfersEnd`, which are
out of the prover's reach, and the three refuted claims.

## 6. Not modelled, and the plan

Left in the parts that are modelled: the rate limits (in MySQL for signups and
administrators, in memory for profiles and Telegram logins; windows and clocks
would be most of the model); `LIMIT 100` of the clean-up, whose batches are
complete in every instance TLC can hold; `POST /api/pdf-exports` with a key named by the
client; a new login of an account whose client runs under the old session,
which would need the product of WorkerLease and TelegramConnect; a
shutdown that cancels the stops of the monitor, taken as a crash.

Theorems to add: none of the properties the runs check is left but liveness; what could follow
are theorems about the code that no run states yet, such as a safety part of
`LeaseEnds`: which leases the monitor may end on an eligibility list that is out of date.

Never modelled: the browser pages (`node/public`), read-only queries
(`messages.get.js`), the sessions of administrators, one-off scripts, encryption of
secrets, formatting of PDFs, and `telethon_local_backup`.  The last is a copy of
Telethon 1.33.1 that nothing imports (`requirements.txt` installs 1.42.0); it is more than
nineteen twentieths of the repository's implementation lines, so that most of
the repository, counted in lines, is outside this project, while every part of
TeleSaver with state that several actors change is in it.
