# A TLA+ model of the Xiaoasi Mail Gateway

The Mail Gateway sells temporary mailboxes. A user spends a point, the gateway
creates an account on one of several CloudMail servers, hands out its address,
and later reads verification codes from it over HTTP or POP3. The code is a
FastAPI application in `src/app`, with PostgreSQL as its only store, a retention
script in `src/scripts` and a React front end in `src/admin-web`.

What makes it hard is not any single function. A creation crosses several
database transactions and several HTTP requests; other creations, an
administrator's changes, lost answers, retries under the same idempotency key and
restarts fall in between; and points, which are money, must come out right. That is
what is modelled first.

## 1. Execution model

- One uvicorn worker, one asyncio loop. All endpoints are coroutines, and database
  calls are synchronous. Between two `await`s a coroutine therefore runs alone: the
  models interleave tasks only where the code awaits.
- Each `database.transaction()` commits by itself. Where a handler runs several, a
  restart, or an exception of the database, can fall between them, so they are
  steps of their own, during which no other task runs (variable `cpu`).
- Three things do not run on the loop. Registration runs in a thread pool
  (`run_in_threadpool`). So do the dependencies `current_user` and `current_admin`,
  which FastAPI calls in a thread because they are plain functions: a request is let in
  there, and its handler runs later, on the loop. And the retention script is another
  process. These interleave with everything else at their transactions.
- asyncio locks are FIFO; the loop's ready queue is FIFO; every HTTP request has a
  timeout. These three facts are the only fairness assumed anywhere.

## 2. Inventory

### Components, their state and operations

| Component | Source (`src/app/gateway` unless noted) | State | Operations that change it |
|---|---|---|---|
| Per-key locks | `mailbox_service.py` 45, 55-80 | `_idempotency_locks`: key to (lock, users) | enter, wait, leave, cancel; a restart empties it |
| Credit ledger | `user_repository.py` 114-227, 502-610, 707-743 | `users.credit_balance`, `credit_rules`, `credit_transactions` | create user, reserve, confirm, refund, adjust, change the price, enable or disable a user |
| CDK packages and codes | `repository.py` 203-410, `user_repository.py` 646-705 | `credit_packages`, `credit_cdks` | create, update, disable, delete a package; generate, disable, redeem codes |
| Mailbox creation | `mailbox_service.py` 48-237, `database_business_store.py` 106-166 | `mailboxes`, `idempotency_records`, local variables of a call | create_mailbox |
| Domain routing and health | `domain_router.py`, `database_business_store.py` 168-209, `repository.py` 125-187 | `mail_domains`, `cloudmail_instances` | candidates, mark success, mark failure, clear cooldown; create, update, delete domains and instances, record a test |
| CloudMail client and registry | `cloudmail_provider.py`, `admin_api.py` 519-587 | one HTTP client and one token per instance | client_for, get_token, authenticated requests, test, close |
| Batch creation | `mailbox_service.py` 82-126, `user_api.py` 308-339 | a semaphore and the tasks of a batch | create_mailboxes, cancellation of the request |
| Mailbox lifecycle | `mailbox_service.py` 239-328, `scripts/gateway_retention_cleanup.py` | `mailboxes.status`, `verification_status` | query, read code, release, expire, retention |
| POP3 server | `pop3_server.py`, `pop3_provider.py`, `pop3_message.py` | connection count, session, snapshot, `pop_failed_attempts` | connect, USER, PASS, LIST, RETR, QUIT |
| Registration | `registration.py`, `user_repository.py` 168-227 | `user_registration_codes` | send_code, register |
| Sessions and API keys | `user_auth.py`, `admin_auth.py`, `user_repository.py` 229-500 | `user_sessions`, `admin_sessions`, `user_api_keys` | login, logout, revoke all, change password, create, regenerate and revoke keys, disable a user |
| Rate limiter | `../rate_limit.py` | a window of times per key | check |
| HTTP APIs | `public_api.py`, `user_api.py`, `admin_api.py`, `../main.py` | none of their own (request log) | validation, error mapping |
| Schema and migration | `database.py` | the tables | create, migrate |
| Mailbox token, crypto, addressing, configuration | `mailbox_token.py`, `crypto.py`, `addressing.py`, `../config.py` | none | pure functions |
| Web front end | `src/admin-web` | presentation | - |

### How they interact

    public_api / user_api --> MailboxGatewayService.create_mailbox
        --> limiter, current_user             (RateLimiter, UserAccess)
        --> create_mailboxes                  (BatchCreation, KeyedCreation)
        --> per-key lock                      (IdempotencyLocks, KeyedMutex)
        --> get_idempotency, save_mailbox     (MailboxCreation)
        --> reserve / confirm / refund        (CreditLedger, CreditWallet)
        --> DomainRouter, mark_domain_*       (DomainHealth)
        --> registry.client_for, addUser      (ClientRegistry)
    user_api.redeem --> redeem_cdk --> credit_transactions (CdkRedemption)
    admin_api --> sessions, users (UserAccess); packages, codes, rule (CdkRedemption);
        domains, instances (DomainHealth in MailboxCreation, ClientRegistry)
    pop3_server, get_verification_code --> mailboxes, registry.client_for
    retention script --> mailboxes, idempotency_records, in another process

All shared state is in the database, except the lock table, the clients and their
tokens, the POP3 connection count and the rate limiter, which a restart empties.

### What is hard, and what must hold

- *Locks*: an entry is dropped when its last user leaves. If the count is wrong
  after a cancellation, two tasks hold different locks for one key. Must hold: one
  mutex per key, entries exactly for the keys in use, first come first served.
- *Ledger*: charges are reserved before CloudMail is asked and settled after. Must
  hold: the balance is what the rows add up to, a charge is settled once, what is
  refunded is what was reserved even if the price changed meanwhile, at most one
  pending charge per user and reference, history never rewritten.
- *Codes*: two users redeem one code, packages change under it. Must hold: a
  code pays once, to one user, what its package was worth when it was redeemed,
  and a settled code stays settled.
- *Creation*: answers lost, transactions failing, restarts and cancellations
  between transactions, expiry, deleted domains, two calls of one key. Must hold: a
  settled charge has a mailbox, a mailbox has a charge, a key has one live mailbox,
  points set aside without a running call are explained by a failure, every call ends.
- *Batches*: up to 50 items share a semaphore, fail, wait for locks a single call holds, or
  are cancelled at any await; a batch is repeated while the first one runs; its user is
  disabled half way. Must hold: no permit is lost or made, an index gets one mailbox,
  the batch ends, and ends soon for a disabled user.
- *Pool*: success and failure reports from overlapping calls, while the administrator moves,
  switches off, deletes and makes anew the domains and instances the calls are using.
  Must hold: the count of failures, status and cooldown agree; a mailbox is recorded at
  the server that has its account.
- *Clients*: a configuration change replaces a client that others use; calls refused
  with one token refresh it together. Must hold: no HTTP client leaks, no older token
  replaces a newer one, no storm of refreshes, no lock stays taken, no call talks to
  another server than the one it read about.
- *Lifecycle*: a query for a code waits up to minutes while its mailbox is released,
  expires or is deleted by a script in another process. Must hold: a key keeps its
  mailbox for its whole lifetime, a received code is not lost to a later query, a
  released mailbox never comes back.
- *POP3*: slots are taken and given back around awaits and cancellations; wrong codes
  come over many connections and through lockouts. Must hold: the count is exact, the
  number of guesses is limited, sessions end where the mailbox does.
- *Registration*: the only handlers that run in threads, at READ COMMITTED, without row
  locks. Must hold: attempts are counted and only the newest code lives, as far as the
  transactions do not overlap; how far is part of the model.
- *Sessions and keys*: a request is let in and handled later; in between its session ends, its
  user is disabled, its key revoked. Must hold: what has ended is never accepted again,
  who is disabled is given no session and no key, and a new secret only for a key that
  is not revoked.
- *Rate limiter*: stale events leave the window only when the next request comes. Must hold: no
  window has more than the limit, and nobody is refused with fewer.

`PROJECT.json` lists each hazard at its line with the property that covers it, or why
none does.

## 3. Plan

The order in which the project was built, the most important behaviour first; all of it
exists.

1. `KeyedMutex`, `IdempotencyLocks`: the locks of creation.
2. `CreditWallet` (abstract), `CreditLedger`: points; `CdkRedemption` over it.
3. `DomainHealth`, and `MailboxCreation` over it, `CreditLedger` and `KeyedMutex`.
4. `ClientRegistry`: clients and tokens.
5. `MailboxLifecycle`, and `Pop3Access` over it.
6. `Registration`: send_code and register in threads.
7. `KeyedCreation` (abstract), which `MailboxCreation` implements, and `BatchCreation`
   over it and `IdempotencyLocks`.
8. The administrator's operations on domains and instances, in `DomainHealth` and
   `MailboxCreation`.
9. `RateLimiter`, `CredentialLife` (abstract), and `UserAccess`, which composes the
   limiter with sessions and keys and implements `CredentialLife`.
10. Proofs, in the eight `_proof` modules (section 6).

What could come next: explicit account names, so that a request with a fixed name meets
the account its lost call has made; the closing of all clients at shutdown.

The abstract specifications and what implements them:

| Promise | Implemented by |
|---|---|
| `KeyedMutex`: one task at a time per key | `IdempotencyLocks`, and so `BatchCreation` |
| `CreditWallet`: holds on points, spent or given back once | `CreditLedger`, `CdkRedemption`, `MailboxCreation` |
| `KeyedCreation`: one mailbox per key at a time, one key per mailbox | `MailboxCreation` |
| `CredentialLife`: sessions and keys granted to who is admitted, further secrets only in exchange for valid ones, ended for good | `UserAccess` |
| `MailboxLifecycle` itself | `Pop3Access` |

## 4. Modules and the code

Variables are named after the columns or attributes they stand for, actions after the
method, or the part of it between two awaits or commits. `PROJECT.json` maps each
definition to its lines. Time is a number only in `MailboxLifecycle`, where lifetimes
are compared with retention periods, and in `RateLimiter` and `UserAccess`. Elsewhere what matters of it is whether a lifetime,
a cooldown or a token is over, and each is ended by an action of its own.

- `KeyedMutex`: at most one task in the section of a key; what `create_mailbox`
  expects of its locks.
- `IdempotencyLocks`: the table of `(asyncio.Lock, users)` pairs. Looking up the
  entry, counting the task and the first attempt at the lock are one step, because
  the guard is only held across code without an await (`EnterAtOnce`, `Wait`).
  `Acquire` is the wake-up of the oldest waiter, `Leave` the release and the
  `finally` clause, `Cancel` a cancellation while waiting. Lock objects have
  identities, so a model in which an entry is dropped too early does get two locks.
- `CreditWallet`: the abstract specification of points: each user has points to
  spend and, per reference, at most one hold; a hold is taken from the points,
  then spent or given back in full.
- `CreditLedger`: the tables `users`, `credit_rules`, `credit_transactions`, one action
  per operation, each one transaction. `Post` is the pattern they share: a row with
  the balance after it. `Wallet` is its refinement mapping: a pending row is a hold.
- `CdkRedemption`: packages and codes over the ledger; `RedeemCdk` locks the code's row,
  posts and marks it in one transaction.
- `KeyedCreation`: the abstract creation: `CreateFor` a key, `Lapse` of its mailbox.
- `BatchCreation`, over `IdempotencyLocks`: `StartBatch` is the endpoint with gather,
  `ItemStarts` an item that gets a permit and goes on to its lock in the same step of
  the loop, `GetsLock` a waiter that is woken, `ItemEnds` its end with whatever result,
  `Answer` the end of gather. `CancelBatch` cancels the request; each item meets that at
  the await where it is (`ItemCancelled`). What a call does with its key is
  `Creation!CreateFor`, one step at its end; its reservation is at its beginning
  (`Reserves`), which is where a disabled user is noticed.
- `DomainHealth`: status, failure count and cooldown of domains, availability, the
  candidates of a request (any order, as the draw is random; cut at
  `max_create_attempts`), and the administrator's transactions on domains and instances.
  A deleted row's id is never used again, so a new row takes an id nothing knows. It has
  no behaviour of its own: its actions are used by
- `MailboxCreation`: the calls. `Begin` is everything up to the first await (replay,
  purge of expired records, candidates, reservation, lock); `Send` to `NoAnswer` the
  exchange with CloudMail, where an answer may be lost before or after the account was
  created; `Fail`, `Save`, `SaveRefused`, `ConfirmCredit`, `Finish`, `GiveBack` the
  transactions after it, with `DbFault`, `Crash` and `Cancelled` in between. A foreign or
  primary key that refuses a row is a guard (`CanSave`). The lock is used through
  `KeyedMutex`, which `IdempotencyLocks` implements. A candidate is a domain with the
  instance it was on when the call picked it; `ManagePool` is the administrator, who may
  change both while the call waits.
- `ClientRegistry`: `client_for` with its lock and the awaited close of a replaced
  client, `get_token` with its lock, the retry of `_authenticated_post`, the
  administrator's change and test of an instance. `CloudIssues` and the arrival of the
  token (`EndGen`) are separate, so answers could overtake each other. A configuration
  is a version and the recorded health, because the registry compares both.

- `MailboxLifecycle`: rows of `mailboxes` and `idempotency_records` over their whole
  life. A query for a code is `GetVerificationCode` (its checks), `EmailList` (CloudMail
  looks into the account), then `Receive`, `GiveUp` or `PollAgain` when the answer is
  there; everything may happen in between. `Cleanup` is the retention script, one
  transaction. A removed row keeps its key and time in the model, for comparison only.
  `MarkExpired` shows what get_mailbox_status amounts to: the token ends with the
  mailbox and is verified first, so "expired" is only written if the lifetime ends in
  between; in practice the script writes it.
- `Pop3Access`, over `MailboxLifecycle`: one action per command up to the login. `PassAdmin`,
  `PassRefused`, `PassRight` and `PassWrong` are the outcomes of PASS, which runs without
  an await up to the request to CloudMail. `Loaded` and `LoadFails` are its answer. The
  commands after it read the session's snapshot and change nothing.
- `RateLimiter`: the deque of a name as the tail of the list of all accepted times, so that
  the promise can be stated about all of them.
- `CredentialLife`: sessions and keys, a key with its first secret, are granted to holders
  who are admitted; a valid secret is exchanged for another one, and nothing asks whether its
  holder is still admitted, as `regenerate_api_key` does not; credentials end, and a session
  with its holder's expulsion. A key has a life of its own beside its secrets', so that one
  that was revoked cannot come back with a new secret.
- `UserAccess`, over `RateLimiter`: `Authenticate` and `AdminAuthenticate` are the
  dependencies, in their threads; `Logout` to `RevokeApiKey` and `SetUserEnabled` the
  handlers, later; `NothingDone` a handler that refuses or reads. A session remembers the
  password it was opened with, for the property only. API keys are checked by the
  handlers themselves, so a key counts as usable by what its row says.
- `Registration`: `SendCheck` to `MailSent` is send_code, `Register` and its four ends the
  registration. Each SELECT and each commit is a step of its own; `crossed` remembers which
  codes were touched by transactions that overlapped.

The `MC*` modules give the constants values. Operators marked "Mutant" stand in front
of the definition they would replace: each is a slip the code could contain, and each
breaks the property `PROJECT.json` names with it, so no property passes vacuously.

## 5. Runs

| Run | Question | Result |
|---|---|---|
| `batch` | Is the lock table one fair mutex per key, are permits exact, are batches repeatable, do they end? | holds |
| `cdk` | Are points and codes kept through any order of ledger and code operations? | holds |
| `creation` | Do charges, mailboxes, records and the health of domains agree through overlapping calls and failures? | holds |
| `calls_end` | Does every creation come to an answer, and its mailbox to the right server, while the pool changes? | holds |
| `clients` | Do shared clients and tokens stay right while instances change and calls fail, and does nobody wait for ever? | holds |
| `access` | Do sessions, keys and the limiter keep their promises through requests handled late? | holds |
| `lifecycle` | Do mailboxes, records and codes agree through queries, release, expiry and retention? | holds |
| `pop3` | Are connections, guesses and access to released mailboxes kept within their limits? | holds |
| `registration` | What do registration codes keep although their transactions interleave? | holds |
| `timeout_refund` | Does a charge stay pending after a network timeout, as `docs/api.md:152` says? | no |
| `free_mailbox` | Is the charge of a created mailbox never returned, as the development plan says (line 326)? | no |
| `guess_limit` | Is a registration code compared with at most the allowed wrong guesses, as `docs/api.md:120` says? | no |

What the passing runs show, and under which premises:

- `batch`: mutual exclusion, exact counts, queues that match the waiters, no barging and
  refinement of `KeyedMutex`, for locks used by batches and single calls together;
  `PermitsExact`; `ItemsMatchKeys`, with the repetition running beside the first batch, and
  excepting keys whose mailbox has expired; `BatchStopped`, which bounds what a disabled
  user still gets by the semaphore, since calls past their reservation go on;
  `BatchesAnswered`.
- `cdk`: the history is an account statement (`LedgerChained`), history
  frozen; the reversed charges of a reference and its refunds match one to one and in order,
  each refund the amount its charge took (`RefundsMatchReversals`, stated in `CreditLedger`);
  a code pays once and stays settled, and the whole refines `CreditWallet`.
- `creation`: `ChargedForMailbox` always; `MailboxCharged` only while no transaction has
  failed and no restart is followed by expiry, which is as far as the code goes, since
  `save_mailbox` and the confirmation are two transactions; `PendingAccountedFor` bounds
  the points that are set aside with nobody to settle them by the failures that
  happened; `NoConflictAtSave` and `ImplementsCreation`, one mailbox
  per key at a time, rest on the lock and the purge; `HealthConsistent` through the reports
  of two calls that chose their candidates before either reported: two failures in a row, a
  success after failures, either report about a domain that cools down already, and a
  failure after the cooldown has passed.
- `calls_end`: two changes by the administrator fall anywhere into a call with two
  candidates on two instances. `MailboxAtItsServer` rests on the call recording the
  instance it has asked, not the one its domain is on by then, and on the foreign keys.
- `clients`: `CachedOpen` excludes cancellations, because a call cancelled during the
  awaited close leaves the closed client in the cache; `TokenIsLast` and `NoRefreshStorm`
  allow for tokens that end otherwise (CloudMail restarts, a lost answer). `OwnConfiguration`:
  two changes of the configuration, so that a call can meet a client that is one change
  newer than what it has read.

- `lifecycle`: `KeyKeepsMailbox` rests on the script's least retention of a day and the
  cap of a day on lifetimes (assumed by name: `Ttl <= Day`); `ReceivedStays` names the two
  ways in which a code is replaced or erased: a query for another purpose, and an
  answer that was on the way when the code was stored.
- `pop3`: `ConnectionsExact` through refusals, failed logins, cancellations and restarts;
  `GuessesBounded` shows that a lockout that runs out gives one more guess, not five;
  `ReleasedForGood` that nothing brings a released mailbox back, while a session that is
  already open goes on.
- `access`: `SessionsCurrent` although a handler may run for a session that is gone;
  `ImplementsCredentials` although a key is regenerated by a request that was let in before
  it was revoked, or before its user was disabled: the revoked key stays revoked, whoever its
  user, while the disabled user gets a new secret for the one he had (it is not accepted
  until he is enabled again); both directions of the limiter's promise.
- `registration`: `LimitKeptAlone` and `OneLiveCode` hold for codes whose transactions did
  not overlap others, which is what the code gives without row locks. Two calls of send_code
  that overlap both send their mail within the cooldown, against `docs/api.md:120`; no run
  is about that.

A charge that is pending when the server restarts stays pending: no code settles it,
though the development plan (line 326) expects a retry task or an administrator to.
`PendingAccountedFor` counts such charges.

The three disagreements with the documents are listed under "findings" in
`PROJECT.json` with quotations.

### Bounds

| Run | Instance | Why it is enough |
|---|---|---|
| `batch` | 2 batches of 2 items with one prefix and 1 permit each, 1 single call on the first key, 2 lock identities, 2 changes (restart, cancellation, expiry, the user disabled or enabled) | three tasks meet on one key while a second key is used: a holder, a waiter and a newcomer; an item waits for its permit while the other one waits for the lock; as many identities as can be live; the repetition follows or overlaps the first batch |
| `cdk` | 2 users (symmetric), 1 reference, 1 package, 1 code, costs 1 and 2, 5 rows | a grant, a charge, its refund, a second charge at the other price, a redemption |
| `creation` | 1 user, 1 key or none, 2 tasks (symmetric), 2 domains on 1 instance, one of which has failed once before or not (`Earlier`), 2 ids, threshold 2, 1 restart, cancellation or failing transaction, 5 rows | two calls overlap with or without a common key, with two candidates each, and any one failure; with the earlier failure the first of their reports starts a cooldown and the second one comes too late; the pool changes by reports, time and deletion only, the rest is in `calls_end` |
| `calls_end` | 1 task, 2 domains on 2 instances, threshold 1, 2 changes of the pool, 1 failing transaction | a domain is moved or deleted and something else made or switched off, at every await of a call that visits both domains; no symmetry with liveness |
| `lifecycle` | 2 mailboxes (symmetric), 1 key, 2 readers (symmetric), lifetime and day of 2, retention of 0 or 1 days, clock to 3, 2 messages each | a second mailbox of the key after the first one's lifetime, two overlapping queries, a newer and an older code, the script at every point |
| `pop3` | 2 mailboxes (symmetric) of 1 user, 3 clients (symmetric) for 2 slots, 2 failed logins per connection, lockout after 3, 1 lockout that runs out, clock to 3 | one client is refused, the lockout needs two connections, one mailbox is released while the other is read; no HTTP readers, they are in `lifecycle` |
| `registration` | 2 threads (symmetric), 3 attempts, 2 codes | any two transactions overlap, on one code or on an older and a newer one |
| `timeout_refund`, `free_mailbox` | the instance of `creation` without symmetry | only the failure each is about |
| `guess_limit` | the instance of `registration` without symmetry | two registrations at the last attempt |
| `clients` | 2 tasks, 1 instance, 3 clients, 2 updates, 1 ended token, 1 cancellation | one call replaces the client another one uses, twice; instances share nothing but the registry's lock; no symmetry with liveness |
| `access` | 1 user and the administrator, 2 requests let in at a time (symmetric), 2 sessions and 1 of the administrator, 2 secrets, 1 change of password, limit and window 2, clock to 2, sessions that last 1 | one request is handled after the other has ended its session, disabled its user or revoked its key; the window's boundary falls on a request |

`MaxRows`, `MaxIds`, `MaxCrashes`, `MaxDbFaults`, `MaxFaults`, `MaxClients`, `MaxUpdates`,
`MaxDeaths`, `MaxCancels`, `MaxNow`, `MaxMessages`, `MaxLocks`, `MaxCodes`,
`MaxAdmin`, `MaxChanges`, `MaxTime`, `MaxTokens`, `MaxAdminTokens`, `MaxSecrets` and
`MaxPasswords` are bounds of
the checking; they stand in guards, so an instance simply stops taking the bounded action.
`Quiet` is the server waiting for requests, so that deadlock stays checked there; `access`
ends with its clock and is not checked for it.

### Fairness

`FairBatchSpec`: weak fairness of each task's steps, as the event loop runs every task that
can run and a call inside its section ends (each await in it has a timeout), and of gather's
end. `FairCreationSpec` and `FairRegistrySpec`: strong fairness of each task's steps,
because asyncio's ready queue and locks are FIFO, so a task that is ready again and again
does run, and because httpx ends each request at its timeout. Nothing is assumed of
CloudMail, of users, of the administrator, of cancellations, restarts or expiry.

## 6. Proofs

Checked by TLAPS for every value of the constants that satisfies the named assumptions.

- `BatchCreation_proof`. First the lock table. Mutual exclusion per key is not inductive: the table must be
  known to give every client of a key the same lock, the owner of a lock to be
  inside with it, and the queue to hold exactly the waiting clients. `IInv` joins the
  types with those three (`TableInv`, `OwnerInside`, `Queued`). From it: `TypeOK`,
  `MutualExclusion`, `UsersCounted`, `KeysIndependent`, `QueueMatchesWaiters`,
  `NoBarging` and the refinement of `KeyedMutex`. `BatchUsesLocks` maps each step of
  `BatchCreation` to one of the table or a stutter and carries these over. `BatchInv` then
  adds what batches need: permits and running items together make the semaphore's value;
  only a task inside its section has a charge, and of a disabled user's batch no more
  charges and late mailboxes than permits; a mailbox belongs to one key and a result to the
  key of its index. From it: `PermitsExact`, `BatchStopped`, `ItemsMatchKeys`. `NoBatchStuck` is the
  safety that `BatchesAnswered` rests on. With `OwnersHere` (a lock that is taken is that
  of a task inside) a task that waits does so behind one of its key that is inside or has been woken
  (`WaitsForSomeone`): the lock's owner, or else the head of its queue. A batch
  that is not over then has an item with a step, or one waiting for the key of a task with a
  step: an item without a permit means by `PermitsExact` that another one runs, and of the
  queued items one is the first. Nothing waits in a circle, and only the event loop's fairness is
  left to TLC. `HasStep` is the condition of `Runs`, but for the new lock object a
  first call of a key needs. Assumed:
  finitely many tasks, and that the "no task", "no lock" and so on are not tasks or locks.
- `CreditLedger_proof`. `IInv` is the types (no negative balance among them) and
  `OnePendingCharge`, without which "the newest pending row" would not be what
  confirm and refund act on. From it: `HistoryFrozen`, `LedgerChained` and the refinement
  of `CreditWallet`. `WalletStep` maps each ledger step to a wallet step or a stutter.
  `RefundsMatchReversals` asks for a matching of reversals and refunds, which a refund
  extends by one pair; that the new pair comes last needs that a pending charge is younger
  than every refund of its reference (`Matched`). `HoldsKept`, that what is set aside keeps
  its amount until it is spent or given back, is read off the abstract wallet.
- `CdkRedemption_proof`. `CdkInv` adds the types of codes and packages, that a code's
  package exists, and `RedeemedOnce`. From it: `CdkTypeOK`, `RedeemedOnce`, `CdkSettled`,
  and again `LedgerChained`, `HistoryFrozen`, `RefundsMatchReversals` and the refinement of
  the wallet, now with redemptions.
  Assumed: codes, charge references and the administrator's reference are distinct.
- `Pop3Access_proof`, the part on `MailboxLifecycle`. That a key keeps its mailbox is inductive once the record of
  the key is known to name the mailbox that is not over (`RecordKept`): only such a record
  stops a creation, and neither the purge nor the cascade removes it, since the script
  deletes no row younger than a day. For `ReceivedStays`, `CodesKept` says that an answer
  on the way is as new as the row unless another answer was stored since. Assumed:
  `Ttl <= Day`, which is the cap in the configuration.
- `Pop3Access_proof`, the part on POP3. `SlotsCounted` joins the count to the finiteness of the connected
  set, which the limit gives, so the number of clients may be infinite; `Guessing` says
  that a user who is not locked out has a guess left. From it `ConnectionsExact` and
  `GuessesBounded`; `ReleasedForGood` follows step by step from the types; and
  `AccessKeepsLifecycle` carries the results on mailboxes over.
- `Registration_proof`. `LimitKeptAlone` and `OneLiveCode` need to know why overlaps are
  seen: a code nobody overlapped has one judge, no code is being superseded meanwhile, its
  row is as it was read (`Alone`), and a sender of such a code supersedes all such codes
  that are live (`Superseding`); new codes are handed out once (`NewCodes`). That the newest
  of some codes exists (`LargestCode`) is taken from the well-foundedness of the naturals.

- `MailboxCreation_proof`. `CreationInv` joins the ledger's `IInv` and the consistency of the
  domains with five facts. A task at work has the section of its key (`TasksOK`); while it
  has not saved, its key has no record (`NoConflict`, so `NoConflictAtSave`); the record of a
  live mailbox's key names that mailbox (`LiveRecorded`, so `OneLiveMailboxPerKey`); ids are
  drawn once (`IdsOK`); and a reference has a mailbox for every completed charge, and one
  more while a call is between save and confirm (`Paid`, so `ChargedForMailbox`). `Paid`
  needs two results from elsewhere: that two calls at work never share a reference, which
  the lock and the ids give, and the ledger's `OnePendingCharge`, by which a confirmation
  completes one charge at most. `HealthConsistent` is inductive, and the proof also covers what
  run `creation` leaves out: any number of calls, and a cooldown that is lifted by hand.
  `CreationUsesLedger` maps
  each step to a transaction of the ledger or a stutter and carries `LedgerChained` and
  the refinement of `CreditWallet` over, and `HistoryFrozen` and `RefundsMatchReversals` with
  them. Assumed: finitely many domains and tasks (a process has finitely many coroutines), and
  that the ids drawn for mailboxes (UUIDs) are not keys of users.
  `PendingAccountedFor` counts: each step is one of a few kinds (`StepKinds`), and of those only
  a restart or cancellation, with at most one charge for each task, and a failing transaction,
  with one, leave a charge behind; a call that has not saved is known to be charged, and its
  reference to be its own (`ChargedOK`, `OnePendingCharge`).
  `MailboxCharged` needs the converse of `Paid`: a reference has as many charges that were not
  given back as mailboxes, and one more while a call has paid and not saved (`BoughtFor`). A
  refund keeps this because the only call that can give back a charge of the reference is that
  one. The critical step is a call that begins with a charge it finds pending
  (`FreshStart`). Without restarts and failed transactions there is none, by
  `PendingAccountedFor`: it would be another call's, and references are not shared. With a
  restart but no expiry all mailboxes are live (`NoneExpired`), so the reference has none, or
  the call would have been answered with it. Hence the premise (`Undisturbed`).
  `MailboxAtItsServer` needs that a call keeps the candidate it asked, and that an instance a
  mailbox names is neither deleted nor made anew; `CreationImplementsKeyed` maps a save to
  `CreateFor` and an expiry to `Lapse`, by `LiveRecorded` and the ids.
- `UserAccess_proof`. `LimiterInv`: the accepted times are in order and only stale ones have left
  the deque; from it, for any limit and window, `WindowKept` and `RefusedRightly`.
  `AccessInv`: secrets are handed out once (`SecretsOK`, with a secret for every key) and an open session
  is of the
  present password of an enabled user, which is inductive as it stands, since every step
  that changes either removes the sessions in the same transaction. `ImplementsCredentials`
  then says for each step what becomes of each session, key and secret;
  `CredentialsEndForGood`, that an ended
  one is never valid again and none passes to another user, is read off the abstraction.
- `ClientRegistry_proof`. `RegistryInv` joins the structure (who holds the registry's lock is the
  one that closes a client; a call's client is of the call's configuration; what is open is
  cached) with the tokens: of an open client either nobody has asked for a new token since
  its last one was issued, or the task that holds its lock is still to store it. From it:
  `NoClientLeaks`, `CachedOpen`, `OwnConfiguration`, `TokenIsLast`.
  `NoRefreshStorm` is a bound on a counter and not inductive: it must be known how many tokens
  may still be asked for. `Budget` adds these to the tokens issued: the clients that lack a
  token a call could use (`Lacking`: a call asks for one, or what is kept or on its way is of no
  use) and the tests that have not asked yet. A new client, a test, a token that ends and an answer
  that is lost each pay for one more; a call whose token is refused asks again only if that
  token is not valid any more (`FreshOK`), and its client then already lacks one, so a second
  call refused with it adds nothing. Counting needs finitely many tasks, which is assumed.
  `LocksInUse`: the registry's lock is held only by a call that closes a client, a token lock only
  by a call that refreshes with that client, whatever fails or is cancelled; it is the safety
  that `NobodyStuck` rests on.

The type invariants are proved there and are no properties of the runs.

Since the bounds of checking (`MaxRows`, `MaxIds`, `MaxCrashes`, `MaxNow` and so on) are
arbitrary numbers there, the results hold for histories of every length. Every invariant and
every action property the passing runs check is proved. Only model-checked is what is temporal under
fairness (`BatchesAnswered`, `CallsEnd`, `NobodyStuck`), which TLAPS cannot do; for the
first and the last the proofs establish the absence of lost locks and circular waits.

## 7. What is not modelled

- Left out: the HTTP layer's routing, validation and error texts, lists and statistics, the schema and its one-off
  migrations (the constraints that matter are guards), configuration, mailbox tokens and
  encryption (cryptography without state), address generation (a collision is an outcome
  of `MailboxCreation`), what is recognised as a code in a text (a message has a code or
  not), POP3's reading commands and the rendering of messages, the audit and
  request logs and their retention, the closing of all clients at shutdown, the front end.
- Abstracted: addresses are named by attempt and domain; a request by whether it names one
  domain and which it accepts (two requests are equal iff their hashes are); instances'
  rows by a version in `ClientRegistry`, by being switched on and healthy in `DomainHealth`;
  weights of domains by any order; amounts by small numbers; a batch's creation by
  `KeyedCreation`, without points: whether a reservation is refused is left open.
