# Verification of the industrial dashboard

The repository is a dashboard for an industrial catalogue: accounts with four roles, products with a price and a
gallery, and *visualization*, where an owner uploads a picture of a room and a paid provider generates an image of a
product standing in it. An API (NestJS), a worker process and a web client (Next.js) share one PostgreSQL database
through Prisma; nothing else coordinates them. Requests, worker runs and shells therefore interleave between any two
statements, and most of what the program promises rests on conditional updates, on two database constraints and on the
order of statements. This project models those parts in TLA+, checks them with TLC on small instances, and proves the
central properties with TLAPS for instances of any size.

## Inventory

| Part | State it keeps | Operations | Modelled by |
|---|---|---|---|
| Attempts and worker: `visualization/attempt.service.ts`, `infrastructure/jobs/*`, `handlers/generation.handler.ts`, `worker/src/main.ts` | `GenerationAttempt`, `BackgroundJob`, stored objects | submit, status read, claim, dispatch, heartbeat, commit, complete | `Generation` |
| Deadline and recovery: `visualization/deadline.service.ts`, `recovery.service.ts` | the same rows | reconcile, recover (nobody calls them) | `Generation`, when `Watchdog` |
| Session deletion: `visualization/delete-session.service.ts` | `VisualizationSession.deletedAt` | tombstone | `Generation` |
| User management: `identity/user-management.service.ts`, `registration.service.ts`, `scripts/admin-bootstrap.ts` | `User`, `GovernanceLock`, `AuditEvent` | register, bootstrap, approve, disable, change role, change language | `UserManagement` |
| Sessions: `identity/session.service.ts`, `authentication.service.ts`, `prisma-identity.store.ts`, `auth.guard.ts` | `AuthenticationSession`, `RefreshToken` | login, refresh, logout, guard | `Credentials` |
| Password reset: `password-reset.service.ts`, `prisma-identity.store.ts` | `PasswordReset` | issue, consume | `Credentials` |
| Reset mail: `infrastructure/mail/outbox.service.ts`, `worker/src/main.ts` | `EmailOutbox` | queue, claim, send, mark sent or failed | `ResetMail` |
| Drafts and idempotent submission: `draft.service.ts`, `accept-attempt.service.ts`, `identity.service.ts` | `RoomDraft`, `IdempotencyReceipt` | load, save, attach, discard, submit, retry | `Submission` |
| Catalogue: `catalog/gallery.service.ts`, `catalog/product.service.ts` | `Product`, `ProductImage` | attach, remove, set primary, edit, archive, restore, delete | `Catalog` |
| Pricing: `pricing/pricing.service.ts` | `PricingSettings`, `ExchangeRate` | read rate, set rate | `Pricing` |
| Conversion: `pricing/conversion.ts` | none | convert | not modelled: only its test calls it |
| Uploads: `media/upload.service.ts` | `MediaAsset`, stored objects | upload | not modelled: nobody knows the asset before both steps are done |
| Web refresh: `web/src/lib/api/auth-session.ts` | a lock in `localStorage` | acquire, refresh, release | not modelled: `refreshSession` has no caller |

**How they interact.** The API and the worker never call each other. The API inserts an attempt and its job in one
transaction; the worker finds the job by polling. The owner's tab polls the status, and that read also fails attempts
whose deadline has passed. Every request passes the guard, which reads the account *before* the handler opens its own
transaction, so what the guard saw may be stale. Disabling or re-roling an account, and a password reset, end sessions
by incrementing `authVersion`, which the guard compares with the token.

**What is hard.** A job is delivered again when its lease runs out, while the first run may still be waiting for the
provider. A deadline competes with the commit, a status read with both. A worker dies between two statements. Two tabs
submit at once, two administrators demote each other at once, a form becomes stale while its author looks at it.
`PROJECT.json` lists each of these with the line at which it bites and the property that would catch it going wrong.

**What makes each part correct.** Generation: one active attempt per owner, one provider call per attempt, a result
behind every success, no success after a failure, every active attempt settles. Accounts: someone can always
administer, an administrator reaches only what the role allows, no change lands on an account its author did not see.
Credentials: a link and a refresh token are used once, no session outlives the account version it was opened under.
Mail: a queued mail is sent or expires. Submission: all answers to an idempotency key name one attempt, no draft is overwritten unseen.
Catalogue: at most ten images, distinct positions, a primary image that is in the gallery, no edit of an archived product,
no deletion of a product an attempt refers to. Pricing: a rate replaces the one its author saw, and can be replaced.

## Modules

| Module | Contents |
|---|---|
| `AttemptLifecycle` | the abstract specification: what generation promises about an attempt, without jobs, leases or workers |
| `AttemptSlot` | the abstract specification of one owner's attempts: one active at a time, settled once |
| `Generation` | attempts, jobs, requests, worker runs and both repair services; properties, inductive invariant, refinement mappings |
| `GenerationProofs` | the inductive invariant of `Generation` and the first safety properties |
| `OutcomeProofs` | the other safety properties of `Generation`, and that it implements `AttemptLifecycle` and, for each owner, `AttemptSlot` |
| `MCGeneration` | constants and symmetry sets for TLC |
| `Governance` | the abstract specification of accounts: each change one step under the rules, without requests, forms or locks |
| `AccountAccess` | what sessions assume of accounts: they open, close and change their password only with a new version |
| `UserManagement` | accounts, governance lock, changes in flight, the bootstrap command; properties and inductive invariant |
| `UserManagementProofs` | the proofs about `UserManagement`, with those that it implements `Governance` and `AccountAccess` |
| `MCUserManagement` | constants and symmetry sets for TLC |
| `Credentials` | sessions, refresh tokens and reset links of accounts; properties and inductive invariant |
| `CredentialsProofs` | the proofs about `Credentials`, with the one that it implements `AccountAccess` |
| `MCCredentials` | constants and symmetry sets for TLC |
| `MailDelivery` | the abstract specification of the outbox: tries, hand-overs and the outcome of each link's mail, without senders |
| `ResetMail` | the outbox and the calls that empty it, composed with the links of `Credentials`; properties and inductive invariant |
| `ResetMailProofs` | the proofs about `ResetMail`, which use those about `Credentials`, and that it implements `MailDelivery` |
| `MCResetMail` | constants for TLC |
| `KeyedSubmission` | the abstract specification of submissions: the slot of `AttemptSlot`, and one attempt for all answers to a key |
| `Submission` | the draft of an account in several tabs, and its submission under idempotency keys; properties and inductive invariant |
| `SubmissionProofs` | the proofs about `Submission`, with the one that it implements `KeyedSubmission` |
| `MCSubmission` | constants and symmetry set for TLC |
| `Catalog` | a product, its gallery and the requests that change or use it; properties and inductive invariant |
| `CatalogProofs` | the proofs about `Catalog` |
| `MCCatalog` | constants and symmetry sets for TLC |
| `Pricing` | the settings, the chain of rates and the requests that set them; properties and inductive invariant |
| `PricingProofs` | the proofs about `Pricing` |
| `MCPricing` | constants and symmetry set for TLC |

Each component module also defines a few *faulty variants* of its own operations, such as a claim without a limit or an
update without the lock. They are never part of `Next`. Each one, put in place of the operation it resembles, makes
TLC refute the property it is paired with in `PROJECT.json`, which shows that the property is about the code.

The abstract specifications join the components:

    UserManagement --> Governance          Generation --> AttemptLifecycle          ResetMail --> MailDelivery
    UserManagement --> AccountAccess <-- Credentials
    Generation --> AttemptSlot   (of each owner)    Submission --> KeyedSubmission, built on AttemptSlot

`Credentials` has one action `ChangeAccount` for all that user management does to an account, and `Submission` has
`Accept` and `Settle` for all that generation does to an attempt. That both sides implement one specification is what
justifies these abstractions: neither allows an account to open or close without a new version, or two attempts of one
owner to be active, and an argument that rests on the shared specification alone carries over.

### Generation

`attempt[a]` and `job[a]` are the rows of attempt `a` and of its only job (`attemptId` is unique). Of an attempt we
keep status, owner, deadline, error code and whether `resultKey` is set; of a job status, lease, fencing token and the
number of claims. `stored` is the set of attempts whose result object exists, `deleted` the set whose session is
tombstoned, `dispatched` a history of provider calls. `client[c]` is a request of a browser tab between its read and
its write (of a status read, a submission or the deletion of a session), `run[r]` one call of `processImages()`; its
`pc` names the statement it executes next:

| `pc` of a run | Statement | Actions |
|---|---|---|
| `idle` | `PrismaJobPort.claim`, one step because its update is conditional on what it read | `Claim` |
| `load` | reading the room and product images | `LoadInputs` |
| `check` | the read of job and attempt at the head of `persistGeneration` | `CheckFence` |
| `expire` | the update that fails an elapsed attempt before dispatch | `ExpireBeforeDispatch` |
| `mark` | `PREPARING -> GENERATING`, which throws when no row matches | `MarkGenerating`, `MarkRejected` |
| `generate` | the call of the provider adapter, which looks at the clock itself before it calls the provider | `ProviderReturns`, `ProviderFails` |
| `put` | storing the object, after which the clock is read for the commit | `PutResult` |
| `commit` | the update to `COMPLETED`, conditional on status and deadline but not on the token | `Commit`, `CommitRefused` |
| `catch` | the handler's catch block | `CatchFailure` |
| `succeed`, `fail` | `PrismaJobPort.complete` | `CompleteJob`, `CompleteRejected` |

`Heartbeat` may happen at any time between dispatch and the end of the handler. `DatabaseError` is a statement that
throws, `Crash` the end of a worker process with all its runs. `CompleteRejected` is the path in which `complete`
throws `JOB_FENCE_LOST` out of `runOnce`: the rejection is unhandled and Node ends the process. `SubmitCheck` and
`SubmitInsert` are the two halves of the submission transaction, with the partial unique index of migration 019 as the
guard `SlotFree`; `PollRead` and `PollWrite` are the two statements of a status read, `DeleteCheck` and `DeleteSession`
those of the deletion of a session, which runs READ COMMITTED and locks nothing between them. `Tick` advances the clock.

Both provider adapters, the fake one that is deployed and `openai.adapter.ts`, throw `GENERATION_TIMEOUT` themselves
when they are called at or after the deadline. `ProviderFails` is that refusal as well as any other failure of the
call; the catch block records which (`code`). `dispatched` counts the calls of the adapter, so `AtMostOneDispatch` is
about the requests that may cost money, and one that the adapter refuses is counted too.

Abstracted: the pictures and prompts, the error texts, the backoff between deliveries (`availableAt` only delays a
claim), which asset rows are written, and the room and product ownership checks of a submission (they can only refuse
it: `RequestLost`). The statement that fails an attempt is the same in four places and is one operator, `Fail`.

### UserManagement

`user[u]` is a row of `User`, by its unique email, with role, approval, whether `disabledAt` is set, `authVersion` and
`revision`; a row that does not exist has role `NONE`. `lock` is the request whose transaction holds the
`GovernanceLock` row. `req[r]` is one change in flight: `sent` when the form has been posted with the revision the
administrator saw, `entered` once the guard and the controller have read the actor, `locked` after `SELECT ... FOR
UPDATE`, `decided` once the target has been read and its new columns chosen, then `Write`. `saving` is the same row
updated by its own owner's change of language, which takes neither the lock nor a revision. A transaction that fails or
an API that dies rolls back: `Abort`. `operator[o]` is a shell running the bootstrap command between its look and its
insert.

The columns of an update are a value (`patch`): a decision, an access, a role or nothing. *Nothing* is not an
invention: `setAccess` returns the result of `ensureAnotherEnabledSuperAdmin` where columns are expected, and that
result is an empty object. The audit event is the operator `AuditEvent`; it is written by the same transaction as the
row, so `NoLostUpdate` speaks of it at the step where both commit.

Abstracted: names, passwords and the hash, the languages, the query that lists accounts.

### Credentials

`user[u]` is what a login and the guard look at: whether the account is open (approved and not disabled), its
`authVersion`, and its password, which is represented by the number of resets before it. `session[s]`, `token[t]` and
`link[l]` are the rows of `AuthenticationSession`, `RefreshToken` and `PasswordReset`; a row that does not exist has the
state `NONE` (a token: session 0). A session is `ENDED` when it is revoked or its family has expired, because every
reader treats the two alike; it remembers the password its login verified, which no column holds, so that a property can
speak of it. `req[r]` is one request between two of its statements:

| Code | Actions |
|---|---|
| `AuthenticationService.login`: the read of the account, the slow verification, then `createSession` with the version that was read | `Login`, `CreateSession` |
| `PrismaIdentityStore.rotate`: the read decides between replay and consumption; the update is conditional on `consumedAt` | `RotateRead`, `Rotate`, `RotateConflict`, `Revoke` |
| `AuthController.logout`: starts the update without awaiting it | `Logout`, `Revoke` |
| `PrismaIdentityStore.issue`: the update that supersedes, as it looks for rows and as it writes them; the insert and the commit | `IssueStart`, `IssueSupersede`, `IssueCommit` |
| `PrismaIdentityStore.consume`: the read; the update of the link; that of the other links and of the account; that of the sessions and the commit | `ConsumeRead`, `ConsumeMark`, `ConsumeSupersede`, `ConsumeCommit` |
| `UserManagementService.mutate`, as far as a login can tell | `ChangeAccount` |
| the passing of seven days or half an hour | `SessionExpires`, `LinkExpires` |
| a wrong password, a database error, the end of the API | `RequestLost` |

The transactions run READ COMMITTED, Prisma's default here. An update finds the rows that were committed when it
started, waits for those that another open transaction has written, rechecks its condition on them and does not see a
row that is inserted meanwhile. A request therefore remembers what its last update has found or written (`links`,
`sessions`); `Locks` and `UserFree` say what open transactions hold, and an update waits for them (`LinksFree`). What a
transaction has written takes effect at its commit, because nobody else can see it before. The second `updateMany` of
`consume` finds its links when the first statement is done (`ConsumeMark`) and writes them later (`ConsumeSupersede`),
and the account and the sessions follow in the same way. The updates by id write whatever is there: a link that another
request consumed in between is consumed again. Two transactions may wait for each other; PostgreSQL ends one of them
(`RequestLost`).

`link[l].replaced` is a history: the links that were superseded when `l` was issued. Two issues that overlap do not see
each other's link and leave two live ones. A reset by one of them supersedes the other if that is committed when its
second `updateMany` begins, and leaves it live if it is committed later. What can be relied upon is `ResetEndsLinks`:
no link survives that took the place of the one that was used, or whose place that one took. A session that is
inserted between the last update of a reset and its commit survives as a row, but carries the version from before, so
that the guard refuses it (`AcceptedKnowsPassword`). The replay branches of `rotate` return instead of throwing, so
their revocation commits. `Logout` needs a request that the guard admits, and revokes whatever session the cookie names.

`Accepts(s)` is the guard, for a request with an access token of session `s`. An access token carries the version of
its session, and a refresh does not change the session's version.

Abstracted: the tokens' text and hashes, cookies, the signature and the fifteen minutes of an access token (they only
refuse), the reason of a revocation, rate limits (they only refuse).

### ResetMail

`mail[l]` is the `EmailOutbox` row of link `l` (`resetId` is unique): its status, whether it has its payload, its
attempts, and whether `nextAttemptAt` has passed. `sender[w]` is one call of `processOne`. The timer in `main.ts` starts
a drain of the queue every five seconds whether or not the last one has returned, so calls overlap.

| `pc` of a call | Statement | Actions |
|---|---|---|
| `idle` | `claimNext`: the clean-up of lapsed mails and the search | `ClaimFind` |
| `found` | the claiming update, conditional on `QUEUED` | `ClaimUpdate`, `ClaimLost` |
| `sending` | `sendReset` | `Send`, `SendFails` |
| `sent` | `markSent`, inside the same `try` | `MarkSent`, `SendFails` |
| `failed` | `markFailed`: the read of the attempts | `MarkFailedRead` |
| `requeue` | `markFailed`: its update, by id alone | `MarkFailedWrite` |

`QueueResetEmail` is the API's insert after the link is committed, `SenderDies` the end of the worker or a statement
outside the `try` that throws. `handed` counts how often a link's mail reached the transport. The steps of `Credentials`
interleave with all of this: a link may be consumed, superseded or expire at any statement of a call.

Abstracted: encryption, addresses and texts; the order in which ready mails are taken (the code takes the oldest, the
model any); the status `FAILED`, which no statement sets; `leaseUntil` and `leaseToken`, which no statement reads. A
statement that throws is assumed not to have taken effect.

### Submission

Drafts and receipts of different accounts never meet (`ownerId` and `[userId, operation, key]` are unique), so the module
models one account. `draft` is its `RoomDraft` row, with revision 0 for no row, its content (a choice of surfaces and
products, and an image) and whether `expiresAt` lies ahead; `tab[t]` is what `room-draft.tsx` holds in each tab;
`receipt[k]` is the attempt an `IdempotencyReceipt` names. `lives` and `answered` are histories, of how often the row was
inserted and of which attempts were answered to a key. `req[t]` is the request of a tab between two statements:

| `pc` of a request | Statement | Actions |
|---|---|---|
| `idle` | a request arrives; an attachment reads the draft's selections, a submission the receipt of its key | `Load`, `SaveStart`, `AttachStart`, `Discard`, `SubmitStart`, `SubmitReplayed`, `SubmitUnkeyed` |
| `upsert` | `DraftService.save`: the upsert with an empty update, and the comparison of revisions | `Upsert` |
| `update` | the update conditional on the revision | `Update`, `UpdateConflict` |
| `reread` | `DraftService.get`, whose answer the tab shows | `Reread` |
| `draft` | `submitAttempt` reads the draft | `SubmitDraft` |
| `accept` | `AttemptService.submit` | `Accept` |
| `receipt` | the insert of the receipt, or the catch block when the key is taken | `WriteReceipt`, `ReceiptTaken` |

`Accept` is one step: module `Generation` has the transaction in detail and shows that the partial unique index admits
one active attempt; here an attempt is only `ACTIVE` or `SETTLED`, so that a second one can follow. `RequestLost` is a
refusal, a database error or the end of the API, at any statement.

Abstracted: products and their validity (a draft whose choice and image are set may still be refused: `RequestLost`),
consent, the contents of a tab's other fields. The in-memory branches of the services, which run only without a
database, and `expireRoomDrafts`, which nothing calls, are left out. The module is about `DraftService` and its callers:
the HTTP layer in front of it validates bodies with `forbidNonWhitelisted`, and `DraftDto.revision` has no decorator, so
a deployment with that pipe refuses every `PATCH` of the selections before it reaches the service, while the attachment
of an image is not affected.

### Catalog

Requests about different products meet nowhere, so the module is about one. `product` is its row: whether it exists, is
active, archived and has ever been visualized, its primary image and its revision. `position[i]` is the position of the
`ProductImage` row with identifier `i`, or says that there is no such row yet or any more. `surface` tells whether an
`AttemptSurface` row refers to the product. `req[r]` is a request between two statements:

| `pc` of a request | Statement | Actions |
|---|---|---|
| `idle` | the first read of an operation; archiving and restoring are one conditional update | `AttachRead`, `PrimaryFind`, `RemoveRead`, `EditCheck`, `DeleteCheck`, `SubmitRead`, `Archive`, `Restore` |
| `attach images`, `remove images` | the images of the product, loaded by a statement of their own | `AttachList`, `RemoveList` |
| `attach` | the insert, and the update that makes the first image the primary one | `AttachCommit` |
| `remove` | the deletion, the new positions of the others, the product's primary image | `RemoveCommit` |
| `set primary` | the update of the product, outside any transaction | `PrimaryWrite` |
| `edit`, `delete` | the update or deletion that names the revision | `EditCommit`, `DeleteCommit` |
| `submit image`, `submit` | `AttemptService.submit`: the primary image, then the surface and the mark on the product | `SubmitImage`, `SubmitCommit` |

The transactions run READ COMMITTED and lock nothing while they read, so every read is a step. The writes of one
transaction are one step: none is visible before the commit, the values they write come from the reads before them, and
what they depend on in the meantime (the unique positions, the foreign keys, the rows they name) is checked by the
database against the committed rows. When such a check fails, the transaction rolls back: `RequestLost`.

Abstracted: names, descriptions and prices; what an edit changes; the asset behind an image and its validation (they
can only refuse); roles and the HTTP layer. An edit or a deletion is modelled for a form that shows the present
revision when the request arrives, since any other is refused by the conditional update later. Creation is the initial
state; the seed script's product, which is active and has a primary image, is the other one, because no route activates
a product.

### Pricing

`settings` is the single `PricingSettings` row, `previous[n]` the predecessor of the `n`th rate that was committed, and
`req[r]` a request: `form` after `current` has answered with the rate and its revision, `insert` after `set` has read the
settings and compared the revision. `SetCommit` inserts the rate and updates the settings *by their id alone*; what
refuses a late one is the unique index on `previousRateId`, which lets nulls pass. Abstracted: the rate itself, its
author and its time. `PricingService.set` writes no audit event.

## Runs

A configuration replaces no definition. `CHECK_DEADLOCK` is off in each because the bounds stop the system: the clock
ends at `Horizon`, attempts at `MaxAttempts`, revisions at `MaxRevision`, account versions at `MaxVersion`, and sessions,
tokens and links are `MaxSessions`, `MaxTokens` and `MaxLinks` at most, the row of a draft is inserted `MaxLives` times at
most, each of the `Images` is used once, and there are `MaxRates` rates at most.

| Run | Question | Bounds |
|---|---|---|
| `safety` | Is generation safe under overlapping deliveries and two tabs? Does it implement `AttemptLifecycle`? | 2 tabs of one owner, 2 processes with a run each, 2 attempts, 2 deliveries, deadline 3, lease 1, horizon 3 |
| `recovery` | With both repair services at work: does the inductive invariant hold, are tokens distinct and settled jobs final, and does every active attempt settle while a tab keeps asking? | 1 tab, 1 process with 2 runs, 1 attempt, 3 deliveries, deadline 4, lease 1, horizon 6 |
| `unwatched` | Does an attempt settle without a tab? It does not. | 1 tab, 2 processes with a run each, 1 attempt, 2 deliveries, deadline 3, lease 1, horizon 4, no watchdog |
| `read_race` | Are terminal outcomes stable? They are not. | 1 tab, 1 run, 1 attempt, 1 delivery |
| `governance` | Are concurrent changes of accounts safe, does a `SUPER_ADMIN` who can sign in remain, and is each change one step of `Governance`? | 2 accounts, 2 requests, 1 shell, 3 roles, revision 3 |
| `disable` | Does disabling an account disable it? Not when it is a `SUPER_ADMIN`. | the same |
| `credentials` | Are logins, refreshes and resets of an account safe against each other and against changes of the account? | 1 account, 3 requests, 1 session, 3 refresh tokens, 2 links, version 2 |
| `reset_twice` | Is a link consumed once? No. | 1 account, 2 requests, 1 link |
| `mail` | Does a queued mail keep its payload, is every queued mail settled, and does the outbox implement `MailDelivery` (and so mail a link at most twice)? | 1 account, 1 request, 2 links, 2 overlapping calls |
| `submission` | Do the answers to a key agree, and does a save overwrite nothing unseen? Is `KeyedSubmission` implemented? | 2 tabs, 2 keys, 1 choice, 1 image, 2 attempts, revision 3, 2 lives of the row |
| `catalog` | Does a gallery stay within its limit, does a commit whose reads still hold keep it right, and do archived and used products stay? | 3 images, 3 requests, limit 2, revision 4 |
| `pricing` | Does a new rate replace the one its author saw, and can the current one always be replaced? | 3 requests, 5 rates |

**Why the bounds are enough to be interesting.** A lease of 1 with a deadline of 3 lets a job be delivered twice before
its deadline and lets either run be at any statement when the other claims, when the deadline passes, or when a tab
reads. `recovery` has time for three deliveries, the code's own limit, and for the deadline to pass during any of them. Two tabs of one owner are what the unique index
is for. Two requests over two accounts are enough for two administrators to change each other, and a revision of 3 for
an account to be approved, promoted and then demoted. The clock counts in units of a lease rather than in seconds; the
code compares instants only by order, which is all the model keeps. In `credentials` three requests let a login, a
refresh that loses its race and a reset overlap, or two requests for links and a reset, with the second link inserted
at any statement of the reset; the three tokens of its family let two refreshes race for one session, and sessions meet
each other only in the reset that ends them all; two changes of the version let
an account be disabled and enabled again, or disabled and reset; rows of different accounts never meet. In `mail`
two links of one account let one supersede the other while its mail is in flight, and two calls are what a conditional update has to keep apart; sessions play no part and are left out. In `submission` a revision of 3 lets two
tabs race for the update of revision 1 and one go on, two lives let the row be discarded and inserted again behind a
tab's back, and two attempts let a key be accepted twice, one after the other, before either receipt is written. In
`catalog` a limit of 2 with three images and three requests lets two attachments race for the last place while a third
request removes, archives, deletes or submits. In `pricing` three requests can have read the same rate; five rates let a
second chain begin and go on.

**Fairness.** `recovery` assumes that time passes and strong fairness of the tab's status read and of its update:
`attempt-progress.tsx` asks every two seconds for as long as the page is open, so infinitely many of its requests get
through although any one may be lost. It assumes nothing of workers or of
the repair services. `unwatched` assumes weak fairness of every
statement of the runs, which is more than a worker that may crash provides, and still finds an attempt that is active
for ever, so the counterexample is not an idle system. `mail` assumes that calls of `processOne` begin and go on, which
the timer provides for as long as a worker runs (one that dies is replaced by another call), and that links expire,
which is the passing of half an hour. It does not assume that a mail is ever delivered, nor that a call survives.

## Findings

Four runs are expected to end in a violation; each checks one sentence of the repository's documents.

- `read_race`: a status read that looked at the row before the commit writes `FAILED` over `COMPLETED`, because its
  update names only the id. The check before dispatch of a redelivered job has the same form.
- `unwatched`: nothing calls the two repair services, so an attempt whose run failed before dispatch stays active, and
  blocks its owner's next submission, until the owner asks for its status.
- `disable`: disabling an enabled `SUPER_ADMIN` passes every check, is recorded as `ACCOUNT_DISABLED`, and leaves the
  account enabled.
- `reset_twice`: two requests that both read a link before either commits both set a password, because the update of
  the link does not repeat the condition that it is unconsumed. Whichever commits last decides the password; either way
  `AcceptedKnowsPassword` holds, so no session of the other one survives.

Other observations, which no run checks:

- The commit does not look at the fencing token, although `contracts/integrations.md:35` says that only its holder
  persists: a run whose job was claimed again still commits. `AtMostOneDispatch` shows what limits the harm, since only
  one run can have called the provider, and `SettledJobIsFinal` and `TokensDiffer` keep it from settling the job.
- The gallery is right only as long as reads hold (`CurrentCommitsKeepGallery`). An attachment that reads the only
  image while another request removes it inserts at position 1 and sets no primary image: the gallery is not empty, has
  no primary image (FR-019, `spec.md:429`), and the next attachment chooses position 1 again and fails, until an image
  is removed. The contract asks for `If-Match` on changes (`rest-api.md:32`); the gallery's routes take none.
- An image can be attached to a product that was archived after the request had looked.
- Two administrators who both set the first rate both succeed, since the unique index ignores nulls, and a third who had
  read the rate of the first can then replace that of the second (FR-015, `spec.md:279`). Once there is one first
  rate, nothing is overwritten unseen (`NoSilentOverwrite`).
- A product with images is not deleted: the foreign key of `ProductImage` restricts it until they have been removed one
  by one, while `rest-api.md:107` says that the deletion releases the gallery's files. No route activates a product;
  only the seed script creates one that can be visualized.
- After overlapping requests for links a reset can leave one of them live: the request that inserts it began before the
  used link was committed and commits after the reset has looked for the others. `spec.md:55` says that after a reset
  "all previous sessions and reset links are invalid". `ResetEndsLinks` says which links cannot survive.
- A mail whose sender died is never sent again, although its row has a lease. It stays in `SENDING` until the link
  lapses, and `MailSettles` holds only because the clean-up includes that status.
- The first save of a draft (`Upsert` from revision 0) inserts the row at revision 1 and then refuses the caller's
  revision 0: the edit is stored and the tab is told of a conflict. `contracts/rest-api.md:161` says that the first
  save creates the row "atomically" under revision 0. An expired draft is shown as revision 0 too, while its row keeps
  its revision, so nothing can be saved until it is discarded.
- A discarded draft starts again at revision 1. A tab that still shows revision 1 of the discarded row overwrites the
  new one; this is why `NoUnseenOverwrite` speaks of views of the present row only.
- The receipt is written after the attempt is accepted. A crash in between, or two requests with one key of which the
  second is accepted once the first attempt has settled, leaves two attempts for one key; `AnswersAgree` still holds,
  because only one of them is ever answered.

## Proofs

Eight modules prove the following for every value of the constants that satisfies the named assumptions
(`OwnerAssumption`, `ProcessAssumption`, `TimeAssumption` and `BoundAssumption` of `Generation`; `RoleAssumption`,
`NobodyAssumption` and `RevisionAssumption` of `UserManagement`; `UserAssumption` and `BoundAssumption` of
`Credentials`; `NothingAssumption` and `BoundAssumption` of `Submission`; `LimitAssumption`, `RevisionAssumption` and
`NoImageAssumption` of `Catalog`; `RatesAssumption` of `Pricing`), that is, for any number of tabs, owners, runs,
processes, attempts and deliveries, of accounts, requests and shells, of sessions, tokens, links and overlapping calls,
of drafts' tabs and keys, of images and of rates, and for any limit of a gallery.

| Theorem | Property |
|---|---|
| `GenerationProofs!IndInvariant`, `TypeCorrect` | `Ind`, `TypeOK` |
| `OneActive` | `OneActivePerOwner` |
| `DispatchOnce` | `AtMostOneDispatch` |
| `DeletedStaysQuiet` | `DeletedIsQuiet` |
| `OutcomeProofs!NeverResurrected` | `NoResurrection` |
| `ResultsBehindSuccess` | `CompletedHasResult` |
| `ResultsBehindJobs` | `SucceededJobHasResult` |
| `TimeoutsAreTrue` | `TimeoutMeansElapsed` |
| `SettledJobsStay` | `SettledJobIsFinal` |
| `TokensAreUnique` | `TokensDiffer` |
| `GenerationImplementsLifecycle` | `ImplementsLifecycle` |
| `EveryOwnerHasASlot` | `ImplementsSlot(o)` for every owner `o` |
| `UserManagementProofs!IndInvariant`, `TypeCorrect` | `Ind`, `TypeOK` |
| `AnAdministratorRemains` | `SuperAdminRemains` |
| `AdminsManageUsers` | `AdminManagesOnlyUsers` |
| `NoUpdateLost` | `NoLostUpdate` |
| `SessionsEndWithChanges` | `ChangesEndSessions` |
| `ChangesAreGoverned` | `ImplementsGovernance` |
| `AnAdministratorCanSignIn` | `UsableAdminRemains` |
| `AccountsKeepVersion` | `ImplementsAccess` |
| `CredentialsProofs!IndInvariant` | `Ind` |
| `GuardKnowsPassword` | `AcceptedKnowsPassword` |
| `CurrentTokenUnique` | `OneCurrentToken` |
| `SessionsEndForGood` | `EndedForGood` |
| `ResetsEndLinks` | `ResetEndsLinks` |
| `AccountsKeepVersion` | `ImplementsAccess` |
| `ResetMailProofs!MailIndInvariant` | `MailInd` |
| `TwiceAtMost` | `MailedAtMostTwice` |
| `QueueKeepsPayload` | `QueuedHasPayload` |
| `OutboxDelivers` | `ImplementsDelivery` |
| `SubmissionProofs!SubmissionInvariant` | `Ind` |
| `AnswersNeverDiffer` | `AnswersAgree` |
| `NothingUnseenLost` | `NoUnseenOverwrite` |
| `SubmissionImplementsKeyed` | `ImplementsKeyed` |
| `CatalogProofs!CatalogInvariant` | `Ind` |
| `GalleryStaysBounded` | `GalleryBounded` |
| `UsedProductsStay` | `UsedNeverDeleted` |
| `ArchivedStaysAsItIs` | `ArchivedReadOnly` |
| `OnlyStaleReadsHarm` | `CurrentCommitsKeepGallery` |
| `PricingProofs!PricingInvariant` | `Ind` |
| `RateReplaceable` | `CanBeReplaced` |
| `NothingOverwrittenUnseen` | `NoSilentOverwrite` |

**Generation.** None of the properties is inductive alone. That the provider is called once needs that nothing was
called while the row says `PREPARING` (`RowsAgree`) and that a run past `mark` has seen the row leave it
(`RunsAgree`); that a failure never becomes a success needs that a tab about to write belongs to an attempt that exists
(`RequestsAgree`). `Ind` joins these with the types. Its preservation has a lemma per action, since each action
disturbs a different conjunct, and the properties follow from it one by one.

**UserManagement.** The lock is what makes a decision stay true: `LockHeld` says that exactly the transaction holding
it is past it, so no other update of role, approval or access comes between a decision and its write. Only a change of
language, a registration or a bootstrap can, and none of them takes an administrator away. `RequestsAgree` records what
each request knows: every view of a row is of an earlier revision or of the row as it is. From that, `NoLostUpdate`
follows at the conditional update. For the refinement of `Governance` a decided request must know that the rule it was
checked against *still* holds when it writes, which the views do not say: its patch is nothing or the change that was
asked for, a decision still meets a `USER`, a disabled account is still no enabled `SUPER_ADMIN`, and a demotion still
leaves another one (`Replaceable`). The lock keeps each of these true until the write. `StepIsGoverned` then maps every
step to one step of `Governance` or none, and what remains is about single steps of the abstract specification:
`SuperAdminRemains`, `UsableAdminRemains` and `ImplementsAccess` look at nothing but the accounts. The hypothesis of
`UsableAdminRemains` is the one hazard the rules leave open: `setRole` promotes an account that nobody has approved.

**Credentials.** The argument is one of versions. `Knows` says that what a login or a session carries is either of an
earlier version of the account than the present one or has the present password; the action formula `Persists` says
what no step takes back (an account changes only together with its version, a session keeps its version and never comes
back to life). `KnowsStays` derives from it that what is known stays true, whichever step is taken, so each action's
lemma is left with the rows it creates. `OneCurrentToken` is part of the invariant: the token a refresh consumes was the
only current one of its session, so the replacement is again alone. `EndedForGood` follows from `Persists`: a session
refused for its version is refused by every later version too. All this is about the rows
(`RowsAgree`), and `RowsStep` proves that part first. `ResetEndsLinks` needs the transactions too: `LocksApart`, that no
two of them have written one link, and `ResetsAgree`, that a reset knows of every live link that has taken the place of
the one it has marked. A link takes that place only in the commit of an issue that has written the marked link, which
`LocksApart` excludes while the reset is open (`IssueCommitTakesNothing`); and when the reset looks for the other links,
those committed before are there to be found (`ConsumeMarkTakes`). `Ind` joins the three. The refinement of
`AccountAccess` needs no more than which statements write an account (`UserSteps`).

**ResetMail.** The invariant says who owns a mail: a call between its claim and its settlement, which is alone with it
unless the link has lapsed (`SenderAgrees`). A mail in `QUEUED` therefore has no owner, so the claim that wins is the
only one, and each hand-over is paid for by a claim (`handed <= attempts <= 2`). The clean-up of another call is
harmless because it touches only mails whose link has lapsed, and by `Persists` of `CredentialsProofs` a link never
becomes live again. The proof reuses `CredentialsProofs!Step` for the steps of links and sessions. The refinement of `MailDelivery`
needs two things more, since the updates of `markSent` and `markFailed` name only the id: a call about to record
success has handed the mail over (`handed > 0`), and what a call remembers of the attempts is still true when it writes
(`last <=> attempts = 2`). Both are stable because the call is alone with its mail. A mail that the clean-up has expired
may be queued again by a call that was sending it; `MailDelivery` calls that `Revive` and allows it only once the link
is over, which is what `OwnedIsSeen` shows.

**Submission.** `TabAgrees` says that what a tab knows of the present row is an earlier revision or the row as it is;
the update's condition leaves only the second, which is `NoUnseenOverwrite`. For the keys, `RequestAgrees` says that an
attempt waits in one request or is named by one receipt, and `KeyAgrees` that what was answered is what the receipt
names. The lemma `ReceiptSteps` shows that only `Accept` and `WriteReceipt` disturb any of this, which leaves the other
actions out of the argument. The refinement of `KeyedSubmission` maps `Accept` and `Settle` to the steps of the slot and
the three statements that answer to `Answer`, whose guard, that no other key was answered with this attempt, is
`KeyAgrees` for the key and for every other one.

**Outcomes.** `OutcomeProofs` rests on three lemmas that say, for a step of any kind, which row of an attempt
(`AttemptChange`), which row of a job (`JobChange`) and which run (`RunChange`) it touches, and what whoever takes it
knows at that moment. A success, for instance, is written only by `Commit`, whose run has stored the object, and no step
removes an object or a result; a claim takes a token greater than every token that runs hold, and a run keeps its token.
The refinement follows the same cases: an insert maps to `Accept`, `MarkGenerating` to `Dispatch`, `Commit` to
`Succeed`; a statement that fails an attempt maps to `GiveUp` when the attempt is active, to `Overwrite` when the update
by id alone hits a completed one, and to a stutter when it had failed already. The abstract lifecycle thus names what
`TerminalIsStable` denies. `NoResurrection` and the slot of an owner come from the same lemmas: the slot needs
`OneActivePerOwner` at the insert, and that whatever ends an attempt ends one that was active or over (`SlotStays`).

**Catalog.** No lock bounds the gallery: attachments count long before they insert. What does is that every position
written is below `Limit` and that positions are unique, so `Bounded` is the pigeonhole principle. A deletion is refused
by the foreign keys rather than by `everVisualized`, so `References` joins the invariant; the revision an editor read is
either old or belongs to a product that is not archived, which archiving cannot undo without raising it.

**Pricing.** Rates are counted by the revision, and the newest is in effect. Every rate follows an earlier one or none,
and no two follow the same; if only one follows none, the rates form a single chain (`previous[n] = n - 1`), so a rate
that is inserted has as predecessor the one in effect.

**Only model-checked.** Liveness, `ActiveSettles` and `MailSettles`: fairness is out of the prover's reach. Every other
property that a passing run checks is also a theorem. Six theorems state what no run lists: the two `TypeCorrect` and
`TwiceAtMost` are conjuncts or consequences of invariants that the runs check, and the refinements of `AccountAccess`
(twice) and of `AttemptSlot` were checked on the instances of `governance`, `credentials` and `safety` before they were
proved.

## Not modelled

- Reads without a state of their own: history, variations, dashboard, product queries.
- `convertPrice`: a pure function on decimals of any size, called by its unit test alone. What could be wrong is
  the rounding of the decimal library.
- `UploadService`: it registers an asset and then stores the bytes; the identifier is answered after both, so no other
  request can meet it half done. A failure leaves a row that nobody knows.
- The refresh lock of `auth-session.ts`: `refreshSession` has no caller in the web client. What the server does with
  refreshes that race is in `Credentials`.
- The rate limiter, one atomic upsert per window; all it can do to a request is refuse it (`RequestLost`).
- `expireRoomDrafts` and `cleanupDeletedSessions` of the worker, which nothing calls.
- The views of the web client, configuration, logging, the adapters for storage, SMTP and the provider (they appear as
  steps that may fail), the seed script beyond the product it creates, and the shell scripts under `.specify`, which
  produce documents.

## Plan

What is left, in this order.

1. Violation runs of their own for the first save of a draft (refused although its tab is not stale), for the gallery
   under stale reads and for the second first rate; the behaviour is in the modules, and described above.
2. `Catalog` composed with `Submission`, so that a draft selects products that are archived or deleted under it.
3. The refresh lock composed with rotation, should `refreshSession` get a caller.
