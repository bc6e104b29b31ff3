# VocalPay in TLA+

VocalPay is a voice-driven payment service: one FastAPI process, a SQLite database
behind SQLAlchemy's asyncio sessions, five models behind one lock, and a risk matrix
that decides how much proof a spoken payment needs. This directory holds TLA+ models
of it, TLC runs on small instances of them, and theorems about them that TLAPS checks
for every value of the constants.

- [The system](#the-system): components, state, operations, hard behaviours
- [The modules](#the-modules): which module models which code, and how
- [The runs](#the-runs): what is checked, on what bounds, and what it shows
- [Fairness](#fairness)
- [The theorems](#the-theorems): what is proved, from what, and how
- [Where the code and its documents differ](#where-the-code-and-its-documents-differ)
- [Not modelled](#not-modelled)
- [Plan](#plan)

Paths below are relative to `src/app/` unless they name a document of the
repository's root. To repeat a run: `tlc -config StepUp_safety.cfg MCStepUp`; a
proof: `tlapm PaymentsProofs.tla`.

## The system

| Component | Code | State | Operations | Talks to |
|---|---|---|---|---|
| Payment initiation | `api/v1/endpoints/transaction.py` 251-569, `core/audio_dsp.py` | a temporary file per upload | nine stages from the upload to a verdict | every model, the index, all payment tables, e-mail |
| Step-up | `transaction.py` 464-700, `database/crud.py` 401-484 | `pending_transactions`, `transactions` | freeze, deliver, verify, expire, count, settle | e-mail, Whisper, the liveness detector |
| Amount extraction | `transaction.py` 85-114, 201-234 | none | regular expression, then number words | initiation |
| Voiceprint index | `core/vector_index.py`, `api/v1/endpoints/user.py` 36-129 | an HNSW index, its user list, an `asyncio.Lock` | enroll, rebuild, search, linear scan | the `users` table, SpeechBrain |
| Inference gate | `core/inference_coordinator.py`, `services/providers/`, `services/whisper_service.py`, `services/ollama_service.py` | one `asyncio.Lock`; which weights are resident | load, compute on a thread, release | all handlers |
| Accounts | `api/v1/endpoints/auth.py`, `services/user_service.py` 931-1262, `core/security.py` | `users`, `audit_logs`, tokens in cookies | sign up, log in, guard, count failures, lock, activate, deactivate | enrollment, initiation |
| Profiles | `services/user_service.py` 80-929, `database/crud.py` 111-304 | `users`, `audit_logs`; the row object of each session | register, update profile, language and templates | authentication, accounts |
| Authentication, voice and face services | `services/authentication_service.py`, `voice_service.py`, `face_service.py` | none between calls; the row object of the call's session | load, check the enrollment, compare with each template, combine | profiles, the gate; only the tests call them |
| History | `transaction.py` 703-785, `crud.py` 671-693 | none; the client keeps the offset | one page of a user's ledger rows | the ledger |
| Start-up | `database/database.py` 64-164, `main.py` 29-76 | the file, an open transaction, the running process | create tables, add columns, rebuild the fraud table, serve, stop | every table, the voiceprint index |
| Security audit | `middleware/security_audit.py` | `audit_logs` | one row after a 401 or a 403, in its own session | initiation |
| Persistence | `database/crud.py`, `database/models.py` | the tables; one session per request | queries and flushes | everything |
| E-mail | `services/email_service.py` | none | send a code, 10 s timeout | initiation |
| Liveness | `services/liveness/` | none | score the signal of a challenge's audio | step-up |
| Memory and logging middleware, configuration, schemas | `core/`, `database/schemas.py` | settings | garbage collection, conversions | |
| Front end, demo, maintenance scripts | `templates/`, `demo_main.py`, the root's scripts | | | the HTTP API |

What makes it hard:

- **Handlers interleave at awaits.** A session keeps the object its first SELECT
  loaded; it writes from that copy after inference calls that take seconds. The
  retry counter, the failed-attempt counter and the index rebuild all read before
  an await and write after it.
- **A flow spans several commits.** A frozen payment is committed before its mail is
  sent; a failed delivery deletes it in a second commit; a crash may fall between.
- **The schema upgrade spans several implicit commits.** The driver opens a transaction
  before DML and not before DDL, so the first half of the fraud table's rebuild is
  durable statement by statement and the second half all at once. The process may be
  killed at any of them and finds its own leftovers at the next start.
- **A page is cut by offset** out of a list that grows at the top meanwhile, in the
  order of a timestamp taken before the row is committed.
- **Errors are swallowed at some places and end the request at others**: the fraud
  event, the audit row and the index refresh may each be lost without the client
  knowing.
- **One process-wide gate and one index lock** stand between all handlers; whoever
  leaves without releasing stops the service.
- **Resolution is by value**: the frozen row is looked up again by its secret, the
  index is a copy of a column.

What makes each component right: a payment settles at most once, under the terms
it was frozen with, by a proof of its own secret; the verdict is the one the matrix
calls for; the amount read is the amount meant; a search resolves a user by the
template the table holds; one model computes at a time on loaded weights; accounts
stay unique, locked once they are locked, and audited; a column changes only as some
session was asked to change it; a decision rests on one version of an account, and an
error has the cause it names; the service never opens on an old schema and no upgrade
loses an event; paging through the history skips nothing.

`PROJECT.json` lists the components with their status and the hazards, each at its line with the
properties that would catch it.

## The modules

An action is the code between two awaits at which another handler's commit can
become visible. SQLite has one writer, so the flush and commit that end a handler
are one step; a SELECT and the write that later uses what it returned are two.
Every `except` that rolls back is an action. Scores, embeddings, texts and models'
outputs are drawn from small sets.

**`StepUp`** (step-up core). `pending` and `ledger` are the two tables, `pc`,
`answer` and `seen` the verify handlers and the row object in each one's session,
`now` the clock. `FreezeChallenge`, `FreezeOtp`, `EmailDelivered`, `EmailRefused`
and `AutoApprove` are the tail of `/initiate`; `Lookup`, `CheckActive`,
`CheckInactive`, `RefuseIncomplete`, `Reject`, `RejectLast` and `Accept` are
`/verify`; `VerifyError` and `Crash` are the rollback and the stop of the worker.
`CheckActive` keeps the way `get_active_transaction` finds the row again: by
secret, so with two rows that share one it returns the first. The reply, the time
of the expiry check and the row as issued are history.

**`Settlement`** is what the payment tables promise a reader: frozen at most once,
entered once, under the frozen terms or outright. `StepUp` implements it, with the
issued row as its terms and the ledger as its book.

**`Initiate`** (the pipeline). Each request carries a `Signal`, what the gates will
find; `stage` walks through `Upload`, `Screen`, `Transcribe`, `Identify`,
`Challenge` or `Assess`, and `Approve`, `Freeze`, `Block`; `Mailed`, `MailRefused`,
`Withdraw`, `Undeliver` are the delivery; `Error` is the outer `except` and
`finally`; `Audit` the middleware behind the reply. The order of the agent's tier
and the foreign-country override is `Tier`. A commit that fails, a fraud event that
is lost and a crash are alternatives of their actions.

**`RiskMatrix`** is the matrix of the documentation: at most one verdict for each
request, the one its signals call for; only a code that cannot be delivered is
taken back. `Initiate` implements it.

**`Payments`** (over `StepUp`, with `Initiate` in front of it). The tables are
`StepUp`'s; what the pipeline takes for its own ledger and frozen rows is read off
them (`Outright`, `Frozen`), so a branch of the pipeline that writes is one step with
the write `StepUp` makes of it: `ApproveOutright`, `FreezeForChallenge`,
`FreezeForOtp`, `Conclude`. `Quiet` is every other stage, `Verify`, `Pass` and `Stop`
the rest of `StepUp`. `payment` links an upload to the row it wrote, and `Worth` the
amount heard to the amount written. Findings, tier and proof meet in one state here.

**`Amount`**. `Transcript` puts an amount into a form; `Matched` is what the regular
expression makes of its numeral; `Add`, `Hundred`, `Multiply`, `Skip` and `Finish`
scan its number words, one token at a time. The specification draws an amount and a
form and reads it back.

**`Voiceprint`** (index and enrollment). `Commit`, `Refresh`, `RefreshFails`,
`Join` (which may find itself `Overtaken`), `Load`, `Replace`, `RebuildFails`, `Answer` are an enrollment; `queue` is
the index's lock; `View` is what a SELECT returns in a session whose identity map
already has its own user (`mine`). `AskIndex`, `StartScan`, `FinishScan`,
`ScanFails` are the search of `/initiate`; `Restart` rebuilds from the table. HNSW
search is taken as exact.

**`InferenceGate`**. A request runs a route, the model calls its handler makes;
`queue` is the lock, `resident` where each model's weights are. A call may fail at
its load or in its computation, Whisper may fall back to the CPU, Whisper and Ollama
release their weights and InsightFace and SpeechBrain keep theirs.

**`Accounts`**. `users`, `audit` and `paid` are the tables, `cookies` the unexpired
tokens, `mine` the row a request loaded. `CheckEmail`, `CheckPhone`, `Insert`,
`Refresh` and `SignupFails` are a signup; `Login`, `Authorize` (the cookie guard),
`Identify` (the payment) and `Find` load a row; `Fail`, `Reset`, `Activate`,
`Deactivate`, `Enroll`, `EndLogin` and `Settle` end a request. `Flushed` writes what a flush
writes, the columns that differ from the copy *as it was loaded*. The user service
flushes and its caller commits; the two are one step.

**`Profiles`** (the rest of the user service). A session is one operation: `Load`
keeps the row in `copy` and the request in `call`; `Reject`, `Unchanged`, `Fail` and
`UpdateProfile`, `UpdateLanguage`, `UpdateSpeaker`, `UpdateFace` end it. `Dirty` is the
set of columns in which the request differs from the copy, and `Flushed` writes those
into the row as it is by then, with one audit event. `Register` and `InsertUser` are
the registration, which never succeeds. `SignUp`, `Enroll` and `SetActive` are the
commits that the endpoints and `Accounts` make meanwhile. The lockout, which
`Accounts` models in full, is here one write of `is_active`: the two models share the
table's rules, not its values, which keeps each small.

**`Authentication`** (over `Profiles`). `req` is what a request brings: the kind, the
account, an input for each factor and the provider it passes. An input is a print or
one of three things that are none, because the code answers each in its own way: "bad"
(absent, empty or a primitive), refused by the service itself; "unreadable" (numbers
that are no voice, a picture without a face), refused by the voice provider's
`VoiceValidationError` and taken for an outage when it is the face provider's
`ValueError`; "unconvertible" (bytes, a dict, an object), of which numpy makes no
numbers, so that the voice provider fails with a `VoiceProviderError` and the caller is
told of an outage. A provider of the caller's own may be "candid" and raise the
service's own `AuthenticationValidationError`, which passes through (`Passed`). `Call`, `LoadUser`, `CheckEnrollment`, `Voice`, `Face` are the public
operations step by step, `Challenge` the challenge's judgement, `VoicePair` and
`FacePair` the engines of the voice and face services, `Break` an error of the
database, the gate or a model at any of them. `held` is the row in the session's
identity map, which answers the second load as well. `seen`, the versions the account
went through while the request ran, is history.

**`Startup`** (the process around its file). `db` is the file, `tx` what the open
transaction would make of it, `phase` the statement the process is at. `Write` puts a
statement's effect where the driver puts it: into the file if no transaction is open,
into the transaction otherwise. `CreateTable` and `CreateIndexes` are `create_all`,
`AddColumn` the two `ALTER TABLE`s, `Inspect` to `Commit` the rebuild of
`fraud_events`; `Open` and `Stop` the lifespan, `Record` a request that writes an
event, `Die` a statement that raises or a process that is killed.

**`Upgrade`** is what the file promises a reader through any number of starts: events
are only added, a constraint is only relaxed, columns are only added. `Startup`
implements it.

**`History`** (over `Startup`). `Flush` takes a ledger row's `created_at`, `CommitRow`
its place in the table, in any order between sessions. `GetPage` is the endpoint:
`PageOf` is `ORDER BY created_at DESC LIMIT OFFSET` over the rows of the user, by
rank. The query names no second key (`crud.py:688`): that rows with one timestamp come
in ascending order of their primary key, in every query alike, is an assumption on
SQLite's sort, and `WalksMissNothing` rests on it. A `walk` is a client that asks for page after page, with a limit of its choice
each time; it lives on while the service restarts underneath it.

`MC…` modules give TLC its constants; `…Proofs` modules hold the theorems. Each
definition named `…Never`, `…Late`, `…Ignored` and so on, introduced as a faulty
variant, is a plausible bug of the definition after it: replacing the definition by
it breaks the property `PROJECT.json` pairs it with, which shows that the property
watches the code.

## The runs

| Run | Shows | Bounds |
|---|---|---|
| `stepup_safety` | the ledger is faithful (`SettledOnce`, `SettledAsFrozen`, `CheckedInTime`, `UndeliveredNeverSettles`, `NoResurrection`, `NoSilentLoss`, `RefusedOnlyIfDeadOrShared`) and the handlers implement `Settlement` | 2 payments, 2 overlapping verifications, limit 2, 1 code and 1 phrase (so secrets collide), expiry after 1 of 1 ticks |
| `stepup_attempts` | *violated*: overlapping wrong answers exceed the retry limit | the same |
| `payments` | what is paid was approved or proved as the matrix calls for, at the amount heard; every upload and verification in flight is answered by the handlers' own branches | 2 uploads of 3 kinds (one per verdict), 2 verifications, limit 1; or 1 upload and a clock that runs out |
| `initiate` | replay stops everything, replies agree with tables, audio is removed, the matrix is implemented, every upload is answered | 2 requests, 56 combinations of findings |
| `amount` | figures, three-digit groups and spelled-out amounts are read exactly; Indian groups and figure-plus-scale are understated, never overstated | every amount to 120, and the edges of each scale to 9,999,999, in six forms |
| `voiceprint` | the index lags only where a rebuild is owed or lost, searches resolve enrolled users, stale users are caught up or reported missed | 2 users, 2 templates, 2 overlapping enrollments, 2 searches |
| `gate` | one computes at a time on resident weights, transient weights never leak, every request ends | 3 requests, scans of up to 1 extra user |
| `accounts` | accounts are unique, signup replies true, the lock holds and every flip is logged | 3 requests, 3 ids, 2 e-mails and phones, limit 2, any lockout state at the start |
| `accounts_deactivated` | *violated*: an inactive account pays | 2 requests |
| `history` | the service only opens on the current schema, the upgrade loses no event, a walk skips no row | any earlier file, 2 events, 2 failed or killed runs; 3 rows of 2 users, 1 client, pages of 1 or 2, 2 instants |
| `authentication` | decisions rest on one version of the account, errors have their cause, changes are asked for and logged | 2 accounts, 2 prints, 1 commit from outside; 1 request beside 1 session, and 2 sessions beside each other |
| `authentication_enrollment` | *violated*: what passes the enrollment check has a template to compare with | the same |

Why the bounds are enough. The races of this code are between two sessions on one row,
so two overlapping handlers show them; a third request in `accounts` and `gate` lets a
pair race while another changes the row or waits behind them. Two payments are the
fewest that can share a secret. A limit of two distinguishes the first, the last and
an excess attempt. A window of one tick lets a row be live, at its limit and expired.
The bounds `MaxTime`, `MaxTxns`, `MaxScan`, `MaxFaults`, `MaxWrites` and `MaxOffset`
stop the state space from growing and guard only the environment's actions (a tick, a
new payment, a route, a failure, a commit from outside, a client's next page). In
`initiate` the findings fail one at a time beside every combination of the agent's: a
request whose voice is unknown never reaches the agent. In
`payments`, uploads touch nothing shared before they write, so three kinds of findings,
one for each way to pay, are enough beside each other; `MCInit` starts either with the
clock at its end or with the second upload refused, both states that are reached. In `history`, two faults let a
start meet the leftovers of a start that met leftovers; two instants put rows above
and below each other, and three rows fill a page, pass it and shift it. In
`authentication` the product of a request and two sessions is too large to finish, and
not needed: a request never writes, so what it sees of two sessions is what it sees of
one session and an outside commit; `MCInit` therefore starts with either the request
or the second session already answered. The constraint `MCUnanswered` follows nothing
beyond the request's answer, because the profiles, which do not look at requests, take
the same steps before it. `CHECK_DEADLOCK FALSE` is set where the
requests run out: a finite set of requests is served once. Symmetry is used only in
runs without a liveness property, where the specification, its start and the
properties treat the permuted values alike.

The proofs below take the bounds away for all the safety properties they cover.

## Fairness

Weak fairness is on what a handler does next (`Proceed`) and on nothing that the
environment chooses. In `Payments` it is on each upload once begun and on each
verification. The event loop resumes a coroutine whose await is over, and
the awaits end: a query on a local SQLite file, an inference on a worker thread, an
SMTP dialogue with a timeout of ten seconds (`email_service.py:30`). No request has to arrive, no error, crash
or restart has to happen, and the clock need not advance: a liveness property is never
saved by one. Two reservations: the Ollama client sets no timeout, so
`Ends` assumes a daemon that answers or closes the connection; a client that
disconnects, and the cancellation it may cause, are not modelled.

## The theorems

| Module | Theorems |
|---|---|
| `PaymentsProofs` | of `StepUp`: `Invariance`, `TypeCorrect`, `SettlesOnce`, `SettlesWhole`, `SettlesAsFrozen`, `SettlesInTime`, `UndeliveredStays`, `NothingLost`, `RefusalsFounded`, `NoRowReturns`, `SerialLimit`, `Refinement`; of `Payments`: `HandledTogether`, `NothingPaidUnassessed`, `LargeTakesFace`, `BothHalves` |
| `InitiateProofs` | `TypeCorrect`, `ApprovalsTrusted`, `ReplaysStopped`, `RepliesTruthful`, `AudioUnlinked`, `Refinement` |
| `VoiceprintProofs` | `TypeCorrect`, `IndexFollowsTable`, `SearchesResolveEnrolled` |
| `AmountProofs` | `AmountTypeCorrect`, `ScanInvariance`, `ReadsAsMeant` |
| `InferenceGateProofs` | `TypeCorrect`, `GateExcludes`, `ModelStaysLoaded`, `TransientReleased`, `GpuBudget`, `GateNeverAbandoned`, `WaitIsBounded`, `RequestsMoveOn` |
| `AccountsProofs` | `TypeCorrect`, `Unique`, `SignupsTruthful`, `LockoutHolds`, `FlipsLogged` |
| `HistoryProofs` | of `Startup`: `TypeCorrect`, `ServesOnCurrent`, `Refinement`; of `History`: `HistoryTypeCorrect`, `HistoryServesCurrent`, `HistoryUpgrades`, `WalksMissNothing` |
| `AuthenticationProofs` | `AuthTypeCorrect`, `JudgedOnce`, `ErrorsTold`, `ChangesLogged` |

Each rests on the named assumption of its component (`ConstantsAssumption`,
`PaymentsAssumption`, `ProfilesAssumption`, `AuthenticationAssumption`, `HistoryAssumption`): sets of values with an absent value
outside them and positive limits; `Accounts` also assumes that the table the
application starts on has unique columns and locked accounts at the limit. Nothing
bounds the number of requests, users or payments.

- **Step-up.** `SettledOnce` alone is not inductive: a handler may settle from a
  copy loaded before another one settled. The invariant adds that a row nobody
  issued does not exist, that a row in the table and a copy in flight have the
  terms as issued, that a handler past its expiry check was in time, and that a
  ledger row answers to one request and one origin. The uniqueness of `transaction_id`
  in the ledger then decides between overlapping settlements. What leaves the table
  (`NothingLost`) and what a refusal rests on (`RefusalsFounded`) follow step by step
  from the copy having the row's terms. `SerialLimit`
  is the other half of the violated run: with a single verification handler at a time, the limit
  holds and is final; the copy it holds is the row.
- **Initiation.** The invariant is per request: what stage it has reached tells
  which gates it has passed, which models have run and which rows it may have
  written, and so that a reply leaves no audio behind. The refinement maps each action to an arrival, a verdict, a refusal or a
  stutter of `RiskMatrix`.
- **Payments.** Every step is one of `StepUp` or a stutter of it, and one of `Initiate`
  or a stutter of it, because no verification changes what the pipeline reads off the
  tables (`Unseen`, `PipeStep`). So both invariants hold of the composition, and both
  refinements (`BothHalves`): `InitiateProofs` is instantiated with the tables'
  functions for its variables and its theorems cited. What neither half can say is
  `Linked`: a payment is one upload's (`Paired`), the stage and reply of the upload are
  the flow `StepUp` takes them to be (`InStep`), and the row carries the upload's amount
  at the level its findings call for (`CalledFor`, `Bought`). It is inductive beside
  the two invariants: a row is written from a stage whose findings are known, and
  nothing changes findings or row after it. A ledger row then has its upload through
  `Linked`, its trust through the pipeline and its proof through `SettledAsFrozen`.
- **Amount.** The specification draws an amount and a form; the invariant says where in
  the spelled amount the scan is (before it, at the lakhs, thousands, hundreds, the
  "and", the rest, at the words that close it) and that the two running figures hold
  exactly the parts behind that place, the ones ahead being still in the tokens. Each
  token moves the scan by one place, so no induction over the tokens is needed; what
  has to be shown is that Euclid's remainders put the parts together again. Figures
  and groups are arithmetic on at most three groups.
- **Voiceprint.** The lock is first in, first out and an enrollment joins the queue
  after its commit and its refresh, so among the enrollments of one user the last in
  the queue has the newest template, and a rebuild that runs with an older view of one
  user is never the last. The one exception is an enrollment that another one of the
  same user overtakes between the SELECT of its refresh and the lock: `Join` reports it
  in `missed`, and without that `StaleOnlyWhileOwed` is violated.
- **Gate.** Only the head of the queue computes; a transient model's weights
  are resident only while the head computes on it. The queue holds exactly the requests
  inside a call, each once, whatever ends the call (`QueueOfCalls`); no step moves a
  request back in it (`NeverOvertaken`); and the steps a request may still take only
  become fewer (`MovesOn`). That is the safety half of `Ends`: what is left to fairness
  is that the head's call returns.
- **Accounts.** A write from a stale copy could unlock only by writing `is_active`,
  and it writes it only where the copy is inactive. The invariant says what that
  copy hides: an account that is active behind an inactive copy was activated, and
  the log has it. An event in the log is its author's last step, which makes each
  flip's event new.
- **Start-up.** The invariant says for each statement what the file and the open
  transaction hold: outside a transaction the events are in `fraud_events`; from the
  copy on they are also in the transaction, first beside the table and then in its
  place, while the file still has the old table; the columns come in their order, and
  a table without its unique index is one whose creation was cut. A kill drops the
  transaction and so leaves a state some start is prepared for. The refinement maps
  the commit to the moment the constraint is relaxed, and all else but added columns
  and events to a stutter.
- **History.** `Startup`'s theorems carry over because every step of `History` is a
  step of `Startup` or a stutter of it. For a walk: the rows of an account that are in
  the ledger keep their timestamps and keys, and a row that joins them can only push
  others down. So a row that ranks before the next offset ranked before it when that
  page was cut, or was on an earlier page. The counting is `FiniteSetTheorems`'
  cardinality of subsets.
- **Profiles and authentication.** A copy's account exists as long as its session;
  only a session that has answered is in the log, which makes each change's event new;
  `Flushed` takes what is not dirty from the row and not from the copy. For a request:
  `Watched` says that the account as it is now is among the versions seen and that the
  row held is one of them; `Listened` carries the voice's answer to the face's;
  `Judged` then is the property with `held` as its witness.

Only model-checked: all liveness (`EveryoneAnswered`, `AnswersAll`, `CatchesUp`,
`Ends`), which is beyond the prover. `SettledNotFrozen` (`SettlesWhole`),
`ApprovedOnTrust` (`ApprovalsTrusted`), the limit of `SerialLimit`, `GpuBudget`,
`QueueOfCalls`, `NeverOvertaken`, `MovesOn`, `Linked` and `FaceForLarge` are proved and
not run; `ApprovedOnTrust` and `FaceForLarge` are parts of `PaidAsAssessed`, which is.

## Where the code and its documents differ

Each with a run that shows it:

1. *Retry limit.* `verify` increments the counter of its copy (`transaction.py:651`):
   overlapping wrong answers count as one (`stepup_attempts`).
2. *Deactivation.* Initiation never reads `is_active` (`accounts_deactivated`).
3. *Enrollment.* `has_complete_biometrics` compares with `None` (`user_service.py:681`) and
   signup stores empty lists (`auth.py:124`), so every account counts as enrolled
   (`authentication_enrollment`).

Met while modelling and kept in the models as the code has them:

- Expiry is compared once, before inference (`crud.py:467`): an answer in time may
  be committed after the window that `SYSTEM_ARCHITECTURE.md:97` calls hard.
  `CheckedInTime` states what holds and does not forbid the late commit. In the same way a verification that loaded
  an active row can settle after another has exhausted the attempts
  (`transaction.py:683`; `SYSTEM_ARCHITECTURE.md:244` has it terminally failed).
- "1,01,000" is read as 1 and "5 thousand" as 5 (`transaction.py:204`), below the
  limit of 500; `AmountAsMeant` says which forms are read exactly and that the others
  are understated.
- A failed rebuild leaves the old index in use (`core/vector_index.py:213`); there is no
  degradation to a scan. `StaleOnlyWhileOwed` says for whom it is stale.
- InsightFace is never released after a call (`insightface_provider.py:74`): `GpuBudget`
  excepts it from the single model on the GPU.
- The row is found again by its secret alone (`crud.py:456`): with two live rows that
  share one, an honest answer can be refused. `RefusedOnlyIfDeadOrShared` has the exception.
- Nothing calls `delete_expired_pending_transactions` (`crud.py:604`): expired rows stay
  until they are submitted again (`SYSTEM_ARCHITECTURE.md:86`).
- A fraud event whose commit fails is lost (`transaction.py:196`), and so is an audit row.
- The foreign-country override replaces the agent's tier, CRITICAL included
  (`transaction.py:405`; `README.md:404` asks for MEDIUM, `README.md:128` for a hard block).
  `RiskMatrix` has it so as well; `ImplementsMatrix` catches an override that is lost or
  approves, not that it softens a CRITICAL.
- The path of the temporary file is assigned only after the upload has been written into
  it (`transaction.py:266-268`), and the `finally` unlinks only a path that was assigned:
  a failed write leaves the file (`SYSTEM_ARCHITECTURE.md:82` allows no raw audio at
  rest). `AudioRemoved` excepts it.
- Between the SELECT of the refresh (`user.py:77`) and the index's lock
  (`core/vector_index.py:96`) the driver still fetches the row and closes the cursor. A
  handler held up there for as long as a second enrollment of the same user needs to
  commit and to join the queue rebuilds from the template it replaced, and the index
  stays stale until the next rebuild. `Overtaken` is that case.
- The new index is installed before its vectors are added (`core/vector_index.py:162-167`):
  when adding them fails it stays, empty, and resolves nobody until the next rebuild.
- A refresh that fails after the commit is reported as a failed commit by enrollment
  (`user.py:77`) and as a failed registration by signup (`auth.py:133`).
- `create_user` sets no `hashed_password` (`crud.py:171`), so registration through the
  user service ends as "user already exists" (`Profiles.InsertUser`); activation leaves the counter at its limit
  (`user_service.py:1200`); `demo_main.py` imports names its database module lacks.
- The face provider reports a template or a picture it cannot compare with a
  `ValueError`, which its caller reports as an outage; the voice provider reports one as
  the caller's.
- What numpy cannot convert is an outage too: `np.asarray` raises inside the `try` of
  `speechbrain_provider.py:91` and `179`, the provider turns it into a
  `VoiceProviderError` (`123-129`, `191-192`) and `authentication_service.py:389-398`
  into a dependency failure, although the payload of bytes it admits
  (`authentication_service.py:328`) is the caller's. `test_speechbrain.py:112-119` and
  `157-172` expect a `VoiceValidationError` for `object()` and for a string.
  `ErrorsJustified` has the code's answer: an unconvertible input excuses an
  "unavailable", and for every other input of a voice an outage must be a failure.
- The repository's InsightFace provider
  lacks the `live_payload` parameter it is called with (`authentication_service.py:480`),
  so face authentication with it always ends as an outage.
- A challenge is judged by the provider's word alone and involves no account.
- A table whose creation was cut before its indexes never gets them
  (`database.py:74`: `create_all` skips tables that exist): `ServesCurrent` excepts it.
- A walk over the history can show a row twice, when payments settle between its pages.
- `PRAGMA foreign_keys=ON` runs once, on one connection of the pool (`database.py:78`).
- The fraud rate divides the results of two SELECTs (`crud.py:947`), which need not
  agree; nothing calls it.

## Not modelled

- *Numerical content*: DSP, embeddings, cosine scores, HNSW recall, liveness scoring,
  latency and risk figures of a result. They enter as findings drawn from a small set.
- *Status reads, statistics, audit queries, deletion of users* in `crud.py` and the user
  service: they change nothing, or nothing calls them.
- *Provider registration, routers, CORS, health endpoints*: configuration.
- *Front end, demo, maintenance and experiment scripts, schemas, constants, logging,
  memory middleware*: declarations, pages, text and scripts run by hand; no state of the
  service.
- *Cancellation* of a handler, and databases other than SQLite.

## Plan

Done, in order of importance: `StepUp` with `Settlement`, `Initiate` with
`RiskMatrix`, `Payments` over both, `Voiceprint`, `InferenceGate`, `Amount`,
`Accounts`, `Startup` with `Upgrade`, `History` over it, `Profiles`, `Authentication`
over it; the inductive invariants of all of them.

To come:

1. The safety halves of the other liveness properties: that an enrollment waiting for
   the index is never overtaken and moves on, that a scan's tokens run out.
2. One table: `Accounts` and `Profiles` as the two halves of the same `users`, to state
   that a locked account is not judged.
