# CreativeDeploy in TLA+

CreativeDeploy is a FastAPI service (`src/apps/api`) with a React client
(`src/apps/web`) over PostgreSQL and a private object store.  It carries two
products: PaintPilot, which takes a miniature from photographs over regions to a
reviewed paint plan, and Arcana, which interprets tarot readings.  Both call a
paid provider (Zhipu) or a built-in fixture under budgets, encrypted
credentials and idempotency keys.

Nothing in the service runs alone.  Every request has a database session and
usually several transactions, with a network call or a file operation between
them; every request may be repeated by its client, race with another one, die
with its worker, or be overtaken by an operator's recovery tool.  The modules
here model those interleavings, TLC checks them on small instances, and TLAPS
proves the main results for every value of the constants.

Source paths below are relative to `src/apps/api/src/creativedeploy_api/`.

Contents: [inventory](#1-inventory), [modules](#2-modules),
[runs](#3-runs-and-what-they-show), [bounds](#4-bounds),
[fairness](#5-fairness), [proofs](#6-proofs), [findings](#7-findings),
[what is not modelled](#8-what-is-not-modelled), [plan](#9-plan).

## 1 Inventory

### The core: what decides money, files and approvals

**Governed live Zhipu invocation** (`services/zhipu_invocations.py`,
`ai/zhipu_provider.py`, `tools/reconcile_zhipu_usage.py`).
State: invocation, attempt, reservation, budget counters, business claim, usage
and cost ledgers, credential status.  Operations: admit, claim, commit dispatch,
call, terminalize, release, recover expired admissions, reconcile.  The paint plan
and Arcana services call `execute` and complete the claim in a transaction
of their own.  Hard: six transactions around an unprotected network call; a
worker may die or be merely slow anywhere; an unknown outcome may have been
charged.  Correct if a business resource is paid for at most once, the
counters equal the rows, limits hold, and an admitted call ends.

**Fixture AI invocation** (`services/ai_foundation.py`, `ai/fixture_provider.py`,
`db/session.py`).  The older invocation path, with up to three attempts and with
cancellation.  Hard: the SQLAlchemy session keeps what it loaded
(`expire_on_commit=False`, no `populate_existing`), so a locking SELECT does
not refresh an object that is still referenced.  Correct if retries follow
only definite failures, terminal states are final, a cancel is never
overtaken, and the counters equal the rows.

**Image assets and private storage** (`services/image_assets.py`,
`storage/images.py`, `storage/s3.py`).  State: asset rows with versions per role,
the project's status and current image, the objects in the store, idempotency
records.  Hard: two stores that fail independently, with a compensation that
deletes objects.  Correct if histories are linear, an answered upload has
its row and its object, no object a row refers to is deleted, and refused
requests leave nothing.

**Readiness, regions and governed sources** (`services/governed_sources.py`,
`services/region_sets.py`) and **paint plans** (`services/paint_plans.py`, with
the triggers of migration `3b01a1c2d3e4`).  State: the fingerprint of the image set, readiness
reviews, region set versions and their effective lifecycle, plan versions.
Hard: staleness is derived from all of them and from the object store, and the
sources of a plan are read long before the plan is stored.  Correct if plans form one
line of revisions, each revision is paid for once, and nothing is decided about a
plan whose sources have moved.

**Credentials, grants, policies and budgets** (`services/ai_foundation.py`,
`ai/encryption.py`).  State: credentials with encrypted secrets, grants to
projects, preferences and project policies that select them, budget policies with
the counters of their windows.  Each command is replayed under an advisory lock.
Hard: a secret is erased, a grant taken back or a window replaced while a
call is admitted; previews and page statuses formulate the admission a second
time.  Correct if no erased secret is used, grants die with their credential, a call is
settled where it was reserved, and what a preview offers is refused only for what it
does not look at.

**Arcana readings** (`services/arcana.py`, `arcana/`, `db/models/arcana.py`).
State: a reading with its hand, one interpretation and a journal.  Operations:
start, draw, interpret with the fixture or live, save.  Hard: a live request keeps
its object of the reading over the paid call, and the locking SELECT after it does
not refresh that object.  Correct if the status never promises rows that
are not there and a paid result is stored.

**Identity, sessions, memberships** (`services/identity.py`, `auth/`,
`api/dependencies.py`) and **paint projects** (`services/paint_projects.py`).
State: login flows, sessions, memberships, projects and the records of
their creation.  Hard: a one-time flow spans the exchange of its code; every
request writes `last_seen_at` of a session another one may revoke; two owners may
make each other reviewers.  Correct if a state opens one session, what was revoked
stays so, removed reviewers decide nothing, and no requests wait in a ring.

**Backup, restore, storage migration** (`tools/staging_backup_restore.py`,
`tools/migrate_image_storage.py`).  State: a backup directory, the target's
tables and bucket, rows that are being moved.  Hard: two stores copied one after
the other, tools that stop anywhere, triggers that accept a plan's history only
in the order of its making.  Correct if a published backup is one state with all
its bytes, and stopped and competing restores converge.

**Web client** (`src/apps/web`).  It keeps what the server answered; the plan
and region pages check an answer by rules of their own and offer actions from it.
Correct if no answer is refused and every offered action is accepted.

### The rest

| component | state and operations | what is hard |
|---|---|---|
| Region geometry, image validation (`services/region_geometry.py`, `services/image_validation.py`) | none; pure functions | touching and degenerate polygons |
| Provider transport and retrieval (`ai/provider_transport.py`, `ai/retrieval.py`) | none; one HTTP call, one ranking | classifying what may have been charged |
| HTTP routes, schemas, middleware (`api/`, `schemas/`) | none between requests | which routes authenticate |
| Database models and migrations (`db/`, `migrations/`) | constraints and triggers | which constraint decides a race |
| Runtime, configuration, health (`core/`, `services/*_health.py`) | settings | |
| Demo and deployment, documentation | | |

How they meet: plans and readings call the Zhipu service; its claim lives in
the table of idempotency records that uploads and plan commands also use; revocation
and recovery touch the rows of running calls; uploads and readiness reviews make
regions and plans stale, which is noticed only when a transaction looks.
`PROJECT.json` lists all 18 components with their sources, and the hazards
with the line where each one bites.

## 2 Modules

`A <- B` says that B extends A; the module in the last column is the one
TLC is given.

```
Amounts <- ZhipuInvocation                                       MCZhipuInvocation
             refines SpendGate
Amounts <- FixtureInvocation <- SharedCounters <- LedgerSchema   MCFixtureInvocation
ImageUpload <- ImageStorage                                      MCImageStorage, MCImageUpload
             refines ImageHistory
PaintGovernance <- PlanHistory                                   MCPaintGovernance
PaintGovernance <- RegionWorkbench <- PlanPreview <- Workbench   MCPaintGovernance
Geometry                                                         MCPaintGovernance
ProviderCall, Spread <- ArcanaReading                            MCArcanaReading
Sessions, (Projects <- Credentials <- Selection) <- Accounts     MCAccounts
BudgetWindows <- Preflight                                       MCBudgetWindows
```

The modules whose names end in Proofs extend the last module of their line
(section 6).

An operator whose comment says *faulty variant* stands just before the
definition it varies and is used nowhere: it is the form that definition would
take with a plausible bug, and `PROJECT.json` pairs it with the property that
catches the bug.

**Amounts** -- the sums of money that the counters and `sum()` queries compute.
A sum is the cardinality of a set of coins, one per row and minor unit; this
needs no recursion, so its laws can be proved.

**ZhipuInvocation** -- `GovernedZhipuInvocationService.execute`.  `pc` is where
the worker of each call stands and `answer` what it holds in memory; the other
variables are rows.  Each transaction is one action: `Admit` (`_admit`),
`TakeClaim`/`ClaimConflict` (`_claim_business_resource`),
`CommitDispatch`/`DispatchRejected`, `ReleaseAdmitted`/`ReleaseRefused`
(`_release_admitted_attempt`), `ProviderAnswers` (the network, no lock held),
`Terminalize`, `ReleaseTerminalClaim`, and the caller's `Persist`.  Beside
them run `RecoverExpired`, `Reconcile`, `RevokeCredential` and `Crash`.  Legacy
attempts start in the state that an older release left them in, which is the
only state the reconciliation tool can settle.

**SpendGate** -- what the claim promises, without transactions, workers or money:
one owner per resource, only the owner calls, and a call that succeeded or
whose outcome is unknown keeps its resource forever.

**FixtureInvocation** -- create, replay, attempts, cancel and recovery of
`ai_foundation.py`.  `inv`, `att`, `reservation` and `counter` are rows, `mem` and
`memCounter` the objects that the worker's session still holds; `Flush` writes
only the columns that changed in memory.  A cancel is two actions, because its
snapshot (`snap`) is read before it waits for the locks.  Cancel and recovery subtract
without looking (`services/ai_foundation.py:3386`, `:3646`); where the CHECK on the counters
then refuses their transaction, the steps are `CancelFails` and `RecoverFails`.

**SharedCounters** -- FixtureInvocation with a history variable, `overlapped`: have two
invocations that charge the same counter been under way at once?  What the code keeps of its
counters it keeps up to then (finding 2).

**ImageUpload** -- `upload_image` and its compensation.  `tx` says whether a
request's transaction is open (it holds its key's row) or locked (the project's
too).  A COMMIT whose answer is lost leaves `tx` locked while the worker goes on;
the server commits or aborts later.  `objects` is the store.

**LedgerSchema** -- the constraints and triggers of the accounting tables (migration
`3a03e9a1d6f4`) as a judgement on every step of FixtureInvocation, and which of its
steps they may refuse.

**ImageHistory** -- what uploading promises: one growing history of versions per
role, at most one addition per command.

**ImageStorage** -- the operator's tools beside the uploads: the migration of local
files to S3, the backup (snapshot, listing, downloads, rename) and the restore
(objects one by one, then one transaction).  Every tool may stop at any step.
The tools ask for a quiesced API but only read an environment variable
(`OPERATIONS_QUIESCED`), so uploads go on beside them.

**PaintGovernance** -- composes uploads, readiness reviews, region commands
and plan commands, each one transaction under the project's row lock and so one
action, with generations that are not: `ReadImages`, `ReadRegions`,
`InvokePaid`/`InvokeFixture`, `ProviderAnswers`, `Persist`.  A paid call is
represented by its claim and status alone: `claim[0]` is the resource of the
first plan, `claim[v]` that of the successor of plan version v.  Persisting
repeats the source checks and the insert trigger's comparison with what the
invocation's payload names.

**PlanHistory** -- the guards PostgreSQL puts on plans, instructions and review
events: row triggers judge each statement, deferred ones what is pending at a
`SET CONSTRAINTS` or the COMMIT.  `ServiceScript` is what the service sends,
`RestoreScript` what `_restore_paint_plan_history` replays.

**RegionWorkbench, PlanPreview, Workbench** -- the answers to the region page, to a
preview and to the plan page, and the pages' own checks of them
(`apps/web/src/api/paintPlans.ts`, `RegionAnnotationWorkspace.tsx`,
`PaintPlanWorkspacePage.tsx`), as operators over the state of PaintGovernance.

**Geometry** -- the polygon checks of the server (`services/region_geometry.py`)
and of the page (`utils/regionGeometry.ts`) and the overlap warning,
beside reference definitions: a curve that does not touch itself, two regions
with a point in common.

**ProviderCall** -- one call of the provider: transport, normalisation, output
validation, up to the outcome that is accounted for.  **Spread** -- what is said of
a hand: relationship signals, their ranking and the readiness gate, question
analysis and retrieval.  **ArcanaReading** -- one reading: commands under its lock,
live requests that keep a stale object of it (`seen`), and readers
that put an answer together from several SELECTs.

**Sessions** -- login flows, callbacks, sessions and the commands that use them.
**Projects** -- creation under a key and the row locks of assignments, removals
and reviews, statement by statement.  **Credentials** -- saved keys, grants,
preferences and project policies, each command one action.  A preference has its default
credential, its default model and whether a cost warning, and with it a currency, was saved;
`MayCall` is what `_admit` asks of all these for a paint plan.  **Selection** -- what
a preview and the policy's status say of a selection.  **Accounts** -- composes
them: a command of Credentials takes effect only through the session checks that
ran before it.

**BudgetWindows** -- budget policies, the counters of their windows, and calls
that stay on the counter they were admitted on, also those that cost more than was reserved
(`Overrun`: the measured amount is in the ledger, the reservation stays).  Fixture calls that
share an account come one after the other here; overlapping ones are
FixtureInvocation's subject.  **Preflight** -- what the preview
says of a budget.

**MC...** -- named constants of the small instances; each `.cfg` says in its
first line what it instantiates.

## 3 Runs and what they show

| run | question | properties |
|---|---|---|
| `zhipu_invocation` | two calls on one resource, a repeated key, a legacy attempt, a crash, recovery and revocation at any time: is anything paid for twice, do counters, ledgers and limits agree, does every admission end? | `SpendOnce`, `AccountingExact`, `BudgetRespected`, `ImplementsGate`, `NeverReleaseDispatched`, `EveryAdmissionTerminates` |
| `zhipu_claim_leak` | finding 1 | `PreDispatchFailureFreesClaim` |
| `fixture_invocation` | two requests with one key and a second invocation of the same user, three attempts, two cancels, a crash and recovery | `AccountingAlone`, `RetryAfterDefiniteFailure`, `SchemaAccepts`, `CancelledAttemptNeverSucceeds` |
| `fixture_lost_update`, `fixture_stale_cancel` | findings 2 and 3 | `AccountingExact`, `NeverReleaseDispatched` |
| `images` | retried and competing uploads with a crash and an unanswered COMMIT; and uploads beside a migration, a backup and two restores | `OrphansComeFromFailures`, `AnswersAreDurable`, `RowsHaveObjects`, `CopiesAreWhole`, `KeepsHistory`, `CommittedBeforeCompensationSurvives`, `EveryUploadEnds`, `RestoreConverges` |
| `image_dangling` | finding 4 | `ReferencedObjectExists` |
| `paint_governance` | human commands and the store change between the steps of four generations; do restores, triggers and pages accept every state that results? | `PlansAreLinear`, `PaidOncePerRevision`, `RegionWorkCanContinue`, `PlanStepsAreGrounded`, `HistoryIsRestorable`, `GuardsAcceptCommands`, `WorkbenchIsCoherent`, `SnapshotsAreSound` |
| `readings` | two live interpretations, the fixture, the journal and a reader of one reading | `ReadingCoherent`, `PaidResultIsStored`, `AnswersAreConsistent`, `OutcomeIsHonest` |
| `accounts` | logins, repeated callbacks, logout and commands of one browser two at a time; keys through their life; preferences with and without what a paid call asks of them; projects and reviewers | `LoginsOpenOnce`, `PriorSessionIsGone`, `CredentialsAreSound`, `ReadyMeansCallable`, `OneProjectPerKey`, `NoCircularWait`, `Irreversible`, `OnlyMembersDecide` |
| `budgets` | owners change limits and windows while calls are in flight, some of which cost more than was reserved | `WindowsExact`, `PreviewIsHonest` |
| `budget_window` | finding 5 | `LedgerWithinCap` |

The properties in words:

* `SpendOnce`: of two calls on one business resource, at most one is running,
  succeeded or unresolved; `ImplementsGate`: the service refines SpendGate.
* `AccountingExact`: each counter equals the sum over the reservations held and
  the settlements made.  On the fixture path it holds until a cancel is asked for or
  two invocations that share a counter overlap (finding 2): `AccountingAlone`.
* `BudgetRespected`: committed plus reserved stays within the limit, although
  costs are known only later.
* `NeverReleaseDispatched`: money past its dispatch marker returns only on proof
  that nothing was sent.  Finding 3 is a cancel that breaks it on the fixture path.
* `RetryAfterDefiniteFailure`, `CancelledAttemptNeverSucceeds`: a further attempt
  follows only a definite failure that gave its money back; a late success does
  not undo a cancel.  `SchemaAccepts`: what a step writes breaks no constraint and no
  trigger of the tables.  The transactions the CHECK on the counters refuses are those of
  cancels and recoveries (`CancelFails`, `RecoverFails`), and it refuses a
  recovery only after a cancel or after invocations that share a counter have overlapped.
* `AnswersAreDurable`, `OrphansComeFromFailures`,
  `CommittedBeforeCompensationSurvives`, `KeepsHistory`: what an upload answers is
  backed by row and object; an object without a row belongs to a worker at work
  or failed; compensation spares what was committed before it began;
  versions are those of ImageHistory.
* `RowsHaveObjects`, `CopiesAreWhole`, `RestoreConverges`: a row's object is in the
  store its provider names, also while it is moved; a published backup is one
  state of the rows with the bytes of every row in S3, and a target with rows has
  their objects; stopped and competing restores end in a restored target.
* `PlansAreLinear`: each version names its predecessor, only the last is
  current, a command made the plan it is recorded with.
* `PaidOncePerRevision`: one payment for the first plan and one for the
  successor of each revision, also when the paid result could not be stored.
* `PlanStepsAreGrounded`: a plan is created, edited, submitted or decided only
  while the images, the readiness review and the approved regions that were sent
  to the provider for it are the current ones.
* `RegionWorkCanContinue`: over ready images some region command is accepted.
  A set that was submitted over older images can neither be reviewed, saved
  over nor submitted, and only `fork_draft` gets out of that state.
* `HistoryIsRestorable`, `GuardsAcceptCommands`: any history replays through the
  triggers into the same rows; no command is refused at its COMMIT.
* `WorkbenchIsCoherent`: for both roles the plan page accepts what it is
  answered and every action it offers is accepted; the same of the region page and
  of previews.  One exception is stated in it: over a sole set that is a draft or
  submitted and whose images were replaced, the region page offers no way on
  (`RegionAnnotationWorkspace.tsx:263`), although the API has one.
* `SnapshotsAreSound`: the server and the page accept exactly the curves that do
  not touch themselves, and the warning means that two regions of different
  layers have a point in common, wherever their drawing began.  It does not
  depend on the state and is evaluated once.
* `ReadingCoherent`, `PaidResultIsStored`, `AnswersAreConsistent`: a status never
  promises rows that are not there; a paid result is stored unless the fixture was first
  or the worker died; no answer shows a status without its rows.
  `OutcomeIsHonest`: an outcome that gives money back means that nothing was sent,
  and usage that was read is not lost by what failed after it.
* `LoginsOpenOnce`, `PriorSessionIsGone`: a state opens at most one session however
  often its callback comes, two tabs of one person agree on one user, and the
  session a login replaced never serves again.
* `CredentialsAreSound`, `Irreversible`: a key is lent only while it lives and
  succeeded once; what was revoked or replaced stays so under retries,
  concurrent pages and `last_seen_at`.
* `ReadyMeansCallable`, `PreviewIsHonest`: preview and admission agree on every
  selection and every budget, but for what the admission asks and the preview does not look
  at: of the preference, the default provider, model and credential
  (`services/zhipu_invocations.py:548`-`550`) and the currency of its cost warning (`:551`),
  which is absent where no warning was saved; of the budget, the governed cap (`:577`,
  `:595`).  A call is admitted exactly if the preview has no blocker and these hold
  (`PreferenceSelects`, `BeyondLedgerCap`).
* `OneProjectPerKey`, `NoCircularWait`, `OnlyMembersDecide`: one project however a
  creation is repeated; no ring of row locks; who decides is a member at the commit.
* `WindowsExact`: every counter of every window equals what the reservations that
  name it hold and were charged, and is bounded by the limits that can bind it.  What is
  charged may exceed what was reserved, and no later check undoes that: with one window, a
  user's ledger passes the governed cap by what single calls cost above their reservations, and
  by no more (`OneWindowKeepsCap`).

MCArcanaReading also carries ASSUMEs, facts of the pure parts of a reading that TLC
evaluates before the run: that the deck has 78 cards, that every hand of three from a small
deck (eleven cards: two trumps and three cards of three suits, either way up) is ready to be
interpreted, that a question's classification is unambiguous, and that the estimate covers
the measured cost on both sides of the price tier.

The liveness properties are `EveryAdmissionTerminates`, `EveryUploadEnds` and
`RestoreConverges`.

## 4 Bounds

The defects these modules look for need two actors and one disturbance, so
each instance has two competitors for one thing, a third one for something
adjacent, and one crash.

* Zhipu: `c1` and `c2` compete for a resource, `c3` is a legacy attempt on another one of
  the same user, `c4` repeats the key of `c1`.  The estimate is 2 and the costs 1 and
  3, so a cost falls on either side of it; the limits (user 7, project 4, ledger
  cap 5) admit two calls but not three, so a limit is met while money is in flight.
  The proofs need none of these bounds.
* Fixture: estimate 3 with costs 2 and 3, limits 8 and 7; up to three attempts,
  which is the code's maximum.  The second invocation of the user and the two cancels of the
  first do not meet in one behaviour (`SecondWithoutCancel`): each disturbs the counters
  by itself.
* Images: two roles, two keys, two payloads, one crash and one unanswered COMMIT
  over three uploads; in the scenario with tools one upload to each store, one
  backup, two restores and two tool runs that stop (`MaxStops`).  COMMITs are
  answered there, because finding 4 would take objects from under the tools.
* Plans: two image sets, two readiness reviews, three region sets and three
  plans, but at most four reviews and plans together (`MaxHistory`), and any
  worker may die: enough for every source to go stale under a running generation,
  for a draft to follow the approved regions, and for an edit to overtake a
  regeneration that is about to be stored.  A second approved region set would
  need four versions and is not reached.  The two fixture requests and the two paid
  ones are interchangeable; the symmetry run has no liveness property.
* Geometry: polygons of up to five vertices on a grid of 5 x 5 points, with small
  curves on it for triples of regions: disjoint, touching, crossing and nested.
* Readings: two hands (one with more signals than are kept), two questions, four
  bodies of an answer, one reader and one crash.
* Accounts: two requests of the browser at a time (`MaxInFlight`), and twelve
  scenarios of three to five requests that are coming (`Scenarios`), each around
  one thing they contend for; four revisions of a credential; preferences for the previewed
  key, for another one, for the other product's model and without a cost warning.
* Budgets: two windows of each user account, one of the project; limits that are
  lowered and raised; two paid and two fixture calls, each with an estimate of 2, under a cap
  of 3; costs of 1, below the estimate, and 5, above it and the cap.  The paid calls are
  interchangeable, and so are the fixture calls.

Symmetry is used in these two runs only, on plans and budgets.  Deadlock is checked where workers wait for each
other: the quiescent steps of ZhipuInvocation, FixtureInvocation and ImageStorage are
possible only when all workers have stopped.  `readings`, `accounts`, `budgets` and
`budget_window` switch the check off, because clients may stop sending;
`NoCircularWait` states what a deadlock of row locks would be.  (In PaintGovernance a
command of the environment is almost always possible, so its absence of
deadlock says little.)

## 5 Fairness

Two runs use it.  `zhipu_invocation` assumes weak fairness of each call's
`Work`: a request in flight is run to its end by the event loop, and the HTTP
client has timeouts.  `images` assumes weak fairness of each upload's `Step`,
of the database's decision about a COMMIT it received, and of a restore's steps: a tool
that was started goes on, and an operator repeats a restore that did not succeed.
Lock timeouts, crashes, tools that stop, recovery, revocation and the repetition of
requests by clients are never assumed to happen.  Nothing is assumed about who gets a
lock first.

## 6 Proofs

Eight modules hold the theorems, checked by TLAPS to the last leaf for every value
of the constants: any numbers of requests, calls, users, keys, windows, images and
plans, any amounts, limits, crashes and lost answers.  Theorem names are in
`PROJECT.json`; each names the property of the runs it states.

| module | about | inductive invariant |
|---|---|---|
| `AmountsProofs` | sums over finite sets of rows | |
| `ZhipuInvocationProofs` | ZhipuInvocation, its refinement of SpendGate | `IInv` |
| `FixtureInvocationProofs` | FixtureInvocation, SharedCounters, LedgerSchema | `RInv`, `AInv`, `WInv` |
| `BudgetWindowsProofs` | BudgetWindows, Preflight | `IInv` |
| `ImageUploadProofs` | ImageUpload, its refinement of ImageHistory, ImageStorage | `LocksProtect` and one per theorem |
| `PaintGovernanceProofs` | PaintGovernance, RegionWorkbench, PlanPreview, Workbench, PlanHistory, Geometry | `GInv`, `HInv` |
| `ArcanaReadingProofs` | ArcanaReading, ProviderCall | `RInv` |
| `AccountsProofs` | Accounts, Sessions, Projects, Credentials, Selection | `SInv`, `PInv`, `CInv` |

The assumptions are the named ones of the modules themselves, which TLC evaluates in
the passing runs: types and lookup functions of the requests and, where the code
guarantees more, that.  `LegacyAssumption`: the reservations of legacy attempts were within
the limits when an older release admitted them.  `ProjectsAssumption`: nobody reviews a
project of their own at the start, because `assign` refuses the caller
(`services/identity.py:370`) and only the owner gets past it.  `AccountsAssumption`: the login that
opened the browser's first session is over; its state may be presented again.

Each inductive invariant was checked by TLC on the run of its module before it was proved.
A proof has one case per action, or, where many actions touch the same rows, one
lemma that says which rows an action leaves alone and one per invariant about those
that it changes.

**Sums.**  `TotalAdd` and `TotalRemove` give the change of a sum when one row
joins or leaves; `TotalSame` says that it depends on its rows only, `TotalOfNonzero`
that rows without an amount do not count.  They follow from the library's facts on
finite cardinalities.

**Zhipu.**  Neither `SpendOnce` nor `AccountingExact` is inductive.
A claim protects only because the location of a worker implies that the claim is
its own, and a counter can be decremented only because status and reservation
move together.  The strengthening is

* `RowsCohere`: status `admitted` iff reservation `reserved`, `running` iff
  `dispatch_committed`, and what each location may rely on;
* `ClaimsCohere`: from the claim to the end of the call the worker's claim is
  in place, and an unresolved call holds its resource also when its worker has
  died;
* `CostsCohere`: which ledger rows may carry an amount in which reservation state.

From `ZhipuInductive` follow `ZhipuSpendOnce`, `ZhipuEgressIsClaimed`,
`ZhipuAccountingExact`, `ZhipuBudgetRespected`, `ZhipuCostCountedOnce`, the action
properties `ZhipuNeverReleaseDispatched` and `ZhipuTerminalIsFinal`, and
`ZhipuImplementsGate`: the initial state maps to an initial state of SpendGate,
and every step to one of its steps or a stutter.

**Fixture.**  `RInv` says that the attempts of a key follow each other
(`AttemptsFollow`), that one worker at a time is at work for a key and stands at its
last attempt (`OneWorker`, `WorkerAtItsAttempt`), and what a cancel's snapshot still
says when it is used (`SnapshotsTyped`).  It holds under every interleaving of
cancels, crashes and recovery, and gives `RetriesFollowDefiniteFailures` and
`CancelIsHonoured`.  That counters stay natural numbers
(`ColumnsAreTyped`) needs what a session remembers of them: it writes the remembered value back.
The counters are exact until two invocations that share one overlap (`AccountingWhileApart`,
for `AccountingAlone`); afterwards they are not, which is finding 2.  `WInv` says that until
then at most one of them is in flight (`Apart`) and that a session that still has to write
remembers what the counters hold (`AInv`).  A reservation in flight is then one of those a
counter adds up (`EstimateIsHeld`), so it holds what a recovery gives back:
`RecoveriesAreAccepted`.  `TablesAccept` combines this with `RInv`: the constraints and
triggers hold of every step under every interleaving, and the refusal of a recovery has one of
the two causes.

**Budgets.**  A counter is decremented by a call that was admitted when another window, limit or
account state was current, so `WindowsExact` rests on the names: every reservation names one
counter of each account it is charged to, and keeps that name (`NamesCohere`).
`CountersAreExact` covers any number of windows and any measured costs.  For the cap, the sum of
all calls, each counted up to its estimate, is what the admission bounded, whatever the ledger
holds (`TotalOfBoth` splits it into measured and unmeasured calls); an overage can only make
a later admission stricter.  `PreviewKeepsItsWord` is a fact of each such state.

**Images.**  `LocksProtect` is the inductive core: one transaction holds the
project, one the key; the key of an open one is unused; and what was read
under the lock is still current when it is written.  From it follow
`UploadKeepsHistory` (refinement of ImageHistory), `UploadHistoryIsLinear`,
`UploadProjectFollowsPrimary`, `UploadOrphansComeFromFailures` (with the
strengthening that a committing worker's object exists),
`UploadCommittedSurvives`, and `UploadAnswersAreDurable` (a completed key names an upload with
its row, and nobody overwrites it).  `UploadsBesideTools` shows that every step of a tool is a
stutter of ImageUpload, so these hold beside the tools too.  `RowsKeepTheirObjects` needs that
a row is pointed at the bucket after its copy lies there (`CopyComesFirst`), and that
without an unanswered COMMIT every row belongs to an upload that was answered and no
worker can still delete its object (`NothingInDoubt`).  `BackupsAndRestoresAreWhole` needs that an
export is one state of the rows (`OneState`, from the theorems on uploads) and that
nothing is restored before it is published (`BackupThenRestore`).

**Plans.**  A plan stores what it was made from, but not that its regions were approved; a claim names
who pays, but not for which revision.  `GInv` adds what the steps rely on:
`PlansAreSourced` (a plan names what its invocation was sent, and while no later region set exists
that one is approved), `ClaimsAreHeld` (a key that has spent money holds, itself or through
another request with the key, the claim of the revision it was sent for), `CallsAreRunning`,
`ReadsFitRequests`, and `LineagesGrow`, which is what the page checks of a plan's history.
From it: `RevisionsFormOneLine`, `RevisionsArePaidOnce`, the action property
`PlanStepsStandOnTheirSources`, `RegionsAreNeverStuck`, and `WorkbenchesAgree`, which compares three
formulations of the same rules (the server's answer, the page's checks, the commands' guards) in
every state of `GInv`.

**Histories.**  A restore is a script as long as the history it replays, so what it leaves
behind is proved by induction over data: `CountUp` takes the induction from the
well-foundedness of < on the naturals, as a statement about sets of naturals, which
needs no operator as a parameter; `RunAppend`, `RunConcat` and `FlattenIs` unfold folds of scripts
with it.  `InsertInto`, `UpdateInto`, `RecordInto`, `InstructInto` and `CommitDb` say what each
accepted statement does to tables of any size; `NextRowIsLawful` says that trigger, constraints
and indexes accept the next row of a line of plans (`OneLine`).  `EventIsReplayed`,
`PlanIsReplayed` and `PlansAreReplayed` follow the script: after each plan the deferred
constraints have nothing open but successors still to come (`Successions`).  `GInv` is too
weak for that.  The replay inserts an edited plan as "edited" and any other as
"generated", whatever it became, so an untouched plan comes back right only because its
lifecycle says how it was made (`FreshPlansAreNamed`); and the comparison of payloads lets a
failed invocation pass because nothing is kept of it (`FailuresForget`).  `HInv` is `GInv`
with these two.  `HistoriesAreRestorable` states `HistoryIsRestorable`, and
`CommandsPassTheGuards` the action property `GuardsAcceptCommands`: the first plan and each successor,
by edit or generation (`AdditionIsAccepted`), and each review (`ReviewIsAccepted`) pass every
trigger, and no step rewrites a payload (`PayloadsStay`).

**Snapshots.**  Points are any pairs of integers, and a common point of two segments may lie at
any fraction of their lengths (`Meet`).  `IntersectionIsExact`: the orientation test holds just
when there is one, also of collinear, touching and degenerate segments.
`ServerAcceptsSimpleCurves`: a polygon of any number of vertices is valid just when its closed
curve is nowhere twice (`NowhereTwice`) and it is well formed and large enough.  The server
compares no neighbouring edges; an edge that turns back along its neighbour touches the edge after
it (`NeighboursTouchOnce`) or, in a triangle, encloses nothing.  `PageAndServerAgree` needs only that
two edges from the same vertex touch; `ContactsAreWarnedOf` is about the overlap warning.

**Readings.**  A live request decides on an object of the reading that it read before its
call.  `RequestsFit` says what that object may still be used for: the request has the reading's
claim from before the call to the end, and the status it read is at most behind.
`AnswersFit` says which rows a reader's earlier statements have already found.

**Accounts.**  `SInv` is about flows that are taken once, sessions, the identities that the subject's
lock protects and the tokens that requests carry; `PInv` about keys in progress, row locks and the
authority a request has once its rows are locked (`AuthorityLasts`); `CInv` about
credentials, grants, selections and calls.  `LocksAreOrdered` is the only theorem about
waiting: a request that waits for the last row anyone waits for (users by id, then projects)
waits for nobody who waits, because whoever holds that row has no later one to ask for
that is taken; a creation with the key of another waits for one that holds no rows.  The
length of a ring does not matter.  `RevocationsLast` is an action property.
`PreviewsPromiseCalls` compares preview and admission condition by condition in every state of
`CInv`, whose part `SelectionsAreSaved` ties a policy's credentials to the project's owner.

**What the proofs found.**  `LedgerRows` of LedgerSchema said that exactly the settled attempts have a
cost; the induction failed, no constraint of the migration says so, and what remains is
the foreign key (a cost is of an attempt that exists).  A CASE of FixtureInvocation had
overlapping guards.  None of the other changes to the model alters a
behaviour: updates of nested records are written as paths, and helpers were named where
lemmas needed them.

**Only model-checked.**  Liveness (`EveryAdmissionTerminates`, `EveryUploadEnds`,
`RestoreConverges`), which is beyond this prover, as is ENABLED.  `SnapshotsAreSound` as it is
stated: its polygons are literal data.  What it says of accepted polygons is proved for all
of them, with any fraction in place of the twelfths of its reference definition; what it says
of a region inside another is not: that counting the edges to the right of one corner tells
inside from outside is the Jordan curve theorem for polygons, and TLC compares the count with
winding numbers on the pairs of section 4.  The ASSUMEs of MCArcanaReading are about literal
data.  The findings are counterexamples, and each refutes a property that therefore has no
theorem.

## 7 Findings

Each is a run that TLC must find violated, against a sentence of the repository.

1. `zhipu_claim_leak`: a worker slower than its 120 s lease meets the recovery of
   its admission; its dispatch is rejected, and the release raises before it
   reaches the DELETE of the claim (`services/zhipu_invocations.py:796`).
   The resource stays claimed for 3650 days.
2. `fixture_lost_update`: a settlement writes counters computed from the values
   held since admission, and overwrites another invocation's
   (`services/ai_foundation.py:3217`).
3. `fixture_stale_cancel`: a cancel decides on the snapshot it read before it
   waited, and releases a dispatched reservation (`:3303`).
4. `image_dangling`: an unanswered COMMIT takes effect after the compensation
   has read the references and before it deletes
   (`services/image_assets.py:784`).
5. `budget_window`: a call in flight when its window ends, or when the owner saves
   another window length, is counted neither on the new counter nor in the
   ledger; its settlement takes the ledger over the governed cap
   (`services/zhipu_invocations.py:582`).

The quotations are in `PROJECT.json`.

### Observations

Met while reading and modelling, without a run of their own: no sentence of the
repository is contradicted by them, the run would show a single step, or, for the first
two, a checked property states the contradiction as its exception.

* `live_saved_selection_blockers` "makes every other prerequisite explicit"
  (`services/ai_foundation.py:2195`), but does not look at the default provider, model and
  credential of the preference, at its cost-warning currency or at the governed cap.  A user
  who saved a preference without the optional cost warning sees an empty list of
  blockers, and the call is refused.
* A user has one preference, plans ask for a default model `glm-5v-turbo` and readings
  for `glm-5.2` (`services/arcana.py:592`): whoever uses both has to save it anew each time.
  The preview does not mention it.
* A measured cost above the reservation enters the ledger in full, although a call "is
  bounded by the cumulative 1.00 CNY cap" (`apps/web/src/i18n/resources.ts:820`): only later
  calls are refused for it.  `OneWindowKeepsCap` says by how much the cap can be passed.
* Where the lost update of finding 2 makes the CHECK refuse a recovery, the exception leaves
  the batch (`recover_expired_admissions`), whose other expired admissions are not
  examined, and the next run meets the same row (`RecoverFails`).
* A cancel between the creation and the admission of a fixture invocation is not
  seen by the worker's session, which admits an attempt
  (`services/ai_foundation.py:2661`; phase-3a-byok-multi-provider-foundation.md:232).
  `AdmitAttempt` has the step.
* phase-3a-byok-multi-provider-foundation.md:330 orders the locks of the
  accounting rows.  `_release_admitted_attempt` (`services/zhipu_invocations.py:792`)
  takes the invocation before the counters; cancel, recovery and settlement of
  `services/ai_foundation.py` (3296, 3523, 2840) take the counters first.
* The region page stays in its loading state when the history's first request
  fails (`RegionAnnotationWorkspace.tsx:523`, `:935`).
* A question of 371 to 500 characters is accepted and drawn, but the fixture
  quotes it in items limited to 400 characters (`schemas/arcana.py:137`); the model has it as
  `question.long`.
* The backup's inventory names rows of provider `s3` only
  (`tools/staging_backup_restore.py:525`): a backup before every row is migrated
  succeeds without the other bytes, where ADR-0009:81 asks that missing objects are never
  represented as success.  `CopiesAreWhole` claims the bytes of S3 rows only.
* The files of a backup are verified when a restore starts and read again
  afterwards; the final comparison is with the files, not with the manifest.
* A preview estimates without the id of the plan to be replaced, whose prompt is
  slightly longer: at the per-call limit a previewed regeneration may be refused.
* Live policy credentials belong to the project's owner and live calls use the
  caller's, and `_admit` asks for the owner (`services/zhipu_invocations.py:629`), so
  reviewers can make no paid calls of a project.
* A removed reviewer cannot take back a grant of their own.  A repeated assignment
  without a key adds a reviewer again who was removed in between.
* Two overlapping logins of one browser may leave two live sessions, neither of which
  is the prior one.
* No code sets a project's status to ABANDONED, deactivates a user, or moves a
  project to the statuses from which its primary image may be replaced.

## 8 What is not modelled

Contents are abstracted throughout: images, plan documents, prompts and cards are
versions or model values, and validation is a nondeterministic outcome.
Time is abstracted to "may have expired at any moment", except where two clocks are
compared (token claims in Sessions).  Rows of different users are never written
together except by memberships, so most instances have one user and one project.
READ COMMITTED is modelled where it matters: a generation's unlocked SELECTs and a
reader's statements are separate steps, and the stale objects of the fixture path
and of Arcana are explicit.

* The rate limit on credential validations (`services/ai_foundation.py:584`,
  `:811`): attempts counted in a table of their own.
* Row locks other than those of users, projects and creation keys.
* The decoding of images, labels of regions (whose folded form may be longer than the
  column) and the region editor's undo history.
* `safe_cleanup_orphan`, which nothing calls, and the read-only orphan scan.
* The OpenAI adapter and `arcana`'s knowledge texts; the parsing of HTTP and JSON.
* Signatures and checksums of a backup: reasons for a tool to stop.  Seeds and column
  types of the schema.
* Configuration, health probes, demo and deployment scripts: no state beyond a
  process's start.

## 9 Plan

Done: the core (ZhipuInvocation, FixtureInvocation, ImageUpload, PaintGovernance) and
its surroundings (SharedCounters, LedgerSchema, ImageStorage, PlanHistory, the pages' modules, Geometry,
ArcanaReading, Accounts, BudgetWindows), and the proofs of section 6: every safety
property of the passing runs but `SnapshotsAreSound` has a theorem, and that one in part.

Next, in this order:

1. PaintGovernance: an abstract specification of a line of plans (one head, whoever
   appends names it), and the detailed one shown to implement it.
2. Credentials: an abstract specification of a lent key, refined by Accounts.
3. Geometry: that the parity of crossings does not depend on the corner it is taken from.
