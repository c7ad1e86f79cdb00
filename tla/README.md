# Verification of Project MAYA

TLA+ models of the parts of Project MAYA that change shared state, the TLC
configurations that check them on small instances, and TLAPS proofs of the
properties that matter most for every instance. Paths below are relative to the
repository; the Python package is `src/project_maya`. `PROJECT.json` maps every
definition to the lines it models and lists the runs, mutants, hazards and theorems.

## 1. The system

MAYA wraps the Hermes agent runtime with a product shell: an agent facade, a local
business memory, governance (every effect is authorized and audited), governed
conversation sessions, a Telegram intake, an OAuth broker client, backup and restore,
memory plugins of the Hermes distribution, and the release, installation and operator
tooling. Hermes itself is not in the repository; the code meets it through adapters
and patches.

| Part | State | Operations | What makes it correct |
|---|---|---|---|
| Session creation (`hermes_plugins/session_creation.py`, `session_transitions.py`) | SQLite tables (generation, routes, transitions), `sessions.json`, lock file, audit log, in-memory authority | `authenticated_create`, `create`, `revoke` | file and database never disagree beyond one create in flight; a receipt or failure report is true; nothing is committed or published under a revoked authority |
| Session reader (`session_readers.py`) | entry cache, scope with its lease | `read`, `authenticated_request`, `load_transcript` | only published sessions are seen, and they do not change under an open scope |
| Caller preparation (`caller_preparation.py`) | transition states pending, acknowledged, quarantined | `prepare`, acknowledgement, quarantine | a session becomes visible only after its caller's body ended well; anything else keeps the store closed |
| Request leases (`hermes_plugins/governance.py`, `session_requests.py`, `session_handoff.py`) | chains of leases, tasks, timer, executor thread | caller scope, schedule, handoff, revoke, expire | no write after the request ended; a cancelled task ends |
| Agent facade (`agent/factory.py`, `adapters/hermes.py`) | facade state, plugins, runtime object, memory session | `attach_memory`, `load_plugin`, `start`, `run`, `stop` | a reported plugin is loaded; facade, adapter and runtime agree about a running and a stopped agent |
| Telegram intake (`telegram_intake.py`) | high-water mark and lock in memory, audit log | callback, dispatch wrapper | updates in order and at most once per process |
| Local backup and restore (`backup.py`) | archive, temporary file, data directory | `create_local_backup`, `restore_local_backup` | an archive at its name is complete; what reports success is restored; no overwrite without consent |
| Broker tokens (`broker.py`, `secrets.py`, `integrations.py`) | session files, envelope, metadata file, key pair | oauth start and complete, refresh, revoke, register, reset | secret store and metadata agree once a command ran undisturbed |
| Business memory (`memory/business.py`, `memory/sqlite_vector.py`) | records, full-text index, recorded dimension | `remember`, `ingest_document`, `rebuild_embeddings` | whole ingests, no write that was not authorized, documents agree with columns (section 6) |
| Memory plugins (`plugins/memory/*`) | per provider: queues, buffers, breakers, threads, stores, server sessions | loading, turns, recalls, session switch, shutdown, exit, crash | no turn is lost unaccounted, order is kept, stale answers are dropped, pauses end, rebuilds repair |
| Release build (`scripts/build_phase6_release.py`, `verify_phase6_release.py`, `release.py`) | output directory | `main` step by step, signing, compiling, verification | an accepted directory is one build; an intact build of clean inputs is accepted |
| First run (the script and launchers the build writes, `cli.py`) | `maya.json`, token, policy, update metadata, Hermes pin | setup, start, doctor, import of a configuration, rotation | a configuration survives a kill, but for one place; a launched server is complete |
| Readiness (`config.py`, `connectors.py`, `model_config.py`, `dependencies.py`, `setup.py`, `doctor.py`, `health.py`, `repair.py`, `bootstrap.py`, `update.py`, `metabase.py`) | the installation | repair, assembly, reset; verdicts of the others | what fails the doctor fails the health summary, but for one check |
| Local API (`local_api.py`, `runtime.py`, `governance.py`, `audit.py`) | token in the secret store, loaded rules, audit log, request threads | rotation, start, stop, request handling | a rotated token takes effect; nothing runs unauthorized or unrecorded |
| Documents (`documents.py`) | documents directory | create, convert, inspect commands | a conversion by itself reports its own source |
| Legacy migration (`migration.py`) | registry tables, backup, report | `migrate` | a report is true of the destination |

Interaction. Creation, preparation and readers are different processes that share
one lock file (tried, never waited for), one SQLite database and `sessions.json`.
The request binding gives each conversation a root lease on which the task, receiver,
handoff and worker leases depend. The Telegram intake hands updates to a consumer it
awaits. The facade calls the runtime adapter, which owns the memory session and, in
it, at most one memory plugin. The agent and the command line may open the same memory
database. Every `maya` command is a process of its own on shared files; the local API
is a long-lived one with a thread per request.

Hard behaviours: crashes between SQLite commit and `os.replace`; commits that raise
although they are durable; revocation from another thread; executor threads that
outlive their request; timers that race lease checks; reads made before a transaction
opens; files written in place by a process that dies; two processes with one temporary
name; rows handed to a service and not yet deleted; threads declared dead that answer
late. `PROJECT.json` lists each of them at its line with the properties that would notice.

## 2. Modules

| Module | Models | Remarks |
|---|---|---|
| `SessionRegistry` | what creation promises: a register of routes with atomic `Publish` and at most one creation in doubt | abstract |
| `SessionCreate` | `create()` and its authority, one action per step between two places where another thread, another process, a fault or a crash can intervene | `RegistrySpec` is the refinement |
| `SessionReader` | the reader's lookup, conversation scope and transcript loading | extends `SessionCreate`, so creators and readers run together |
| `CallerPreparation` | `prepare()` over `create()` and the reader as patch 29 changes them; `create()` is one step with its three kinds of outcome | also refines `SessionRegistry`, with the acknowledgement as `Publish` |
| `RequestLease` | one request's leases, host task, selected task, timer and thread | `revoke()` is two steps because the code has no lock |
| `AgentLifecycle` | the facade over the adapter and the runtime, with a failure at each place that can raise | `stop()` is three steps, and a request is admitted, tested and dispatched in three, since only the first is under the lock |
| `TelegramIntake` | callback and dispatch wrapper | audit writes may raise with or without effect |
| `RequestPath` | the facade, the intake and the leases | composes the three by EXTENDS, one followed at a time |
| `BackupCreate`, `BackupRestore` | the two operations, file by file, beside a runtime that uses the directory | contents are states such as torn or whole, not bytes |
| `Backups` | both, one at a time | a restore reads archives no backup is writing any more |
| `BrokerTokens` | six commands over four files of one provider | each write truncates, then fills |
| `MemoryStore` | three operations from governance to SQLite | the retriever's lock and SQLite's writer lock are separate |
| `Hindsight`, `HonchoDelivery`, `HonchoDialectic`, `OpenViking`, `Supermemory`, `RetainDBQueue`, `Mem0Breaker`, `HolographicFacts` | one memory provider each (Honcho is two) | services fail or answer late; joins with a timeout constrain nothing |
| `MemoryPlugins` | the loader, and the provider it picked | composes the eight by INSTANCE |
| `ReleaseBuild` | the builder's steps, its inputs, and the verifier | a digest is the content itself |
| `FirstRun` | the first-run script, the launchers and the commands that share their files | may overlap and be killed anywhere |
| `Readiness` | the installation as one record, and every command's verdict about it as an operator | verdicts change nothing |
| `LocalAPI` | the server, its authentication, the policy and the audit log | one thread per request |
| `Documents` | overlapping document commands | a file is named by its stem |
| `LegacyMigration` | backup, transaction and report of `migrate` | killed and run again |
| `Installation` | the six above | composes them by INSTANCE, one followed at a time |
| `*_proofs` | theorems | extend the modules they are about: each is about the module of its name and what it composes or what extends it |
| `MC*` | constants for TLC | |

Choices a reader should know:

* Composition. Backups, the request path, the plugins and the installation have parts
  that do not share variables, or only through a file whose effect each part states for
  itself. Their composition therefore follows one part per behaviour and keeps the others
  at an initial state; a product of independent parts would only multiply states.
* `SessionCreate`: a descriptor, its correlation id and its session are one value,
  `Attempts`, because the code generates them together. Policy and audit answers are
  nondeterministic. There is no recovery code for an unfinished transition, so none is modelled.
  `Verify` ends with the authority's check of line 212 and `CommitVerified` is the
  commit after it, because nothing keeps `revoke()` out in between.
* `RequestLease`: executor threads may take any time. `late` is the passing of the
  deadline; it is noticed by the timer, by a lease check, or by neither yet.
* `AgentLifecycle` takes Hermes' agent object to have `shutdown_memory_provider`, as
  the adapter expects. `wrapped` says whether the factory returned such an object, which
  the adapter wraps, or one with `start`, `run` and `stop` of its own, which it uses as it
  is; of the latter the properties say only what the facade and the adapter know.
* `BackupCreate`: `overlapped` is a history variable naming destinations on which two
  backups were at work at once. The contents of files at such destinations are not
  relied on by any property.
* `BrokerTokens` follows Windows, where the DPAPI store lives: a file that another
  process has open cannot be unlinked. `alone`, `settled` and `stored` are history variables.
* `MemoryStore`: Python's `sqlite3` opens a transaction at the first INSERT, UPDATE or
  DELETE, so the SELECTs before it are outside and are steps of their own. A document
  is reduced to its text and its vector's dimension. The run gives each caller a
  retriever of its own, as the agent and the command line have: a lock they shared
  would hide what one does between the other's reads and its transaction.
* `ReleaseBuild`: a skill or a service may bring a tests directory, and the Inno compiler
  may be given and not be there.
* `FirstRun`: every copy in place is two steps, a torn file and the whole one. `alone`
  says that no other launch came in between before the server ran, `fresh` that neither
  another first run nor an upgrade ever did. Imports are the valid configurations that
  differ in what the properties tell apart, with and without a reference and a model.
* `HonchoDelivery` numbers messages as they are made, so a session's list of messages, a
  batch and a stored part are sets of numbers; their order is that of the numbers.
* `Mem0Breaker` counts failures up to one more than the threshold, after which only
  being above it matters; the cooldown is a flag that time clears.
* `HolographicFacts`: a vector is what it encodes, a bank the set of its vectors, so
  that "queries find it" is a statement about commits and not about floating point.
* `LocalAPI` has no session binding, as `bootstrap.py` builds the API. `valid` is a
  history variable: the tokens that were stored whole while a request waited.
* `Readiness` starts at a healthy standard installation and lets `MaxDeviations` of its
  fields be wrong at once, in every way the checks distinguish.
* Operators defined just before a mapped definition, with its name and a suffix, are
  altered forms of it. Nothing uses them except the mutation runs, which put them in its
  place to see the property fail.

## 3. Runs

| Run | Instance | Distinct states | Asks |
|---|---|---|---|
| `sessions` | 2 hosts with a slot each, 2 descriptors, 1 reader of the first slot | 291,656 | creation and reading together: file against database, true reports, revocation, frozen scope, transcripts, refinement of the register, lock given back |
| `request_path` | 2 plugins, 2 callers; 2 tasks, updates 0 to 2 (1 unqualified), 1 restart; 1 request | 21,831 | what the facade reports; order, single dispatch, audit accounts for dispatches, lock freed; late workers are denied, a cancelled task ends |
| `caller_preparation` | 3 hosts, two on one slot, 3 descriptors, 1 reader | 137,944 | acknowledgement is earned, outcomes are true, refinement of the register |
| `backups` | 2 backups, 1 destination, 3 files (database, document, excluded); or 2 restores, 2 paths, every archive over them | 574,868 | completeness; success means restored; consent to overwrite |
| `broker_tokens` | 2 commands, 1 session, rotation and key bounds 2 | 563,832 | the status file agrees with the secret store when settled and is never ahead of it |
| `memory_store` | 2 callers with models of different dimensions and a retriever each, 2 ids, 2 texts, a file of 2 chunks | 201,080 | whole ingests; no unauthorized rewrite |
| `memory_providers` | per provider: up to 3 turns, 2 sessions, 2 processes or agents, 3 callers, 2 facts, as the cfg lists | 987,097 | seven properties, one for each state machine but Supermemory |
| `installation` | 2 builds over 23 command lines; 2 launches, 1 file of release metadata; 2 deviations; 2 requests, 2 tokens; 2 document jobs; 2 keys, 2 migrations, 2 other writes; symmetry of launches, requests and jobs, and of the exchange of references and of sources | 826,482 | nine properties over the six parts |
| `memory_lost_text`, `viking_pending_sessions`, `release_compiled`, `restore_config` | as above | violation | section 6 |

Why these bounds. Two hosts give every pair of positions in the protocol, and with two
descriptors one host can fail and try again on its slot while the other is at work or
dead; `caller_preparation` adds two hosts on one slot. A reader holds the lock in one
place at a time, so one reader gives all contention. Requests share
only the request binding and the loop, so one shows the lease chain with its threads.
Three update ids give older, equal and newer, and an unqualified one between two
qualified. One destination is the case in which backups interfere. `MaxRotation` and
`MaxKeys` of 2 tell a value from its successor and from a replay. Two ids give a batch
with a middle, and a record that a rebuild did not read; two dimensions are what a
disagreement takes. For the providers: three turns make a buffer that retains every
second turn hold one over, and make an answer two turns old; two processes contend for
one table and a third life restarts after a crash; a threshold of two lets a success
and a failure interleave below and at it; two facts give a bank with a partner. For the
installation: the second build, launch, migration or conversion is the one that
meets the first one's remains; two builds tell one build's files from another's; two
deviations let one mask the other; a second token is the rotation and each request may
present either; one file stands for the release metadata, which a first run that is cut
short leaves torn or as it was (the theorem is about any number of them). For safety the theorems of section 5 remove these bounds.

Deadlock is checked except in `sessions` (descriptors run out, and an unfinished
transition closes the store for good), `request_path` (a request ends, and a stopped or
failed agent stays so), `memory_providers` and `viking_pending_sessions` (a provider
ends with its process), `installation` and `release_compiled` (a release that was
verified, or an installation whose bounded launches and edits are used up, is done).

## 4. Fairness

* `sessions`: weak fairness of each host's own steps. The thread inside `create()` is
  scheduled and takes no blocking step. Requests, revocation, expiry, crashes and
  every step of a reader, whose scope may last, are not owed. `LockIsReleased` is
  claimed for creating hosts only.
* `request_path`: weak fairness of the event loop's steps, which are those of an intake's
  callbacks and of a request's tasks and timer. For the callbacks it includes that the
  consumer returns or raises: one that never does keeps the intake busy, which is the
  code's design. Executor threads get none: Python cannot stop them, and
  `CancelledTaskEnds` is about not waiting for them. Neither do callers, the poller or the
  clock.
* `memory_providers`: for Mem0 only, weak fairness of the clock that ends a cooldown and
  of each calling thread's own steps, which includes that a call to the service returns
  or raises. New calls are not owed; `Mem0PauseEnds` speaks of callers that come back.

All other runs check safety only.

## 5. Proofs

Every safety property of a passing run is stated by a theorem, for all values of the
constants. Each `_proofs` module proves `Init => Inv` and `Inv /\ [Next]_vars => Inv'`
with one lemma or step per action for an inductive `Inv`, and derives the properties
from it; where parts are composed, each part has an invariant over its own variables,
which a step of another part leaves alone.

The assumptions on constants are named in the modules that declare them: in the component
modules (`SessionConstants`, `ReaderConstants`, `PreparationConstants`, `LeaseConstants`,
`IntakeConstants`, `BackupConstants`, `BrokerConstants`, `MemoryConstants`), in `Backups`
(`RestoreConstants`), in `MemoryPlugins` (`HindsightConstants`, `DeliveryConstants`,
`RetainConstants`, `DialecticConstants`, `HolographicConstants`) and in `Installation`
(`NoneIsNoEntry`, `ReleaseConstants`, `FirstRunConstants`, `ReadinessConstants`,
`DocumentConstants`). They ask only that marks for what is absent or broken are not
members of the sets, that functions have their domains and ranges, that bounds are
numbers, and that `Paths` and `Ids` are finite.

* `SessionCreate_proofs`. `ProjectionLag` is not inductive: a commit is harmless only
  because nothing is unfinished, which was seen under the lock several steps before.
  `LockInv` says who is inside the lock, `AuthorityInv` whose descriptor is whose and
  that guard points imply an unrevoked authority, `RowsInv` ties transition rows to
  routes, and `PointInv` records what each program point has established. The action
  properties follow from one lemma about which step may change a transition;
  `OnlyUnrevoked` leaves out the mark `projection_verified`, since a revoke may come
  between its check and its commit (section 6), and
  `Implements` maps `Commit` to `Reserve` and `Finish` to `Publish`.
  With readers, `ReaderIInv` adds who of the readers holds the lock, that a selected
  session is its route's, published and settled while the scope holds the lock
  (`SelectionInv`), and that a cached entry is its route's (`CacheInv`). A creator's step
  cannot touch the former without the lock, nor the latter because publications stay. To
  the creators a reader's step is a stutter or a crash, so that everything above, the
  refinement included, holds of both together (`CreatorsUnmoved`, `ReadersImplement`).
* `CallerPreparation_proofs`. `RouteInv`, `ScopeInv` and `LockInv` play the same
  parts. No lock is held while the body runs, so the argument rests on the open
  row itself: `OneOpen` and the create test keep everyone else out.
* `RequestPath_proofs`, a part for each of three modules; `PathIsItsParts` carries their
  theorems over to the composition.
  Facade: `CreatedInv`, `StoppingInv` and `BoundInv` tie the facade's state to the
  adapter's and the runtime's.
  Intake: `MarkInv` (everything started is at or below the mark, an accepted update above
  it) with the lock's single holder gives order and uniqueness.
  Leases: that a late worker is denied needs that whatever ends a request is known to its
  leases. `RootInv` says that a root lease is live only while the scope is open and
  nothing has ended it; `ReceiverInv` and `ClaimInv` tie the dependent leases to the
  selected task; `EndedInv` says that a failed or cancelled task has left its reason in
  the termination, or the loop holds that reason and is about to write it. A reason the
  worker holds can only be the timeout.
* `BackupCreate_proofs`. `NamesInv` says which file is behind which name, `HoldInv`
  that without overlap the working backup owns both names, `CountInv` that the file
  holds what its writer counted. For the restore, `WrittenInv` says that a path is
  restored, still to be written, or was disturbed by someone else, which needs that the
  configuration entry is written before a data member of its path (`OrderInv`);
  `ConsentInv` remembers what the plan found.
* `MemoryStore_proofs`. `LockInv`, `BatchInv` and `GrantInv` hold for any number of
  retrievers and give `IndexAgrees`, `StoredIsWhole` and `WritesAuthorized`. The lemma
  `SharedIsConsistent` locates the fault of section 6: if all callers used one retriever,
  `SingleDimension` and `ColumnsAgree` would hold (`ReadInv`: what was read under its
  lock is still so at the commit). The product gives the agent and the command line one each.
* `MemoryPlugins_proofs`. Hindsight: a retained job may replace a whole document on the
  server, so an accounted turn must not be dropped by a later replacement. `LivesInv` says
  that a replaced document belongs to one life of the provider, `GrowthInv` that along
  the document, the queue and the buffer its turns only grow; `KeptInv` is the property.
  Honcho's delivery: `BatchInv` says that a batch on its way leaves out no earlier
  message the server has not got, and that one that was answered is stored, which
  `SyncInv` and the order of the stored messages rest on. Honcho's reasoning: a waiting
  text carries the turn it was fired at. RetainDB: a row that is about to be deleted was
  taken by the service, whichever process has it queued. OpenViking: what exit would
  commit is the provider initialised last, unless it was shut down, and what an answered
  commit covers is all the server holds. Holographic: `PlanInv` says that what a
  rebuild still has to do is every vector, then every bank, and that what it has not to do
  any more is done; the finite sets it lists in some order are handled by one lemma.
* `BrokerTokens_proofs`. `AloneInv` says that a command that is alone is the only one
  on its files and that busy files are not settled; `Progress` says, per command, what
  it has done by each point. Three lemmas about entering, going on and leaving carry
  `AloneInv` through every command, and one lemma frames the progress of the others;
  what is left of each action is the command that takes it.
* `Installation_proofs`. For the local API, `TokenInv` says that a waiting request may
  present whatever is stored now, so that authentication against the store keeps it
  within what was valid, and `AuthorizedInv` that the rules of the process a request
  runs in allowed what it has passed, which needs that no request outlives its server.
  For the migration, `MigrationInv` relates what the open transaction sees to what the
  command did, and `ReportInv` says that an older report stays true of it too, since a
  later run that overwrites a migrated key writes the same legacy value.
  For the documents, `ConversionInv` says that a command that is alone owns what
  LibreOffice produced, and follows a conversion's source to the report.
  For the release, `ReleaseInv` says what each step has written and that every file is
  the newest build's; an accepting verdict is then a statement about the steps that an
  undamaged build has passed.
  For the first run, `FirstRunInv` says what a process has seen to whoever else is at
  work (`Provided`, `PolicySettled`), that the update metadata is being copied by at most
  the one launch that is still fresh and how far it has come (`SoleCopier`, `Copied`), and
  what the files hold at each step of a launch that is the only one at work (`Followed`).
  `ConfigurationKept` compares what the file says, or says again once a reference is
  written over it (`Said`), before and after each step of a launch by itself.
  The readiness theorem is a case analysis over the checks of the doctor; its invariant
  only says which entries the installation has.

Only model-checked: the four liveness properties, `LockIsReleased`, `CancelledTaskEnds`,
`IntakeBecomesFree` and `Mem0PauseEnds`, since liveness under fairness is outside the
prover's reach; and the four runs of section 6 that show a violation.

## 6. Where the code and its documents disagree

Shown by runs:

* `restore_config`: the top-level `maya-config.json` entry of an archive and a data
  member of the same target path are both written, and the later one wins
  (`docs/architecture/local_backup.md` promises the former).
* `release_compiled`: `_update_inno_compile_manifest` rewrites the Inno manifest after
  the release manifest was signed over its digest, so a release built with
  `--inno-compiler` never verifies (`docs/architecture/phase6_production_distribution.md`).

* `memory_lost_text`: a rebuild reads the documents before its transaction and writes them
  back, so that with a retriever each the command line's rebuild puts the old document
  over one the agent stored meanwhile, whose columns and full-text row stay
  (`docs/architecture/sqlite_vector_memory_integration.md:98` promises that only the derived
  vectors are replaced).
* `viking_pending_sessions`: the comment above OpenViking's exit handler promises that
  pending sessions are committed, also after a SIGKILL. The handler knows one provider,
  the one initialised last, and a killed process runs no exit handler. What it does do is
  `VikingExitCommitsLast`.

Met while modelling, and not a run of their own:

* `session_creation.py:212`: the check before the mark `projection_verified` holds neither
  the authority's lock nor the publication guard, so a `revoke()` from another thread may
  fall between it and the commit at line 216. `OnlyUnrevoked` claims the commit of the
  rows and the publication, which are guarded, and not this mark.
* `adapters/hermes.py:270`: the runtime tests its started flag without a lock and calls
  the agent afterwards, so a request may be dispatched after `stop()` finished; an object
  the factory returned with methods of its own (lines 454 to 456) is used without any test.
  No property speaks of late dispatches.
* A skills overlay is copied with its `tests/` directory
  (`build_phase6_release.py:1436`), which the verifier refuses
  (`verify_phase6_release.py:106`); and an Inno compiler that is given but not there rewrites
  the signed manifest too (lines 2460 to 2475), although the option's help text (211 to 214)
  promises a release without compiled installers. `UncompiledVerifies` excepts both.
* `build_phase6_release.py:1742` and `1748`: every first run copies the release metadata,
  and once the default policy, in place. A first run killed in a copy leaves a torn
  document under a server that is running; a torn policy is kept by later first runs, as is a
  torn `metabase.jar` (line 1983, not modelled).
* `build_phase6_release.py:1881` writes the credential reference over `maya.json` in place;
  killed there, a first run loses the configuration, the one exception of
  `ConfigurationKept`. First runs and imports use one temporary name (line 1829), so
  that two of them at once may move a half written file into place or take back one
  another's configuration; `ConfigurationKept` and the first half of `LaunchedIsComplete`
  speak of launches that do not overlap.
* Two backups of one destination at once truncate, move or unlink one another's temporary
  file; `PublishedIsComplete` speaks of destinations where that did not happen.
* `documents.py:285`: sources of one stem share LibreOffice's output file, so that two
  conversions at once may report one another's file; and one for which LibreOffice made
  nothing counts as converted when an older file is at its output. `ConvertedIsOwn` speaks of
  conversions that ran by themselves and got a file from LibreOffice.

* "Any failure attempts runtime shutdown" (`docs/architecture/public_api.md`):
  `HermesRuntimeAdapter.start` remembers the runtime only after it started, so a failing
  plugin or start leaves a constructed runtime that nobody stops.
* "A single persisted and validated embedding dimension"
  (`docs/architecture/sqlite_vector_memory_integration.md`): the dimension is read before
  the transaction opens (`sqlite_vector.py:363`), and with a retriever per caller vectors of
  two dimensions can be committed: `SingleDimension`, which no run checks, fails like
  `ColumnsAgree`.
* Two threads inside `revoke()` of one lease both find no reason recorded, and the
  second overwrites the first.
* A lease check that notices the deadline revokes the root, after which the timer does
  not cancel the task.
* Two backups pass the existence test, and the second move replaces the first archive.
* A refresh that read before a revocation stores the envelope after the deletion.
* A reset "does not ... reset broker state" (`docs/architecture/local_integration_reset.md`),
  but `token-status.json` is in the directory it removes, so the broker then reports the
  provider as not configured while its envelope is stored.
* `documents.py:287`: converting `a.docx` to `b.pdf` moves LibreOffice's `a.pdf`, and
  with it any `a.pdf` that was there before.
* A migration that is run again overwrites its only backup with the migrated database.
* The rollback manifest names the new wheel as its artifact, where
  `docs/architecture/phase6_production_distribution.md` speaks of the previous one.
* `update.py` lets a `KeyError` of an incomplete manifest escape; `documents.py` does not
  catch `subprocess.TimeoutExpired`, nor does the command.
* `maya health summary` misses the doctor's `audit.runtime` check (`HealthCoversDoctor`
  excepts an installation on which nothing else fails); `maya setup` exits 0 when its plan is blocked; an invalid Metabase endpoint
  counts as ready.
* `plugins/memory/holographic/__init__.py:250` dispatches to methods the file does not define.
* Supermemory's `save_config` sanitises a container template before `initialize` puts the
  identity in (`supermemory/__init__.py:472` and `488`), so that the braces are gone and all
  profiles share a container, against its README (line 29). `Supermemory` models this; no
  property is stated, because that tools write only to listed containers is one guard.

## 7. How to run

    tlc -config MCSessionReader.cfg MCSessionReader
    tlapm SessionCreate_proofs.tla

## 8. Not modelled, and what remains

* Session reset and switch (patches 30, 32 to 34, 36, 37), the prompt cache and the
  projection publisher (31, 35): a second generation for an existing route.
  `SessionRegistry` would gain a step that replaces a route. The largest part that remains.
* The native governance patches: denial propagation through Hermes code that is not in
  the repository, known only as context lines of the patches.
* The tool, model and delivery middleware of `hermes_plugins/governance.py`: a decision and
  a record per call, which `LocalAPI` shows for requests; its composition with
  `RequestLease` remains.
* `hermes_plugins/candidate*.py` assembles and qualifies what other modules model and keeps
  no state after its start.
* The broker's signed messages with their replay cache, which only the conformance check
  uses; the other backends of the secret store.
* The JSON retriever and the embedding model (a development backend, and arithmetic);
  ranking, chunking and read operations of the memory.
* Honcho's setup commands and client configuration, Byterover, the HTTP clients and the
  prototypes of `plugins/memory`; `scripts/verify_phase1_package.py`, a harness of
  assertions over a built package; the command line's parsing and printing. They do input
  and output and keep no state that others rely on.
* Abstract specifications of the request leases and of the memory store, with proofs that
  the detailed modules implement them as the session modules implement `SessionRegistry`.
