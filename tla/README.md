# what-to-eat: a TLA+ model

what-to-eat asks a user five to eight multiple-choice questions and recommends
one dish.  An LLM writes the questions and picks the dish; a local question bank
and a local pick stand in whenever it fails.  The program is one Python web
process (FastAPI on uvicorn, synchronous handlers on a thread pool, one shared
SQLite connection), a second process for the admin pages, and cron jobs that are
processes of their own.  All of them share one database file.

This directory holds TLA+ modules for the parts whose correctness depends on
order, overlap and failure, TLC configurations that check them on small
instances, and TLAPS proofs of the most important facts for every instance.
`src/` below is the repository.

## Reading the project

| file | what it is |
| --- | --- |
| `DishRounds.tla` | abstract specification: a session is a series of rounds, each decided by one dish |
| `QuizSession.tla` | one quiz session, every request that touches it, as overlapping chains of steps |
| `MCQuizSession.tla`, `QuizSession_*.cfg` | its TLC instances |
| `QuizSessionProofs.tla` | theorems about `QuizSession` |
| `Convergence.tla`, `MCConvergence.tla`, `Convergence_*.cfg` | how the questions of a session converge: classification chain, tastes, local bank |
| `ConvergenceProofs.tla` | theorems about `Convergence` |
| `LocalRecommend.tla`, `MCLocalRecommend.tla`, `LocalRecommend_pick.cfg` | the dish a session ends with when the LLM gives none |
| `LocalRecommendProofs.tla` | theorems about `LocalRecommend` |
| `Forwarder.tla`, `Forwarder_race.cfg` | the copy of the events table kept at Umami: overlapping forwarding threads and their cursor |
| `ForwarderProofs.tla` | theorems about `Forwarder` |
| `Recovery.tla`, `MCRecovery.tla`, `Recovery_header.cfg` | the recovery code of one identity: failures and the lock |
| `RecoveryProofs.tla` | theorems about `Recovery` |
| `LlmBudget.tla`, `MCLlmBudget.tla`, `LlmBudget_*.cfg` | the daily budget of LLM calls and the time of one call |
| `LlmBudgetProofs.tla` | theorems about `LlmBudget` |
| `LinkStatus.tla` | the links entry of the configuration: the probe against the operator |
| `NorthStar.tla`, `NorthStar_*.cfg` | accepts, jumps and the two programs that count them |
| `NorthStarProofs.tla` | theorems about `NorthStar` |
| `DishPool.tla` | batches of dishes with a text, produced and activated |
| `MCTables.tla`, `MCTables.cfg` | `LinkStatus`, `DishPool` and `Recovery` in one instance, one at a time |
| `AdminProofs.tla` | theorems about `LinkStatus` and `DishPool`: what the operator changes while programs of the crontab write it too |
| `PROJECT.json` | components, runs, mutants, the map from definitions to source lines, hazards, findings, theorems |

Run one configuration with
`tlc -workers 2 -config QuizSession_race.cfg MCQuizSession`, the proofs of one
module with `tlapm QuizSessionProofs.tla`.

## Inventory

**Quiz engine and endpoints** (`app/domain/quiz.py`, `app/web/quiz_api.py`,
`app/web/support.py`).
State: the row of `quiz_session` (state, step_index, question_log, result,
pending_q, swap_count), rows of `recommendation`, the mirror row in `sessions`,
`events`.  Operations: start, next question, answer, finalize, swap, accept, and
feedback, which only writes an event.  A handler reads the session without a
lock, may call the LLM for seconds outside any transaction, and writes in one or
two short transactions.  Hard: every pair of requests of one session can overlap
between those steps; an answer and its event are two commits.  Correct when:
swaps never pass the budget; a done session holds a result and that result is
its newest recommendation; the path of answers is complete; events agree with the
tables but for what is in flight or was lost; no request waits for another.

**Convergence state machine** (`app/domain/dimensions.py`, and the choice of
question in `quiz.py`).
State: none of its own; `build_state` folds question_log into a chain of nodes
and a set of locked tastes.  Operations: available dimensions, the forced drill
after two taste questions, should_finalize, validation of LLM questions, the
local bank.  Hard: three step limits and filters that give way when nothing is
left, over whole sessions.  Correct when: the chain goes down one branch; a
locked taste is not asked again; the bank does not repeat itself; a session does
not close before asking for a direction.

**Local dish pick and taste memory** (`quiz.py` `_local_recommend`,
`_recent_dishes`, `taste_summary`; `app/domain/memory.py`).
State: recommendations, memory events, the dish pool.  Layered candidates,
deduplication against recent and rejected dishes, a seeded choice.  Hard: layers
that give way, numeric thresholds.  Correct when: a pick exists, does not repeat
a dish of the session while another is left, and is the same for the same seed.

**Database access** (`app/core/db.py`).
One connection for all threads, `tx()` under a lock, `busy_timeout` 5 s against
the other processes.  Hard: reads take no lock, so a thread can see the
uncommitted rows of another thread's transaction.

**Anonymous identity** (`app/domain/identity.py`, `app/web/identity_api.py`).
State: identity row with passcode hash, failure count, locked_until.  Operations:
create, set a passcode, recover on another device, clear all data.  Hard: the
failure count is read outside the transaction that writes it, with a slow hash
between.  Meant to be correct when: five consecutive wrong codes lock, fewer
never do, count and lock agree, and a success resets both; the second is what
the run `recover_header` refutes.

**Event forwarding to Umami** (`app/core/umami.py`).
State: a cursor kept inside the `umami` configuration row, the events table.
Start-up and several endpoints spawn a forwarder that sends from the cursor and
writes the whole configuration back.  Hard: concurrent forwarders, a stale
write-back, a failing send, ids seen before their commit, ids used twice or not
at all.  Correct when: no event is skipped, and every event arrives in the end.

**LLM service and gateway** (`app/llm/service.py`, `app/llm/gateway.py`).
State: `llm_calls` rows of the day, the time budget of a call.  Daily budget
circuit breaker, retry within a total budget, the notice of a broken circuit.
Hard: the breaker counts before the call and the row is written after it;
retries at the edge of the time budget.  Correct when: the day passes its caps
by no more than the calls that were out; no attempt is given more than what is
left of the deadline; a broken circuit is announced once a day.

**Rate limiter** (`app/core/ratelimit.py`, middleware of `app/main.py`).
State: a deque of times per key.  Hard: the periodic sweep drops windows that
are in use.

**Jump redirect and north-star metrics** (`app/web/go.py`, `app/domain/jump.py`,
`app/cron/aggregate.py`, `src/scripts/recalc_metrics.py`).
State: jump tokens, accept and jump events, daily metrics.  Hard: pairing of
repeated accepts and jumps, idempotent tokens, re-aggregation.

**Link probe and admin configuration** (`app/cron/probe.py`, `app/admin.py`,
`app/core/config.py`).
State: configuration rows.  Hard: the probe reads, works for minutes and writes
all of it back; the admin's rollback restores a value read earlier.

**Batch production and pool activation** (`app/cron/batch.py`, `app/admin.py`,
`app/domain/strategy.py`).
State: `dish_pool` rows with a batch and a status.  Hard: activation during
production, rows skipped by a UNIQUE constraint.

**Page script** (`app/static/app.js`).
State: the question on the page, buttons, a telemetry queue.  Hard: answers whose
request failed, repeated clicks, a finalize that fails after a swap.

**Smaller parts.**
Environment context (`providers/env_ctx.py`: a weather cache); visit probes and
telemetry intake (`web/misc_api.py`: a weekly limit checked before its
transaction); cost close and monitoring (statistics, alert texts); backup; start-up
and pages; IP search (vendored reader); deployment scripts.

How they interact: the page calls the endpoints; the endpoints call the engine,
the engine calls the LLM service (which calls the gateway and reads the
configuration), and everything writes through `db.tx()`.  Events written by the
endpoints are what the forwarder sends and the aggregation counts.  The admin
process and the cron jobs meet the API only in the database.

## What is modelled

### QuizSession

One session of one user, and a pool of threads (`Worker`), each serving one
request at a time.

| model | code |
| --- | --- |
| `exists`, `row` | the `quiz_session` row and its columns |
| `recommendation` | the session's rows in `recommendation`, by id |
| `sessions` | the status of the mirror row `sess_quiz_<sid>` |
| `events` | how many events of each type were committed |
| `memory` | rows of `memory_events` written by accepts |
| `known` | the client holds the session's id |
| `pc`, `snap` | the stage of each handler, and what it read and will still use |
| `reply` | the last response of each thread |

A handler is cut at every point where another thread's commit can be seen:
between two reads, around the LLM call, between two transactions.  `tx()` holds
a lock over its block, so each transaction is one action.  `Start*`, `Next*`,
`Answer*`, `Finalize*`, `Swap*`, `Accept` and `Clear` are the stages of the
endpoints of the same name.  `Lose` is the process dying or a transaction
raising (another process holds the database past `busy_timeout`): what is
committed stays and the rest of the handler never runs.  Reading a row that was
deleted under the request is the `error` reply; the code raises on `None`.

`DishRounds` says what all this is for, with no requests and no threads: a round
is decided by a dish, a swap takes it back and opens the next round, at most
`MaxSwaps` times.  `SolidNext` forbids deciding a round twice, `LooseSpec` allows
it.  The refinement maps the row's `result` to the dish, `swap_count` to the
round, and the existence of the row to the phase.

`raced` remembers, for the properties, which of the two writes from a stale read
has had two threads before it at once: an answer about to write back the log it
read, a finalize about to write its result.  `PathsAreComplete` and `SolidRounds`
hold until that race; every other overlap is in them.

Abstracted: which dish the LLM or the local pick chooses (any dish); the content
of questions (a log entry is its step and its source); whether
`should_finalize` says yes between the second answer and the cap (both, since it
depends on content and is the subject of `Convergence`); the LLM's own tables; the user profile.  Left out: a read that
sees another thread's uncommitted rows (listed as a hazard); requests for a
session id the client was never told; `feedback`, whose event the reports do not
relate to the session's row; the source of a question kept for its answer.

### Convergence

One session asked and answered in turn, as the page does it.  State is the log,
the question on the page and a phase; everything else is computed from the log
by `BuildState`, `AvailableDims`, `ShouldFinalize`, `ChainOnly` and
`LocalQuestion`, operator by operator as in the code.  `AskLlm` asks any
dimension the validation and the forced drill admit, with any stop flag the
minimum admits; `AskLocal` is the bank's deterministic choice; either may be
taken at every step, since every call may fail.  `Answer` writes one of the
entries the options of such a question can carry.

Abstracted: validation is modelled by what it lets through (a question for an
available dimension; one whose wording is about spice counts as a spice
question, the reason an orthogonal answer may lock nothing); tags are the
dimensions they hit; wording is left out.  The dimension ids are those of a
small tree.  The local bank is a parameter, given in the instance with the shape
of `LOCAL_BANK`: the root, each first-level node, spice, texture.  `Candidates`
holds places of the bank, so that an item has an identity and the order of the
list is the order of the numbers.

### LocalRecommend

What `finalize` falls back to when the LLM gives no dish, or one that does not
fit.  State is the recommendation table (whose, which dish, when) and, for each
user, how far a finalize is: `LookLocal` reads the names of the user's last rows
and of everybody's last half hour, `DecideLocal` counts the rows of the half hour
and takes a dish, `Commit` writes the row, and rows of others may come in between.
`DecideLlm` is the other way to a dish: any name that fits the answers, of the pool
or not.  One user has one finalize at a time.  `Consistent` is `dish_consistent`,
`Score`, `Top`, `TiersOf`, `FirstOf`, `LeastUsed` and `Candidates` are the steps of
`_local_recommend` in their order: the tiers of the whole chain without what the user or anybody got
lately, then together without what the user got and evenly, then the beginnings
of the chain, then again what there is.

Abstracted: the hash of seed, answers and swaps that takes one candidate (any of
them); which words make a dish fit a node (`Hints`); the pool, which is the same
throughout.  Left out: a query that fails (the code goes on without its
rows); the text of the reason; the taste summary, which only fills the prompt.

### Forwarder

The handlers' transactions on one side, any number of forwarding threads on the
other.  An event is its `client_event_id`; the table is a sequence whose
positions are the ids.

| model | code |
| --- | --- |
| `committed`, `open` | rows of `events` that are committed, and those of the transaction under way |
| `NoEvent` in them | an id used up by an `INSERT OR IGNORE` that was ignored |
| `cursor` | `cursor` in the configuration row `umami` |
| `delivered` | what Umami received |
| `rolledBack` | rows that were visible once and then rolled back (for the property only) |
| `pc`, `base`, `todo`, `last` | a thread of `forward_async`: its stage, the cursor it read, the rows still to send, `last_ok` |
| `overlapped` | whether two threads ever ran at once (for the property only) |

`Insert`, `InsertAgain`, `Commit` and `Rollback` are the steps of a transaction;
`tx()` lets one run at a time.  Two facts of SQLite matter, and both were read
off the database and not assumed: the `AUTOINCREMENT` counter is a table row,
so ids of a transaction that is rolled back are given out again; and an insert
that `OR IGNORE` drops uses up an id.  Ids that it would not use up are the
behaviours without `InsertAgain`.  `Select` sees `Visible`, the open transaction
included, because every thread uses the one connection and takes no lock to
read.  `Start`, `Select`, `Send`, `SendFails`, `SentAll`, `Save` and `SaveFails`
are the statements of `forward_pending`; a send that fails may have arrived all
the same.  `Firsts` states `ORDER BY id LIMIT batch` as what the rows satisfy.
`Crash` ends all threads and the open transaction; it counts as a failure.

Abstracted: payloads; the other values of the configuration row, which the
write-back puts back as they were read (no admin page edits them).  A target
that is not configured ends the thread at once.  Not modelled: the admin's wipe
of a user, which deletes events.

### Recovery

One identity row and several devices.  Each request of a device is `Bootstrap`,
`SetPasscode` or `Clear`, of one transaction each, or a `RecoverRead` followed by
`RecoverOk`, `RecoverWrong` or `Lose`: `try_recover` reads the row, derives a
hash (slow on purpose) and writes the outcome in a transaction that does not
read the row again.  `count` is `recovery_count`, `lock` is `locked_until` as none,
running or over, `code` is what `passcode_hash` was made from.  For the properties
`streak` counts the wrong tries written since the last success, new code or
clearing, `wrong` those since the last one of these that fell between the steps of
no other try, and `overlapped` says whether a request ever came while a try was
unfinished.

Abstracted: the hash (a code matches itself only), the strength rules (`Code`
holds strong codes), the clock (`LockRunsOut` may happen at any time), the rate
limit per address (it bounds how fast tries come, not their overlap).  An update
of a row that is gone changes nothing.

### LlmBudget

Threads that run `complete` side by side.  `Check` is its look at the rows of
the day, `Attempt` one HTTP attempt of `gateway.call` with the decision to try
again, `Log` the row `log_call` writes, `Break` and `Alarm` the audit row of the
breaker and the notice that follows it outside the transaction.  `Batch` is
`qwen_copy` of the weekly batch, which calls the gateway past the breaker and
writes its rows into the same table; `Midnight` makes every later look and row
one of the next day; `Crash` and `LogFails` leave a call without a row.  Rows are
counted and summed for each day, those of `complete` also by themselves.

Abstracted: a price for each call that succeeds; the caps as constants, though
an operator may change them; kinds of failure as `retryable` or `final`; the
attempts of a call, one row together, as in the code.  The timeout of an attempt
holds for each wait on the socket, not for the attempt, and nothing bounds how
often `resp.read()` waits: an attempt takes any time (`MaxTime` bounds it in the
instance).

### LinkStatus

The `links` row of the configuration table, with its three writers.  `Ensure`
is the start of the API, `ProbeRead`, `ProbeLook`, `ProbeCommit` and
`ProbeNoVerdict` the nightly probe (the entry, then the platform, then the write,
minutes apart), and `Begin`, `Set`, `Approve`, `RollBack` and
`NoteRollBack` the three gates of the operator's change, of which two may
overlap.  `works` is which templates the platform accepts, and `Shift` changes
that; `Offered` is the default a reader is given where there is no entry.  `told`
is the entry as the audit trail tells it, read from the default on (`Ensure`
leaves no audit row), and `disturbed` says whether two writers overlapped or one
was killed, for the properties.

Abstracted: templates are model values, and only those of the one platform that
is used; the smoke test passes or fails as it likes (it looks at other rows).

### NorthStar

Sessions whose requests are one step each, since what happens inside a request
is the subject of `QuizSession`; a clock; the events in the order of their ids;
the tokens handed out.  `Go` is the redirect with its token checked and redeemed
once.  `AggregateRead` and `AggregateWrite` are the nightly aggregation: it reads
the sessions, then the events of one type after another, and requests may come
between any two of the queries.  `Found` holds how many events there were at each
of them; `Aggregated` is what the program writes from that, `Recalculated` what
`recalc_metrics.py` computes in SQL from the same tables, as sets of sessions where
the code has their numbers.

`Long` is the set of accept times from which a gap of exactly sixty seconds is
longer than `60.0 / 86400.0` days for SQLite: computed with SQLite itself, 7680
of the 86400 seconds of a day.  Abstracted: the dish slug in a token; left
out: medians, sources, visits and rates.

### DishPool

Batches and the unique rows of `dish_pool`.  `Start` picks the items, `Produce`
inserts one of them unless an older batch holds it, `Finish` sets the status at
the end, `PoolCrash` kills the process, `Activate` brings the rows of one batch
online and takes all others off.  `PoolInit`, `PoolNext`, `PoolSpec` and
`PoolTypeOK` carry the module's name, as those of `Recovery` do, because `MCTables`
and `AdminProofs` extend several modules.  `shown` and `whole` remember the last
activation, for the property.  The text of a row, its cost and which dish goes
with which tags are left out.

## What the runs show

| run | instance | shows |
| --- | --- | --- |
| `race` | 2 threads, 7 requests, 2 dishes, 2 swaps, 1 failure | what holds under every interleaving: the swap budget, the result on record, events that agree with the tables but for what is in flight or was lost, shown dishes are recommended dishes, errors only after a clear, handlers that can always go on, and the refinement of `LooseSpec`; until two answers race, complete paths; until two finalizes race, rounds decided once |
| `two_finalizes` | 2 threads, 4 requests | a documented promise that the code does not keep when requests overlap |
| `sessions` | tree of 7 nodes, 2 tastes, options that hit up to two, minima 3 and 4 | the chain descends, nothing is asked again, compulsory levels are drilled, no session closes unasked, sessions without an LLM converge |
| `five_to_eight` | the same | that such a session takes three questions: a documented promise |
| `pick` | 4 users, 4 dishes and one more name, 3 paths, 4 recommendations, 2 at a time | fresh dishes while there are any, within the answers while there are any, and an even spread over users with the same answers |
| `forward_race` | 2 threads, 2 events, an ignored insert, a rollback, a failure or restart, fair | the cursor stands only for what Umami received; no row is sent twice while threads neither overlap nor fail; every committed event is delivered as long as nothing was rolled back |
| `tables` | `LinkStatus`: 2 overlapping changes, 2 templates, the platform changes once, fair; `DishPool`: 3 batches, 2 items; `Recovery`: 3 devices, limit 3, 9 requests | without overlap the audit trail tells the entry, and whatever overlapped, links follow the platform in the end; users see rows of one batch, as many as it counted; nobody is locked before as many wrong codes as the limit since the last reset that crossed no try, and until requests overlap the count is that of failures in a row |
| `recover_header` | `Recovery` as above | that one failure may lock: a documented promise |
| `budget` | 3 threads, caps 2 and 2, 5 calls, 2 days, a batch row | the overshoot is less than one call for each thread, every timeout fits what is left of the deadline, a day is announced once |
| `six_seconds` | the same | that a call takes longer than its deadline: a documented promise |
| `north` | 1 session, 2 days of 2 ticks, 4 events, 1 swap, 1 clear, 2 events while the aggregation runs | what the day's row counts was paired by a valid token; a session counts on one day; aggregation and recalculation differ in two ways only |
| `north_recalc` | the same | that they do differ: a documented promise |

`EventsTrail` is not the same for all events.  An answer event never comes without
its step, so the answers are bounded both ways.  A `result_served` event is also
written by a finalize that is served from the row, so these run ahead of the
recommendations by as many; only their lag is bounded, and that there are none
before the first recommendation.

`tables` is one run over three components that share nothing: each is explored
while the others are where they began, so its states are the sum of theirs.

### Bounds, and why they are enough

- `Worker`: two threads give every overlap of two handlers.  The promises that
  fail need two; those that hold are proved for any number where listed below.
- `MaxRequests`: start, finalize, swap, finalize, swap, finalize and swap spend
  the budget of two and meet its limit: seven requests.  Fewer leave room for
  racing ones.
- `MaxFailures`: one loss splits a pair of commits.
- `MaxSwaps` = 2 (the configured `steady` value differs per deployment): one swap
  short of the limit and one at it.  `MaxAskSteps` = 2 in `QuizSession` only
  says from which step on questions stop.
- `Dish`: two dishes tell a kept result from a replaced one; they are symmetric,
  as are the threads (`Interchangeable`).  No run with symmetry checks liveness.
- The tree of `MCConvergence` has every shape of the real one: first levels with
  several children and with one, second levels with and without refinements.
- `MaxAskSteps` in `Convergence` is 6 in the code and 5 here, to stay small.  With
  a chain of at most three nodes and two tastes a session of five questions
  already has every mix of drill, taste and refusal.
- `MaxHits`: the tags of an option hit up to two tastes in `sessions`.
- `MinSteps` = {3, 4}, the defaults for profiled and fresh users, chosen anew at
  each question because the code reads the configuration and the profile anew.
  The admin page accepts 2; there `NeverClosesUnasked` fails, because two taste
  questions may be the whole session.  That value is not a default and no document
  speaks of it, so it is a hazard without a run.
- `Forwarder`: two threads give every overlap.  One rollback, one ignored insert
  and one failure or restart each move ids, rows and cursor apart once; the
  batch of two holds both events or, after an ignored insert, meets a gap.  More
  events than a batch holds are covered by `CursorAlwaysCovers`, which is proved
  for every batch size.
- `Recovery`: with the code's limit of five the race of three devices is too
  large; a limit of three leaves six of nine requests for new codes, clears and
  tries that overlap the lock.
- `LlmBudget`: three threads pass a cap of two together; a price that meets the
  cost cap with one call lets either cap be the one that is reached first.  Two
  attempts, a deadline of two and a floor of one have a retry with enough time
  left, with too little, and none.  `MaxTime` = 3 is the time one attempt may take,
  so a call may pass its deadline by the first attempt or by the second.
- `LinkStatus`: two changes of the operator overlap each other and the probe; one
  change of the platform, before or after the probe's look, one probe without a
  verdict.
- `NorthStar`: sessions do not touch each other in any of the counts, so one is
  enough.  A window of one tick, tokens of two and days of two make every gap
  fall inside, on the edge or outside; four events are an accept, a jump, another
  accept and a swap or an exhaustion.  `MaxMeanwhile` = 2 of them may come while the
  aggregation runs: an accept and its jump, each between other queries.
- `DishPool`: three batches over two items give a batch between two others whose
  rows it skips, all of them or one.
- `LocalRecommend`: the instance has a path that two dishes fit and a third its
  beginning, one that one dish fits, and one without direction; a user with two
  recent dishes to avoid exhausts the first two.  Half an hour is the tick of the
  pick (`Window` = 0).  One name of the LLM is not in the pool.

### Fairness

`QuizSession` assumes none.  That requests come to an answer is `NobodyWaits`: in
every state each handler that has started can take a step, whatever the other
threads did to the row it read.  A handler has no loop, so each step brings it
nearer to its response.  The code's own waits are for the lock of `tx()`, whose
holders run a few statements, and for a database held by another process, which
ends in an exception after `busy_timeout`: that is `Lose`.

`Forwarder!FairSpec` is weak fairness of `Commit` (a handler's transaction holds
no lock but its own and ends), of `Proceed(f)` (a send is cut off after five
seconds, and the rest are database statements) and of `Start(f)`.  The last is an
assumption about use: threads are started by requests and by restarts, so
`AllDelivered` says that events arrive as long as somebody uses the program.
Failures are bounded, which says that sends succeed from some time on; a row that
Umami rejects for ever stops the copy there, and `AllDelivered` does not speak of
it.  It speaks of behaviours without a rollback only, since a rollback can lose
an event (see below).

`MCTables!TablesSpec` has weak fairness of `ProbeRead`, `ProbeLook` and
`ProbeCommit` while the links are what is explored: the crontab starts a probe every
day, and its tries are cut off.  Nothing is assumed of the operator or the
platform; `LinkFollowsPlatform` speaks of behaviours in which what works stays as
it is from some time on.  Probes without a verdict are bounded, as failures are in
the other modules.

### Deadlock

`Rest` (in `QuizSession`, `Recovery` and `LlmBudget`), `LinksRest` (in `MCTables`)
and `Closed` are the only stuttering steps, and each says that nothing is under way
(all threads idle; bounds used up; no writer at work; session closed); in
`Forwarder` a thread can always be started, in `DishPool` a batch activated again.
Deadlock is checked in all of these, so a handler that could not go on would be
reported.  `NorthStar` and `LocalRecommend` really stop when the clock and the
events are used up; they have no handler that waits.

## What is proved

`QuizSessionProofs` proves, for every set of threads and dishes, every swap limit
and every number of requests and failures:

- `TypeCorrect`: `Spec => []TypeOK`.
- `RoundsInvariant`: the inductive invariant `RoundsInv`.
- `SwapBudgetHolds` and `ResultStaysOnRecord`, invariants of the race run, and
  `RoundsAreRecommended` (`EveryRoundRecommended`), which no run needs to check.
- `SessionImplementsRounds`: the session implements `DishRounds!LooseSpec`.
- `AcceptedStays`: the action property `AcceptedSticks`, proved only.
- `ErrorsAreClears` (`ErrorOnlyAfterClear`), from `BirthInvariant`: before the
  row exists nobody knows its id, so no handler can be reading it.
- `ShownIsOnRecord` (`ShownWasRecommended`), from `ShownInv`: what a handler has
  read as a result, or has decided and is about to answer with, is recommended.
- `EventsDoTrail` (`EventsTrail`), from `TrailsInvariant` for the two lags and
  `ServedInv` for what a finalize is about to log as served.
- `PathsStayComplete` (`PathsAreComplete`), from `PathsInvariant`.
- `RoundsAreSolid` (`SolidRounds`), from `SolidInvariant`; and `ResultIsSolid`
  (`ResultSolidified`) of behaviours in which no two finalizes race.

The last three hold until the race they name: two answers between their read of
the log and the UPDATE that writes it back, or two finalizes between their look at
the result and the UPDATE that writes it.  Every other overlap of requests, losses
and clears included, is allowed, so an overlap of two answers is the only way to an
incomplete path, and one of two finalizes the only way to a result that is decided
twice, which the run `two_finalizes` shows.  Reading the log in the transaction that
writes it, or a WHERE on the state in the UPDATE of `finalize`, would make the
promises hold without a condition.  `PathsInv` carries the first: what an answer
read is what the row still holds, what a finalize read is a beginning of it, the log
has one entry per step, and every recommendation's path is a beginning of it; an
answer that commits beside a finalize only makes the log longer.  `SolidInv` carries
the second: a finalize that is to commit finds its round undecided.
`ApartInvariant` says that threads that have not raced are one at most.

They assume `SessionAssumption`: the pool of threads is finite, the limits are
natural numbers and `NoDish` is not a dish.  `EventsTrail` bounds a difference of
counters by the number of threads at a stage, so each step needs how that number
changes: by one thread entering, leaving or changing stage (`FiniteSetTheorems`
on a finite pool).  Why a stronger invariant is needed: `SwapBudget` relates the counter
and the events of a row that exists, and is not inductive because a row has to be
created with no swap events yet counted, and a late `finalize` may insert a
recommendation after a clear.  `RoundsInv` adds what the row and the counters are
while there is no row, and that a deleted row never returns.  The proof goes
handler by handler: most steps leave row, recommendations and swap events alone
(`RoundsUntouched`), and the work is in `FinalizeCommit`, `Swapped`, `Clear` and
`StartCreate`.  The refinement shows that these are the only steps that are not
stutters of `DishRounds`.

`ForwarderProofs` proves, for every set of threads and events, every batch size
and any number of rollbacks, ignored inserts, failures and restarts:

- `TypeCorrect`: `Spec => []TypeOK`, the limit on a batch included.
- `ForwarderInvariant`: the inductive invariant `ForwarderInv`.
- `CursorAlwaysCovers`: `Spec => []CursorCovers`.
- `RowsAreSentOnce`: the action property `SendsOnce`, from `OnceInvariant`: until
  threads overlap or a send fails, one thread runs at most, and what was delivered
  lies before the rows it still holds.

`CursorCovers` speaks of the cursor alone; a thread that read it may write back
much later, so `ForwarderInv` says the same of every cursor a thread read, and of
what the thread sent since: nothing lies before the rows it still holds but what
is delivered, a gap, or held too.  That a batch leaves out no row before its last
one (`SelectedInOrder`) and that a thread sends the first row it holds
(`SendCovers`) carry this from step to step; `SaveCovers` uses that the write
waits for the open transaction, so that every row the thread sent has been
committed or rolled back by then.

`RecoveryProofs` proves, for every limit and any number of devices and requests:
`TypeCorrect` (`RecoveryTypeOK`), `CountAndLockAgree` (`LockIsCounted`, proved
only) and `NoEarlyLock` (`NeverLocksEarly`), from `CountInvariant`: the stored
count, and every count a request has read and not yet used, is at most the number
of wrong tries written since the last reset that crossed no try.  A reset that does
cross one cannot be the start of the count: the try brings the failures from before
it back, which is what `recover_header` shows.
`CountedInARow` (`CountsConsecutive`) and `FailuresDoLock` (`FailuresLock`) speak
of histories in which no requests overlapped; `SerialInvariant` is what they rest
on: in such a history at most one try is unfinished, and the row still is as it was
read.

`LlmBudgetProofs` proves, for every finite set of threads, any caps and prices,
any deadline, floor and number of attempts, and any number of days:
`TypeCorrect`; `WaitsDoFit` (`WaitsFitDeadline`) from `CallInvariant`, which says
that a call about to try again has enough of its deadline left;
`OvershootIsBounded` (`OvershootBounded`) from `BudgetInvariant` (`BudgetInv`); and
`NoticesHold` (`AnnouncedOnce`) from `NoticeInv`.  `OvershootBounded` is
not inductive by itself: `Check` compares all rows of the day with the caps, the
property counts those of `complete`.  `DayRows` adds that these are among the
others and that days to come have no rows; then a thread that is let in finds the
day below its caps, and the calls out with it are at most the other threads.  For
`AnnouncedOnce`, `Announcements` says that a day without an audit row has no
notice, sent or coming.

`AdminProofs` proves of `LinkStatus`, for any number of requests and templates:
`TypeCorrect` and `AuditTells` (`AuditTellsEntry`).  The property speaks of the
moments between writers; `Turns` says what holds while one is at work: it is the
only one, the probe's snapshot still is the entry, and a request has left the
entry as the trail has it, as it was sent, or as it was read, step by step.

Of `DishPool` it proves, for any finite set of items and any number of batches:
`PoolTypeCorrect` (`PoolTypeOK`) and `PoolIsOne` (`PoolIsOneBatch`).  A batch still
being produced may add rows to the one that is shown; `Started` rules that out for one that was
activated whole, since no batch starts twice.

`NorthStarProofs` proves, for any sessions, any window, token lifetime and days:
`TypeCorrect`; `CountedArePaired` (`CountedWerePaired`) from `Honest`: a jump is
only logged with a token that was minted for its session and has not run out, and
events are only added, so what a query of the aggregation found is there for good;
`CountedOnce` (`CountedOnOneDay`) from `DayInv`: what a day's row counts started on
that day, and a row in `sessions` keeps its start until it is cleared; and
`ProgramsDifferInTwoWays` (`OnlyTwoWaysToDiffer`) from `AcceptedInv`, what a
session's status says of its events.  The last compares the two programs
expression by expression, at the same moment and over the same rows: a session
counted by one and not by the other has an accept that is not its last, or a gap of
exactly the window.  Of the recalculation nothing else is proved.

`ConvergenceProofs` proves, for any tree, bank, tastes, minima and cap that meet
the named assumptions:

- `TypeCorrect`, `ChainGoesDown` (`ChainDescends`), `AsksOnce`
  (`NeverAsksAgain`) and `DrillsAreForced` (`DrillsCompulsoryLevels`), from
  `ConvergeInvariant` (`ConvergeInv`).
- `DirectionIsAsked` (`NeverClosesUnasked`), under `AsksThree`: the cap and every
  minimum are at least three.  The shipped values are; the admin page accepts two,
  and there the property fails (see Bounds).
- `BankConverges` (`LocalSessionsConverge`), under `AsksThree` and two facts of the
  shipped data: `BankInOrder`, the bank asks about different dimensions, the root
  first, nodes before exactly two tastes; and `TwoLevels`, the compulsory levels
  under the root are two.

The assumptions are read off `CHAIN` and `LOCAL_BANK`: a tree of at most four
levels whose refinements are leaves of the compulsory walk, a bank that has an
item for every node with compulsory children, naming some of them, and one about a
taste.  The instance of the run meets them and the three hypotheses.

`ChainDescends` is about the state, which is a fold of the log, so each step needs
that reading one more entry is one `Absorb` (`BuildAppend`); it is shown for the
recursive function of `BuildState` by the least number at which two folds could
differ.  `NeverAsksAgain` is about the filters of `_local_question`, each of which
gives way when it leaves nothing, so that it may ask again.  `Heard` says that what
the bank asked is settled in the state: then there is an item that passes all of
them (`FiltersHold`), none gives way, and the item taken by its place (`NthMember`)
is a fresh one.  `Pending` says the same of the question on the page.
`DirectionIsAsked` adds `UnaskedInv`: as long as only tastes were asked the session
is open, at most two are answered, and the question after the second is about a
direction.  `BankConverges` adds `AloneInv`: the bank alone asks for the direction,
then a taste, then the level below the direction.

`LocalRecommendProofs` proves, for any users, dishes, tags, answers and number of
recommendations:

- `TypeCorrect`: `Spec => []TypeOK`.  That the table keeps its bound rests on
  `Bounded`: the finalizes under way are counted with the rows.
- `PicksAreFresh` (`FreshWhileThereIs`) and `PicksStayOnPath`
  (`OffPathOnlyWhenDry`): what one local pick promises.
- `SpreadIsEven`: `Spec => []EvenSpread`.

`CandidatesAre` is the lemma the last three share: what every candidate of
`_local_recommend` is, tier by tier (a dish for the answers while one is left; one
nobody had got when the finalize looked, where there is one; the least used of them; else one that fits a
beginning of the chain).  It rests on what a search through tiers returns
(`FirstOfIs`), on the tiers being those of the chain (`TiersAre`, `TierFits`) and
on some dish being least used (`SomeLeastUsed`).  `EvenSpread` is about rows alone
and not inductive: a finalize decides by the counts it reads and writes its row
later.  `SpreadInv` adds `InTurn`, that while finalizes come one at a time at most
one pick is under way, and `FairPick`, that it is a dish used no more than any
other for the answers.  Time only takes rows out of the window, so what is all in
it after a tick was all in it before, with the same counts (`TickKeeps`).

All modules assume only their named assumptions on constants.  Every invariant and
action property that a passing run checks is a theorem, and so are the refinement
of `DishRounds` and `SolidRounds`, but for `NobodyWaits`.

Only model-checked are what speaks of ENABLED (`NobodyWaits`) and liveness
(`AllDelivered` and `LinkFollowsPlatform`), which the prover does not reach.  What a recursive definition computes for
every input is not proved either (no induction over data): `BuildState` is a
recursive function of which `ConvergenceProofs` uses one step at a time.

## Findings

Each is a sentence of the repository that a run refutes; the lines are quoted in
`PROJECT.json`.

1. A decided round can be decided again: the UPDATE of `finalize` has no guard
   on the state (`two_finalizes`).
2. A session that the local bank alone asks closes after three answers
   (`five_to_eight`), where the header of `quiz.py` and the comment of the bank say
   five to eight steps.
3. One failure may lock an identity (`recover_header`): a wrong code whose count was
   read before a new code was set, or before another device recovered, brings the
   old failures back.
4. A call of the LLM may take longer than its total of six seconds
   (`six_seconds`): the timeout holds for each wait on the socket.
5. The recalculation that is to confirm the aggregation disagrees with it
   (`north_recalc`): a session accepted again after its jump is in the one and
   not in the other, and a gap of exactly sixty seconds may be rounded away.

Disagreements that the models contain, without a run of their own:

- A finalize in flight brings a recommendation back after the user's data was
  cleared, which `src/app/web/identity_api.py:68` promises gone.
- An event can be skipped: a thread sends rows of an open transaction, and their
  ids are used again after a rollback (`src/app/core/umami.py:76` rules losses
  out).  `AllDelivered` is about behaviours without one.
- A wrong code that was being hashed while the fifth failure locked the identity
  lifts the lock (`src/app/domain/identity.py:4` says five failures lock).
- Two overlapping answers leave one log entry but advance two steps
  (`src/app/domain/quiz.py:634`).
- A swap before the first result is refused and recorded as "exhausted"
  (`src/app/domain/quiz.py:899`).
- During a forced drill the bank may ask about spice or texture
  (`src/app/domain/quiz.py:363`).
- A slower forwarding thread moves the cursor back, so that rows are sent again
  (`src/app/core/umami.py:71`).
- A call refused before midnight and written down after it uses up the next day's
  notice (`src/app/llm/service.py:105`).
- Rolling back the first change of an entry that was absent writes JSON null,
  with which the probe and the redirect fail (`src/app/admin.py:212`); a
  change made while the probe works is overwritten (`src/app/cron/probe.py:72`); an
  operator's "dead" is taken back by the next green probe; and
  `src/app/cron/probe.py:71` says that the entry is rewritten while the links
  stay dead, which it is not.
- The redirect writes the jump event before it looks at the link, and its
  dead-link branch uses names the module does not import
  (`src/app/web/go.py:29`).
- The aggregation at 02:00 counts the part of the UTC day that is over, and
  nothing counts the rest (`src/app/cron/aggregate.py:11`).  Statuses
  `abandoned` and `swapped_out` and the event `abandon` are written nowhere, and
  every session is a cold start, so the exhaustion rate can exceed one.
- Activating a batch whose rows an older batch already holds empties the pool
  (`src/app/cron/batch.py:102`); one activated while it was produced is set back
  to staged when it ends, with its later rows inactive.

## Plan

Done: `QuizSession` with `DishRounds`, `Convergence`, `Forwarder`, `Recovery`,
`LocalRecommend`, `LlmBudget`, `LinkStatus`, `NorthStar`, `DishPool`.  Left:

1. `QuizPage`, composed with `QuizSession`: buttons, lost responses, retries, and
   the source of the question on the page.
2. `RateLimit`: the sliding window and the sweep that drops a window in use.
3. The admin's wipe of a user, in step with requests in flight.

Each with its proofs: `QuizPage` is to show which of the two races that `raced`
remembers the page can produce.

## Not modelled, and why

The text of questions, reasons and pages; HTTP details; cost close, monitoring and
alert texts (read-only statistics); backup (one sequential job around SQLite's
own); start-up, migrations and deployment scripts; the IP database reader
(vendored).  The page script's buttons and queue, the rate
limiter and the visit probes are listed in `PROJECT.json` with what is missing.
