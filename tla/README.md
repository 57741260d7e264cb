# Verification of cautious-crypto-bro

cautious-crypto-bro copies trading signals from Telegram channels to a Bybit
Demo account. A post is extracted by a language model, turned into a plan of
entry legs (Strategy V2), approved by hand or by AUTO mode, executed, and from
then on supervised until the position is gone. All state that matters survives
in SQLite; the exchange is asynchronous and its account reads are not atomic.

This directory holds TLA+ modules for the way of a post from the channel to the
account and back to the operator, the TLC runs over them, and TLAPS proofs for
every value of the constants.

## 1. Inventory

Paths are under `src/src/cautious_crypto_bro/`.

| Component | State | Operations | What is hard |
|---|---|---|---|
| Execution coordinator (`execution_coordinator.py`) | none of its own; the account lock | `execute_intent`, `execute_position_action` | runs across many exchange calls, each of which can fail after taking effect |
| Bybit executor (`bybit/executor.py`, `account_reads.py`, `leverage.py`, `entry_limits.py`) | the remote account | prepare, submit primary, submit batch, cancel, reduce, read, set stops | torn reads, lost acknowledgements, cancels that are not cancellations |
| Exchange client (`bybit/client.py`, `auth.py`) | clock offset | signed request, paginated listing | a timeout says nothing about the effect |
| Position supervisor (`position_supervisor.py`) | strategy rows | `reconcile_once` | a pass decides on a snapshot that is old when it acts |
| Exit installation (`position_management/`) | expected exits, protected stop | install, replace, hand over stops, trail | an exit fills while exits are replaced; a crash in the middle |
| Store (`storage/intent.py`, `position_action.py`, `position_strategy.py`) | status of every intent, action, strategy | claims, outcomes, saves | which rows change in one transaction |
| Startup recovery (`storage/recovery.py`, `main.py`) | notices | quarantine, warning, first reconciliation | what a dead process left behind |
| Source claims (`storage/source.py`, `service.py`) | post status, leases | claim, complete, fail, retry | leases that expire under a busy worker |
| Telegram source (`telegram_source.py`, `source_recovery.py`) | cursors, session, displayed state | catch up, live updates, reconnect, login | gaps and duplicates; three tasks write one state |
| Extraction (`signals/evidence.py`, `normalization.py`, `entry_review.py`) | none | propose, check, normalise | a model that quotes selectively |
| LLM providers (`llm_provider.py`, `openrouter/`, `opencode_go.py`, `runtime_store.py`) | cooldowns and evaluations in Redis | evaluate | shared cooldowns, stale answers |
| Planner (`execution.py`, `portfolio_risk.py`, `momentum.py`) | none | plan, refresh, rebase | rounding at the risk budget, prices that move between reads |
| Candidates and delivery (`signals/`, `signal_context.py`, `contract_symbols.py`) | planning candidates, manual and AUTO deliveries, entry reviews | route, lease, deliver, acknowledge | at-least-once delivery, snapshots that are out of date |
| Zone ledger (`storage/zone*.py`, `zone_ledger.py`, `execution_history.py`) | fills by leg, query windows | enroll, bind, record, judge coverage | late evidence, bounded passes, three readings at three moments |
| Approval bot (`approval_bot.py`), supervision health (`supervision_health.py`) | notices due, progress file | buttons, notices, alerts, probe | state that changes while a message is on its way |
| Reports, dashboards, scripts, configuration | - | - | I/O and presentation |

Interaction. The approval bot, AUTO recovery and queued delivery call the
coordinator; the supervisor runs in a loop; both take the same asyncio lock
before touching the account. They share the three SQLite tables and the
exchange. The approver's skip button writes a row without that lock. The
cancellation shield (`cancellation.py`) lets a handler finish even when its
caller is cancelled, so only the death of the process cuts one short. The
supervisor hands its state to the bot, which alone talks to Telegram, so that a
slow message never delays protection.

`PROJECT.json` lists every component with its status, and the hazards of the
code at their lines.

## 2. Modules

| Module | Models |
|---|---|
| `Account` | the shared state (rows, exchange, lock and locals of its holder), account reads and cancellations as subroutines, the exchange and the clock |
| `Coordinator` | OPEN, CLOSE, REDUCE, CANCEL_ENTRIES and the approver |
| `Supervisor` | a supervision pass over one strategy |
| `System` | both behind one lock, with crash and restart; the properties |
| `Custody` | the abstract specification `System` implements: strategies take turns on a symbol |
| `Ingestion` | one Telegram channel: live events, the catch-up poll, post claims and the history cursor, with lost connections, crashes and restarts |
| `Reader` | the session the posts are read through: the reconnecting loop, the read monitor, the login command and their notices |
| `Dispatch` | one committed batch: dispatch, planning candidates, manual cards, AUTO notices, startup recovery, the recovery loop and the approver's buttons |
| `Notices` | supervision notices, alerts of paused strategies, the warning about interrupted executions, the progress file |
| `Reviews` | the delivery of an entry review |
| `Evidence` | from the model's proposals and a caption to normalised signals |
| `Routing` | which OPENs need a person: context snapshot, contract resolution, routing, and the preflight at execution |
| `Ladder`, `Planner` | the arithmetic of a plan; its life from planning to the last resting leg |
| `Exits`, `Protection` | the arithmetic of exits and stops; the installer, hand-over and trailing of one position |
| `ZoneHistory`, `ZoneLedger` | the query lanes that collect executions; the ledger and the judgement of stop coverage |
| `Providers` | evaluations over a chain of providers with shared cooldowns and a cache |
| `Client` | signed exchange requests and paginated listings |
| `MC...` | constants for TLC. `MCIngestion`, `MCNotices`, `MCPlanner` and `MCProviders` hold several modules side by side: `part` says which one moves, the others stay in their initial state; `MCZones` holds two, and each of its two specifications moves one |
| `CustodyProofs`, `LadderProofs`, `PlanningProofs`, `ProtectionProofs`, `IngestionProofs`, `DispatchProofs`, `ProvidersProofs`, `ZoneLedgerProofs` | the theorems |

**State.** `intent`, `act` and `sstatus` are the status columns; `frozen`,
`rebalance`, `installing`, `trailing` and `lastSeen` the columns of a strategy
row the supervisor decides on. `order` gives each entry leg its state on the
exchange, `held` the legs that make up the live position. `task`, `job`, `pc`
and `cont` say who holds the lock and where it is; the other locals are what the
handler remembers of its reads.

**Steps.** A handler is cut at every exchange request and every commit: between
two of its steps orders fill, cancels take effect, stops execute, TTLs pass, the
approver skips, or the process dies. An account read is two steps (`pos`,
`ord`), because the code asks for positions and orders in two requests. A
cancellation is one request per order, and its acknowledgement only moves the
order to `cancelling`, from where it may still fill. One SQLite transaction is
one step.

**Abstraction of the core.** A leg fills wholly or not at all, so a partly filled leg is
seen as filled (a position and no rest) or as live. Prices, quantities, sides
and leverage are gone: "size or average price changed" is "the position has
another set of lots". Conditions on data become choices: whether the risk cap
refuses, whether profit reached the trailing level, whether the exits on the
exchange drifted (`Override`), whether an action is too old. Approval mode is
left out; a mismatch has no effect in the code. The supervisor's pass over many
symbols is one pass per strategy; sharing a snapshot between them is a slow step
here. Placing exits and stops is a bracket: a durable snapshot, then success,
an error, or a changed position; `Protection` is about what happens inside it.

**Ingestion.** Task 0 is the poll, task *p* the live event of post *p*; each walks
through `_handle_messages`: a slot to resolve the album, the lock of the post,
a slot to deliver it, the claim, the work, the outcome. Every database call and
every wait is a step of its own; extraction and planning are one stretch of work
that ends in one of the outcomes `on_message` has. `poll_once` is a second
program on top: seeding, the lookup and the fetch of retries, the fetch of the
history, and one step per cursor saved. One channel is enough, since channels
share only the slots. An album counts as one post, so its member ids, and the
limits of 200 messages and 100 retries per poll, are gone. The number of a task
stands for its claim token: a task claims once, and each claim replaces the
token. `Boot` is the same after a restart before the first seeding, which in the
code moves with the clock. A post can be missing from the fetch of retries, not
from the history. Dispatching a committed batch is one step here; `Dispatch` is
about that step.

**Dispatch.** Two tasks deliver: the one of the post (`Batch`) and the recovery
loop (`Loop`), which before that is the startup of `_run_application`. `stage`,
`rec` and `res` are where a task is, with which record and what it has to say;
`todo` is the list it goes through, read when a phase begins. A delivery row is
due, held (`retry_after` lies ahead) or done, and `token` names the task whose
claim is current. A planning candidate has its status, its lease, and the
approval mode stored with it. `told` is what reached the approver, the only
state outside the database and the process; a button can be pressed once its
card is there.

The coordinator is reduced to what its callers see: under one lock it claims a
PENDING row of the expected mode, records an outcome later, or raises. A
withdrawal may skip waiting intents when it is claimed. `aged` stands for
`INTENT_MAX_AGE_SECONDS` and for a candidate's deadline. A step that outlasts its
own lease counts as a fault, like an exception, a cancelled task or a crash. A
stale action is claimed and failed in one step. Whether planning succeeds, and
which route it takes, is a choice within what `_open_approval_mode`,
`_position_action_approval_mode` and `original_manual` allow. The setting
`AUTO_APPROVAL_MODE` may change with each restart.

Left out: the limits of 10 and 100 records per pass and the 30 seconds an AUTO
notice waits for its own task (both only delay), and the retries of
`_reserve_recovery_notices` and `reconcile_manual_deliveries` for rows without a
delivery row (every batch and transfer writes it in the same transaction, as
`TypeOK` says, so only databases of older versions have such rows). `_recover_transferred` with AUTO disabled finds nothing: startup has
failed those rows, and no new ones appear. Of the lease of a candidate and its
token one is enough, because the loop is the only claimant.

**Reader.** Time is counted in retry periods. `run`, `watch` and `login` are where
the loop, the monitor and the command are; `heard` is the last notice the bot
confirmed, since the operator of an unconfirmed one has perhaps not seen it. A
restart forgets what was heard, as the program does. Reason texts are left out.

**Notices and reviews.** Time is counted in the 30 seconds between two notices. A
strategy is paused once: pauses are final (`QuarantineHolds`). A claim of a review
is the name of its deliverer; a lease runs out under it.

**Evidence.** A clause is the set of things the patterns of `evidence.py` find in
it, a caption a short sequence of clauses; the model may propose any actions,
with any quotation. Which words a pattern matches is not modelled.

**Routing.** An evaluation reads the store, reads the account, waits for the model
and routes on what it read. An execution is one step, as it holds the lock (it is
cut into its requests in `Coordinator`); leases and deadlines of candidates are in
`Dispatch`. Trades by a person and CLOSE actions change the
account between any two steps.

**Ladder and Planner.** Prices are integers in fractions of a tick, quantities
integers in steps, ratios exact fractions, where the code has `Decimal`s of 28
digits. Each intent has a symbol of its own; `Routing` and `System` are about
shared ones. Every read of the market returns any of the quotes; a staged MARKET
primary fills at one price per attempt. The momentum classification is any of its
answers.

**Exits and Protection.** One strategy and its position, one exchange request per
step. Cancelling entries is one step and the entry TTL is off, since `System` has
both; the history look-ups of one drift check are one step, since an order only
moves forward. The mark is any of `Marks`; break-even is the average price and
`Fee`. Somebody may set or remove the stop or cancel an exit, `MaxUser` times.
`Torn` lets an exit fill between the two requests of one account read; the runs
keep it off (section 3, divergences). `fired` says that an attached stop has
executed, or that an entry filled after its position was gone: from then on the
position is smaller than the exits were sized for, and `ExitsFitPosition` says
nothing.

**Zone history and ledger.** Time is counted in query intervals; a pass that
outlasts its interval, a malformed page and a failed request are faults. What is
sorted (due queries, a page) is a set whose members have a place in an order, and
its first member is taken. In the
ledger executions are of one lot, and the reading of positions, the reading of
orders and the ledger's transaction come in any order with trades. Coverage is
claimed under the code's own premise that the ledger is complete up to the
reading. An order that has ended does not come back: an entry whose pair has ended
and which fills on leaves the new lots without a stop. On the exchange they may get
a new pair. If that fill comes after the reading, and the new stop's execution is
recorded before the fill itself, the ledger nets it against lots of the reading;
this case is outside the model.

**Providers and Client.** A reply is one of the classes the code tells apart. A
request of the client travels by itself and may arrive after its caller gave up.
Each caller makes one call; an exchange with `odd` cursors answers with any.

**Not reachable, hence no action.** The branch that pauses several active
strategies on one symbol (`OneActiveOwner` shows it), the branch of
`_handle_closing` that waits for a live position (`ClosingIsFlat`; it would take
a position opened outside the program), the check for a withdrawn
intent after the claim (a withdrawal needs the lock), and the second check for
owned entries at the end of `_cancel_entries`. Plans of older strategy versions
are refused by the code and left out.

## 3. Runs

| Run | Instance | Checks |
|---|---|---|
| `entries` | two LIMIT intents, one symbol, two legs, one crash | `OneExposedOwner`, `KeepsCustody` |
| `actions` | one staged MARKET intent and one of a CLOSE, a REDUCE, a CANCEL_ENTRIES; one crash | `ClosingIsFlat`, `FrozenHasNoRestingEntry`, `AmbiguityQuarantines`, `CoordinatorClosesEmpty`, `LockIsReleased` |
| `fill_race` | one LIMIT intent, no crash | `FillKeepsStrategyActive`, violated |
| `ingest` | three posts, one before the enrolment window, one slot, two faults; or a session with two users, three faults, two logins | `NoPostSkipped`, `DecidedOnce`, `EveryPostIsDecided`; `SessionIsAsShown`, `ReaderSettles` |
| `deliveries` | an intent and the CANCEL_ENTRIES that may withdraw it, one fault | `DoneMeansTold`, `EverythingIsAnnounced` |
| `candidates` | an action or a candidate, two faults; or notices with three changes of state, one fault; or a review, two deliverers, three faults | `ManualNeedsApproval`, `EverythingIsAnnounced`, `CandidatesSettle`; `RecordsAreTrue`, `OperatorIsTold`; `ReviewIsDelivered` |
| `plans` | every intent of a family of shapes at seven quotes, or two resting ladders; or captions of one or two clauses; or two posts with three OPENs on aliases of one contract | `LiveRiskWithinBudget`, `CapHolds`, `PlanIsConsistent`; `ModelGivesNoAuthority`; `TwinsWaitForPerson`, `EntersUntouched` |
| `protect` | two legs of three lots, two failures, or one and an action; a box of positions for the arithmetic | `NeverUncovered`, `ExitsFitPosition`, `ExitsOnlyProgress`; `ExitArithmetic` |
| `restored` | the same position with one change by hand | `StopNeverLoosened`, `ProtectionSettles` |
| `zone_history` | three old executions and two faults; or two symbols, one with more executions than a query reads | `SweptInTime`, `ConsumedIsRecorded` |
| `zone_ledger` | two zones with native children; or one with a withdrawn neighbour, a reduction, a moved stop and a changed plan | `LedgerIsSound`, `EvidenceIsKept` |
| `providers` | two evaluations of one post, or one of two posts with a restart; or an order, a leverage call and a listing of two pages | `AnswerFits`, `FailedVendorsRest`; `CallsAreExact`; `RequestsEnd` |

Some properties are conjunctions of named parts, each stated in its module:
`PlanIsConsistent` (types, rounding, the rebase on an exact fill, slices, the
trader's target and leverage), `ModelGivesNoAuthority`, `ExitArithmetic`,
`ProtectionSettles`, `LedgerIsSound`, `FailedVendorsRest`, `CallsAreExact`,
`RequestsEnd`, `SessionIsAsShown`, `ReaderSettles`, `RecordsAreTrue`, `OperatorIsTold`,
`ReviewIsDelivered`. Properties of the core, of ingestion and of dispatch that are
proved and follow from the same arguments (`TypeOK`, `OneActiveOwner`,
`NeverResubmitted`, `QuarantineHolds` and others, section 4) are not run again.

Bounds. `MaxCrashes` is 1: a restart leaves no locals, so a second crash starts
from a state like the first. In `entries` it strikes while an intent is executed,
in `actions` anywhere; the theorems about both allow any number anywhere. `MaxPolls` is 0 or 1: one round in which the order
is still listed and one in which it is not is all a bounded loop can tell apart.
Two legs let one fill while the other rests. Two intents are needed for
ownership only; the other properties concern one strategy and one action. In
`entries` intents and legs are interchangeable (no MARKET plan), so symmetry is
sound; no run with symmetry checks liveness. In the runs of the core deadlock is
not checked: when every
row is decided and the account is flat nothing has to happen, and
`LockIsReleased` shows that no handler gets stuck. For the same reason it is not
checked where plans are executed, positions end, time is bounded or calls return.

Where a run covers several families of behaviours one at a time, its MC module
says which: `OneLeft`, `Apart`, `Pair` and `Alone`, `Shape`, `Budgets`, `Old`
and `Competing`, `Calm` and `Withdrawn`, `Shared` and `Single`, `Paired` are
conditions on the state every step keeps. They only leave out combinations of
independent events: an action does not meet the candidate of another batch, nor a
plan of one intent that of another except through open risk, which `Pair` covers.

In `ingest` posts 2 and 3 are inside the window, so one can fail while the next
waits behind it; one slot is the tightest case for waiting tasks; `MaxFaults`
bounds failed requests, missing posts, lost connections and crashes to two, so
that a crash can follow a failure. The poll never ends, hence deadlock is
checked.

In the runs of `Dispatch` two records are enough for one to be taken while the
other is under way, and for a withdrawal to reach the intent it withdraws; the
records of a batch touch each other in no other way. One fault lets a lease run
out, a send fail or the process die at every point; what is alone
gets two, so that a crash can follow a failure. The recovery loop never ends, so
deadlock is checked.

In `plans` the tick is two units, so that quotes, fills and stops fall on and
between ticks; the quotes lie on both sides of the entries and of the scale-ins;
the budget makes ladders of about ten lots, where rounding down matters, and the
cap lets one ladder in and the second only when the first risks little. A person
trades around the second post only, and the twins of the first are classified
alike; `TwinsWait` and `UntouchedEntry` are proved without these limits. In
`protect` three lots a leg leave an exit too small for the exchange; the box for
the arithmetic has both sides, caps before, between and beyond the exits, and
averages off the tick. `Sweep` is the number of intervals both lanes need for
the retention at two queries a pass. `MaxLate` lets one change follow a reading;
`SoundLedger` is proved for any number.

`FrozenHasNoRestingEntry` excepts a withdrawal whose outcome is open: after an
uncertain CANCEL_ENTRIES the code keeps a frozen row whose entries may still rest
and rebalances it. It holds while any other frozen row waits for its rebalance.

Fairness. `FairSpec` of the core assumes only that a handler that holds the lock keeps
taking steps. Requests have timeouts, loops have a fixed number of rounds, and
the shield keeps a cancelled caller from abandoning the handler. Nothing is
assumed of the exchange, the approver or the clock. Ingestion has
weak fairness of each task, of the poll (a loop with a fixed interval), of the
passing of a lease and of the restart of a dead process; the lock and the
semaphore need not be first-in first-out. Dispatch has weak fairness
of the two tasks, of the end of an execution (shown as `LockIsReleased`), of
leases and deadlines and of the restart; nothing is assumed of the approver. The
reader, the notices and the reviews have weak fairness of each task and of time;
nobody has to scan a code, and a channel may stay unreadable. `Protection` has it
for the supervisor's loop, `Providers` and `Client` for the tasks and calls,
whose requests have timeouts. In each of these faults are bounded, so what is
shown is what happens once faults stop.

Every property has a mutant in `PROJECT.json`: a version of one definition with
a plausible bug, under which TLC finds the property violated. The modules define
such a version for each part of a conjunction (`\* Mutant:`).

### The divergence of `fill_race`

`FillKeepsStrategyActive` is what STRATEGY.md (lines 93-95) promises: a fill
during cancellation keeps the strategy active. In the counterexample a position
was seen and stopped out while another leg rests. The pass cancels the leg; the
acknowledgement comes, the order is still there. `_close_if_flat` asks for
positions (none), the leg fills, it asks for orders (none), and the strategy is
saved as CLOSED with a live position nobody supervises. `_freeze_entries` and
`_cancel_entries` avoid this with a second read. `ClosedHasNoRestingEntry` holds
all the same: what is missed is always a fill, never a resting order; `Custody`
states exactly this much.

### Divergences without a run

Met while modelling; each shows up in the properties as the exception named here.

- A lifecycle action without a matching position is committed as PENDING with
  approval mode SKIPPED and resolved by the dispatch that follows, "instead of
  leaving an eternal PENDING row" (`service.py`, line 550). If the task is
  cancelled or the process dies in between, nothing looks at the row again.
- The portfolio cap is compared with the loss planned at the planning quote
  (`execution_coordinator.py`, line 569); a MARKET fill at another price is rebased
  up to its budget. `CapHolds` is about resting ladders.
- STRATEGY.md (lines 44-46) says that stops round outward to ticks. A trader's stop
  is rounded to the nearest (`execution.py`, line 243), possibly inward.
- A first level of a SHORT that rounds to zero is not a reason to reject a plan: the
  `PlannedOrder` raises, and the intent is planned again until its deadline
  (`Refusal(None)` in `Ladder`, `PlanLater` in `Planner`).
- `_cancel_stale_exits` compares one reading with another; exits that fill between
  the two requests of a reading are in neither list, and the replacement is sized
  for lots that are sold (`exit_installer.py`, line 219). `Torn` is this case.
- After an uncertain CANCEL_ENTRIES an entry may still fill. When trailing is
  activated the position is read again and its size saved without the comparison
  that pauses automation on growth (`position_supervisor.py`).
- While an interrupted trailing installation is resumed and the mark is behind the
  profit stop, every pass raises before it looks at the stop. If somebody removed
  the stop meanwhile the position stays bare and nobody is told by a pause:
  `MarkTooClose` in the parts of `ProtectionSettles`.
- "Reminders are limited to every 15 minutes" (README.md, line 180): a change
  between OFFLINE and AUTH_REQUIRED, or a connection that comes and goes, sends
  the next one at once (`source_recovery.py`, line 207).
- A warning of the reader that arrives although its send raised, or was cancelled
  before it was confirmed, is followed by no recovery notice.
- An entry that fills after a stop-out, while exits for the old size are being
  placed, makes a smaller position than they add up to; `ExitsFitPosition` excepts it
  (`fired`). They are reduce-only.
- "Compatible trader targets constrain later exits" (STRATEGY.md, line 84): with the
  default multiples 0.5, 1 and 2 and a target at 1.9 R the second exit is placed
  midway, at 1.2 R, beyond its own 1 R (`exit_installer.py`, lines 493-497).
  `PricesInOrder` bounds the first and the last only.
- Two OPENs of one post under one and the same alias are counted by the reported
  ticker when one of them cannot be resolved, so the other may be AUTO
  (`signals/planning.py`, lines 472-523). `TwinsWaitForPerson` excepts them.

## 4. Proofs

A theorem is about the `Spec` of its module, written `X!Spec` where a module
holds several, and holds for every value of the constants: any number of intents,
actions, legs, posts, records, zones, callers, faults and crashes, any prices and
policy. The only assumptions are the ones named here, which every run evaluates:
`AccountAssumption`, `IngestionAssumption`, `DispatchAssumption`, `ExitConstants`,
`ProtectionConstants`, `ProviderConstants`, `ZoneConstants`, `QueryConstants` (types
of the constants; quantities are positive), `LadderConstants` (types, and what
the validator of `StrategyV2Policy` guarantees), `PlannerConstants` (types; finitely
many intents, none twice in a batch, prices are positive), `CallConstants`,
`NoticeConstants`, `ReviewConstants`, `SessionConstants` (types, and names that
differ), `CaptionConstants` (captions are sequences of clauses) and `RouteConstants`
(finitely many OPENs; no contract has two aliases, as in `BYBIT_CONTRACT_ALIASES`).
`ExitsAlwaysFit` has two hypotheses of its own: `~Torn`, without which it is false,
and `NullIsNoPlan`, which says that the value standing for an empty column is not a
list of exits.

- `CustodyProofs`, the core.
  - `TypeOK` needs `LockOK`: who holds the lock decides whether the job is an
    intent or an action, and no subroutine returns to a subroutine.
  - `OneExposedOwner`, `OneActiveOwner`. `OwnershipInv` follows one opening
    handler. The owner check says no other strategy of the symbol is active; from
    the first list of orders without an entry no other entry rests, and only the
    handler itself could submit one; so the next list of positions without a
    position shows that nothing of theirs is exposed. One read would not be enough:
    a fill between its two requests is in neither list.
  - `ClosedHasNoRestingEntry`, `ClosingIsFlat`, `NeverResubmitted`,
    `CoordinatorClosesEmpty`, `LifecycleActionEndsEntries`. `EntryInv` says what a
    handler may conclude from its last read: while it does not submit, live entries
    become only fewer, so the last list of orders bounds them, and positions listed
    after an empty list of orders miss no fill.
  - `ImplementsCustody`: `Spec` of `System` implements `Spec` of `Custody`. A row
    that is ENTERING, OPEN_RISK, PROFIT_PROTECTED, CLOSING or UNCERTAIN maps to
    "owner", MANUAL_OVERRIDE to "person"; a lot is used once its order exists,
    resting while it is live. Every step is first shown to be one of a few moves of
    rows, orders and position (`NextMoves`); then each move is a step of the
    contract or a stutter (`MoveImplements`). `OwnershipInv` is needed for the
    absence of rivals at a submission, `EntryInv` for a row that is closed.
  - `DecisionsAreFinal`, `QuarantineHolds`, `AmbiguityQuarantines`,
    `TrailingIsKept`. `DecisionInv` ties the lock to the claim and trailing to the
    freeze.
  - `FrozenHasNoRestingEntry`: at the commit of a freeze the second list of orders
    was empty, and only an opening handler submits; a handler that opens belongs to
    a row that is not frozen.
- `LadderProofs`: what rounding to ticks and lots does to a fraction, and what a sum
  is. A sum is a recursive function over the subsets of a finite set. That such a
  function exists, adds a member at a time and grows with its summands is argued by a
  least counterexample (`WFMin` on the naturals), because the induction theorems,
  which take the statement as a parameter, cannot be used.
- `PlanningProofs`.
  - `LiveRiskWithinBudget`, `PlanIsConsistent` of `Planner`. `PlanInv` says for each
    phase what the plan, its requests and the live position are: a plan that stands
    has three legs whose losses at the stop add up to its own and stay within its
    budget; the requests carry the quantities of the legs; a leg rests, or is part of
    the position at its planned price, except a MARKET primary, which has the price
    it got until the rebase gives the other legs what is left of the budget.
    A refresh or a rebase is accepted only if the new legs pass the same checks.
  - `CapHolds`. The open risk is a sum over the intents. `WithinCap` says that the
    shares of the ladders that rest, and the loss of the one that preflight has
    admitted, stay under the cap; the account lock leaves room for one of those only.
  - `ModelGivesNoAuthority` of `Evidence`: the scopes that are searched are the
    clauses of the caption, whichever of them is quoted, so a proposal has evidence
    exactly when some clause qualifies.
  - `TwinsWaitForPerson` of `Routing` is not inductive: a retry sees one OPEN only.
    The invariant adds that the mode stored with the candidate of a twin is MANUAL,
    because when its post was planned the contract was counted twice, under the
    ticker of one of the two, whether or not the other could be resolved.
  - `EntersUntouched` rests on the second reading under the lock alone.
- `ProtectionProofs`.
  - `NeverUncovered`. Cover alone is not inductive: the hand-over cancels attached
    stops on the strength of a position stop it read earlier. `HandoverInv` says
    that if this stop is gone, the position was closed since, and its attached stops
    with it. `SoundRow` says that a row has a stop from its first installation on.
  - `StopNeverLoosened`: what a pass compares with is what it read, also when
    somebody moves the stop in between.
  - `ExitsOnlyProgress`: an exit's link is submitted again only when its
    history says that it never existed or was rejected, and an order only moves
    forward.
  - `ExitsFitPosition`. `FitInv` has two halves. `ShapeInv` says whose exits can be
    open: those the row plans, under its revision or an older one, all of one
    revision; each was on the last list of orders; and from the point where the old
    ones are known to be gone only those of the new revision. `SizeInv` says that
    what the exits of the row have sold since the last reading explains a position
    that is smaller than it read; so the quantities not yet sold, placed or to be
    placed, add up to at most the position. This is why the installer's
    comparison of the cancelled exits' executions with the lost size
    (`_replacement_fill_matches`) is enough, if positions and orders are of one
    moment: `~Torn`.
  - `ExitArithmetic`, for every plan, position and set of exits already done, not
    only those of the run (`Arithmetic` is the corollary for these). The average
    price must not be the stop itself, where R is zero and the code divides by it.
    The exits' lots are the parts of the remaining weight, rounded down, so the
    runner keeps its share; targets grow because a capped target is midway between
    its predecessor and the cap, and rounding to ticks keeps their order.
- `IngestionProofs`.
  - `TypeOK`, `NoPostSkipped`, `DecidedOnce` of `Ingestion`. `IngestInv` adds what
    the poll knows: a post it noted as delivered has a row, and while it replays, no
    post between the watermark and one still to visit is left out, so saving the
    next one leaves no gap. `DecidedOnce` needs that a batch and the COMPLETED row
    commit together and that nothing takes a row out of COMPLETED.
  - `SessionIsAsShown` of `Reader`: the loop, the monitor and the login command write
    one state; what is shown fits where the loop is.
- `DispatchProofs`.
  - `TypeOK`, `ManualNeedsApproval`, `DoneMeansTold`, `DecidedForGood` of `Dispatch`.
    Each step is shown to keep `DispatchInv` and to move rows only forward
    (`Moved`). `TaskOK` is needed because the acknowledgement does not look at the
    row: what a task sends must fit a row that others may have moved since.
    `StartupInv` is needed because `mark_failed` does not look at the status: the
    rows it cancels are still PENDING only because startup is alone.
  - `RecordsAreTrue` of `Notices`, and that a recorded delivery of `Reviews` stands.
- `ProvidersProofs`: `AnswerFits`, `FailedVendorsRest` of `Providers`, `CallsAreExact`
  of `Client`. A cached answer carries the key of its question; a listing is the
  pages up to the one its cursor names.
- `ZoneLedgerProofs`.
  - `LedgerIsSound`, `EvidenceIsKept` of `ZoneLedger`. No sum over zones is needed.
    `ReadingInv` says that an order that is not in the reading had ended, so it has no
    execution after the reading, or did not exist yet, which for a child means that
    its entry had not filled; with the code's comparison of executed and recorded
    quantities the ledger then stands, zone by zone, where the exchange stood.
  - `ConsumedIsRecorded` of `ZoneHistory`. `CursorInv`: a saved cursor stands for
    everything before it. `PageInv` carries this from reading a page to
    saving its cursor, with `Pages`: what is not on the first page of a listing comes
    after its last row. `WorkInv` says that the row of a query is the one
    the pass prepared, so a pass that is lost leaves the cursor as it found it.

Only model-checked:

- all liveness, which is beyond the prover: `LockIsReleased`, `EveryPostIsDecided`,
  `ReaderSettles`, `EverythingIsAnnounced`, `CandidatesSettle`, `OperatorIsTold`,
  `ReviewIsDelivered`, `ProtectionSettles`, `RequestsEnd`;
- `SweptInTime`, the one invariant of a passing run that no theorem states: it bounds
  a time by the number of queries a sweep takes, which is given for the instance
  (`Sweep`) and not computed from budgets, windows and symbols.

## 5. Not modelled

- Scripts, dashboards, replays and forensic tools: they work on copies or exports
  and change nothing the program reads. `scripts/authorize_telegram.py` is an
  action of `Reader`.
- Account reporting and profit attribution: read-only.
- Regular expressions, prompts, message wording, candles, image handling.
- Schema, serialisation, migrations and the repair of older databases.
- A second process (excluded by the state lock in `state_ownership.py`).

Within the core: prices and quantities (in `Planner` and `Protection` instead),
partial fills of a resting leg.

## 6. Plan

1. Proofs: `SweptInTime`, with `Sweep` computed from the constants and an invariant
   that counts the queries a sweep has left. `NullIsNoPlan` would be unnecessary if a
   row without exits held an empty list of them.
2. Composition: that `Dispatch` implements the one dispatch step of `Ingestion`,
   and that `System`'s handlers implement the coordinator `Dispatch` and `Routing`
   assume.
3. Composition of `Protection` with `Supervisor`'s installation bracket, so that
   ownership and cover are checked in one account.
