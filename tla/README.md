# A verification project for rcwt-session-dynamics

The repository holds a family of experiments on what a language-model agent does
when coordination text and task text compete for a bounded context. Its later
campaigns (v2, v3, v4, R1, R2) run an agent over small fictional payment episodes:
eight requests, four invoices, facts that change between requests. They persist
every model call so that a finished campaign can be verified offline. The last
one, R2, adds a safety kernel that executes or denies what the agent proposes.

This directory models the parts of that program that have state, checks them with
TLC on small instances, and proves the safety properties with TLAPS for all instances.
Paths below are relative to the repository root.

## 1. The system

| part | code | state it keeps | operations |
|---|---|---|---|
| safety kernel | `src/rcwt_safety_r2.py` | trusted rows of four sources, consumed event and request identifiers, booked keys, ledger, two totals, step counter | `execute_step` over `_stage` and `authorize_action` |
| workflow environment | `src/rcwt_agent_env.py` | fixture scripts; `Simulator`: booked keys, ledger, totals, unsafe cents | `generate_episodes`, `expected_action`, `score_action`, `execute_action` |
| R2 campaign | `src/rcwt_r2.py` | one directory of receipts, journals, traces, corpora, report; an in-memory request meter | `prepare`, `run_stage`, `verify_run`, `report` |
| R2 analysis and selection | `src/rcwt_analysis_r2.py` | none (pure) | row metrics, paired statistics, deployment selection |
| retention policy | `src/rcwt_policy_r2.py` | none (pure) | `compact_policy`, feedback and its shuffle |
| structured memory | `src/rcwt_memory_v3.py` | one JSON text: rows of four sources, bookings, component order | `compact_structured` |
| context card, read view | `src/rcwt_context_v4.py`, `src/rcwt_retrieval_v3.py` | none (pure) | overlay and invalidation of retained rows |
| actor envelope | `src/rcwt_agent_actor.py`, `src/rcwt_decision_v4.py`, `src/rcwt_review_v3.py` | none | messages, extraction |
| model client | `src/rcwt_local_model.py` | none | one HTTP request, validated reply |
| v3, v4, R1 experiments | `src/rcwt_online_v3.py`, `src/rcwt_online_v4.py`, `src/rcwt_replication_v4.py` | one directory per cohort | prepare, run, verify, report; recorder and replayer of client calls |
| v2 pipeline | `src/rcwt_agent_run.py`, `src/rcwt_agent_memory.py` | one directory with train, validation, test | three guarded stages, policy selection, summary memory with a token cap |
| session benchmark | `src/rcwt_session_*.py` | corpus, oracle and manifest files; contexts and their sealed manifest; scores | generate, select context, seal, score |
| API experiments | `src/rcwt_controlled_resume.py`, `run_trial` of `src/rcwt_controlled.py`, `src/merge_*_shards.py`, `src/rcwt_benchmark_*.py`, `src/rcwt_provider_retry.py` | append-only trial logs per shard | ask the model, ask the judge, retry, resume, merge, aggregate |
| tasks, statistics, rescoring, curve fits, plots | the remaining `src/*.py` | none | straight-line string and float computation |
| owned runtime | `tools/rcwt_r2_runtime.ps1` | receipts of one server process | start, status, stop |
| auditors, exporters, viewers | the remaining `tools/*` | none | read-only recomputation |

How they interact. A campaign invocation (`run_stage`) creates its started marker,
generates the corpus of its phase, and for each registered decision calls the
actor twice through a meter that journals each request; the answer goes to the
kernel, the kernel's receipt and the observations go to the memory reducer, and
one row is appended to the trace. After the validation stage the rows select the
arm to deploy. A completion receipt binds the stage to hashes of its artifacts;
any exception leaves an abort receipt. Later invocations verify the whole
directory before they start, by replaying every recorded call. There is no lock:
invocations meet only through files created exclusively.

What is hard, and hard to test:

* the kernel must read the rows that arrive with the request itself, fold a whole
  step or nothing, and pay each (invoice, operation) once over any history;
* the kernel and the reference rules that grade it are separate code, in a
  different order, and both directions of a disagreement matter: an unsafe
  booking, and a false block, which vetoes deployment;
* the measuring simulator books unsafe answers on purpose, so one bad answer
  changes what every later step is graded against;
* two invocations of a campaign stage check first and create later;
* an invocation can be killed between any two files, or raise between them;
* a request budget counted in memory must bind across restarts;
* the held-out corpus must not exist before the choice of the deployed arm;
* memory evicts whole components that share rows, and the cards the actor reads
  mix what is remembered with what the current step supersedes;
* a cohort is many files: a run may raise or be killed between any two, or in the
  middle of one, and nothing of that may ever verify as complete;
* replay has to accept exactly what a run would have recorded;
* session contexts, manifests and resumable logs are several files written one
  after the other, by commands that take no lock.

`PROJECT.json` lists each of these under `hazards` at its line, with the
properties that would catch it, or the reason there is none.

What makes each component correct: for the kernel, atomic steps, single booking,
reconciled totals and agreement with the rules; for the environment, that kernel
and simulator differ only by unsafe cents; for the campaign, one owner per stage,
stages in order, finite budgets, whole and unchanging sealed evidence, late
exposure of the test corpus, one report; for memory, that retained rows are the
newest observed, that one eviction loses one component, and that the text reads
back; for the cards, that no fact shown is stale; for a cohort, one writer and no
verification of anything broken; for replay, that it accepts exactly honest
recordings; for the session benchmark, that a context holds its evidence in order
and agrees with the answer key, and that a score is of one corpus; for resumable
logs, that every cell ends with one record and is paid for once.

## 2. Modules

| module | models | by |
|---|---|---|
| `WorkflowRules` | `rcwt_agent_env.py` vocabulary, `parse_action`, source rows, `expected_action` | operators |
| `Authorization` | `authorize_action` of the kernel | operators |
| `SafetyExecutor` | `SafetyExecutor.execute_step`, observation by observation | one action per step of the call |
| `LedgerPromise` | nothing in the code: what a kernel promises | abstract specification |
| `Episode` | `_Fixture` scripts, `Simulator.execute_action`, the kernel beside it | one action per request |
| `R2Campaign` | `run_stage`, `_Meter`, `_run_trajectories`, `_run_proposals`, `verify_run`, `report` | one action per file effect |
| `OneShotPipeline` | nothing in the code: what a registered campaign promises | abstract specification |
| `MemoryLedger` | `rcwt_memory_v3.py`: rows, components, order, eviction, text; `compact_policy`'s ranking | operators |
| `StructuredMemory` | `compact_structured`, `compact_policy` | one action per observation, receipt, eviction and end of a call |
| `PublicCards` | the v3 and v4 cards and the ordered rule guide | operators |
| `AgentLoop` | `perform_step` of R2: cards, proposal, kernel, memory | composition |
| `CohortRun` | `prepare`, `run`, `verify_run` of `rcwt_online_v4.py` over cohort directories | one action per file effect |
| `StepCalls` | `perform_step` of v4 and its compactors as a program of client operations | operators `Ask`, `Take` |
| `Transcript` | `AuditedClient`, the chained rows, `ReplayClient`, `verify_run` of one episode | one action per operation and row |
| `SessionResolver` | `resolve_state`, `_topological_recent`, `_derive_gold` | operators |
| `SessionContext` | the session contract, the three treatments, `score_context` | builds a session, then its contexts |
| `SessionRelease` | `write_corpus`, the runner's `main`, `score_files`, `_atomic_write` | one action per system call |
| `TrialLog` | `rcwt_controlled_resume.py`, `run_trial` and `judge_response` of `rcwt_controlled.py`, `run_cli` of `rcwt_benchmark_core.py`, the merge of shards | one action per step of a shard's loop |
| `SafetyExecutor_proofs`, `R2Campaign_proofs` (also `Episode`), `CohortRun_proofs` (also `Transcript`), `StructuredMemory_proofs`, `AgentLoop_proofs`, `SessionRelease_proofs` (also `SessionContext`), `TrialLog_proofs` | nothing in the code: theorems | TLAPS |
| `FoldLemmas` | nothing in the code: what the folds of the community modules compute | lemmas |
| `MC*` | small instances | TLC |

**SafetyExecutor.** The committed fields carry the names of the code
(`next_step`, `completed`, `ledger`, `payout_cents`, ...). The locals of a call are
variables of their own: `task`, `staged`, `staged_event_ids`. `BeginStep` is the
head of `_stage` up to the copies, `StageMessage` and `StageRecord` are one turn of
its loop, `Raise` is every exception on the way, and `Commit` is the rest of
`execute_step`, where no exception is left. Checks that raise without any effect
(a wrong step index, a used request identifier) are guards of the action they
protect. Rows are records whose fields may be `None`; the code's missing key, null
and missing row are the same thing to every reader. The value of an amount matters
only through equality, order against zero and sums, so the instances use 0, 1, 2.

**Episode.** `Script` holds the four family schedules, with the statuses the
fixture draws as the variable `choice`. The shuffles of a step concern different
rows, so they do not matter, and neither do identifiers, chatter and seeds. The
actor is arbitrary: it answers nothing parseable, or any decision about this
case or another, with either amount. The same answer goes to both executors. A
kernel call is one step here, which `SafetyExecutor` justifies.

**R2Campaign.** Files are sets and counters: which stages have which receipt, how
many journal lines and rows each stage has, how many report files exist. An
invocation is a place in the code (`at`), the stage it was asked for, its request
meter and the snapshot that `verify_run` compares. `Kill` stops an invocation
anywhere without any handler; `Raise` and `Abort` are the exception path, in two
steps because the process may die in between. A file torn by a kill inside a
write is not distinguished from the absent or the whole file: an unreadable
receipt makes `verify_run` raise, like an absent one. Replay of calls is a
comparison of counts; hashes are taken as faithful. `prepare` is the initial state. `authors`
and `publications` are history: which invocations' present report command has written
a file, and how many commands ever did.

**StructuredMemory, AgentLoop.** The persistent text is the list of joined records
that the code encodes. A call loads it, ingests, and evicts until it fits; whether
it fits is arbitrary, so any number of evictions is tried, down to the empty
ledger. That the loop ends needs no fairness: `EvictsOneComponent` shows that each
turn shortens the order by one. `newest` is a history variable that remembers of a
retained identifier what was observed last; a row that is evicted is forgotten
there too, so a copy that came back later would be seen. `touched`, also history, is
the components that an observation of this call touched while they were components.
`AgentLoop` puts memory,
cards and the kernel's permission into the order of `perform_step`; between steps
any components may be forgotten, which is `compact_policy` under any weights.

**CohortRun.** A directory is a record of its files. `started.json` and
`completion.json` are created and then filled, so a kill leaves them torn; so is
the row being appended. `prepare` of a confirmatory cohort verifies a development
directory in two reads and copies it later, when it may have changed. Exceptions
before the `try` have no handler and are the same as a kill. `killed` and `writers` are
history. `run` and `prepare` take no lock: invocations meet at `mkdir` and at the
exclusive marker. The v3 run and the R1 replication share this life cycle.

**StepCalls, Transcript.** A step asks for operations and goes on with answers, so
the recorder and the replayer drive one program, as in the code where the two
clients are passed to one `perform_step`. Tokens are counted by one fixed function
of the text that is otherwise arbitrary: that is what `AnswersTo` says, and it is
the only assumption about the tokenizer. A hash is the content it is taken of.
After the run the log may be kept, or one row or one operation of it lost, doubled,
swapped or changed, with the chain of hashes recomputed or not. Within
`_represent` the several tokenizations of one text are one.

**SessionResolver, SessionContext.** `Extend` and `Checkpoint` build exactly the
sessions `PublicCase` accepts (references to earlier turns only). An event carries
one field of one entity. A context's size is counted in lines, each a token, and
the longer dispositions take more of them, which keeps what the selection depends
on: a longer reason can push evidence out. The answer key, `Gold`, is derived from
the session like in `_derive_gold`, with its own choice of the current version, its
own completeness and a depth-first visit: it shares nothing with the resolver, so
that a fault of the resolver cannot define its own answer key, and the proofs show
that the two agree. The shortest markers of a tiny budget have no header; the scorer
refuses such a context (`Accepted`, `framed`) and scores it neither way.

**SessionRelease.** A corpus stands for all that is generated from one seed, and an
artifact is known by the corpus it comes from; equal digests are equal corpora.
`_atomic_write` of the manifest is four steps, because the generator and the runner
share the name of its temporary file: either may rename, overwrite or unlink the
other's, and a descriptor that is still open follows the rename. Of each command
one invocation is alive at a time.

**TrialLog.** A shard's file is the sequence of its records and the state of its
end: clean, without its last newline, or unreadable. `cli` chooses between the two
command lines. They test the cap before or after a call, and a trial is two requests
in the first, the model's (`Answer`) and the judge's (`Judge`), and one in the second,
which then scores by itself. `run_trial_with_retry` catches whatever a trial raises
and starts over with the model's request, so that `Retry` and `GiveUp` are enabled
after the model's answer too, which is then dropped; the benchmark retries the
request only, and a scoring that raises ends the invocation. A request that fails may
have been answered and charged nevertheless (`MaybePaid`): a late or malformed answer
raises as well. `answered` counts what was answered, and what an SDK of a provider
repeats on its own is part of one request. Of each shard one invocation is alive at
a time; the code does not enforce it.

## 3. Runs

| run | question | instance |
|---|---|---|
| `kernel_guards` | does any raise leave a trace, and is any booking not the one the rules give? | one invoice, every kind of row, every proposal, two steps, four observations |
| `kernel_history` | do bookings, totals, requests and ledger stay reconciled over a history, and is the kernel a `LedgerPromise`? | two invoices sharing account and order, three steps, five observations |
| `episode_families` | does the kernel deny a legitimate payment, and where do kernel and simulator part? | all families, all draws, two amounts, all answers |
| `campaign_stages` | what survives three racing invocations that raise and die? | 1, 2, 1, 1 rows per stage, all four stages and the report |
| `memory_reducer` | can any history of calls corrupt, revive or mix what is retained? | two invoices that share one account and one order, three observations a call, default and learned weights |
| `agent_loop` | is the actor ever shown a stale fact, and is following the guide safe? | two invoices, three steps, four observations, any forgetting in between |
| `cohort_run` | what survives invocations that prepare, run, raise and die on cohort directories? | one development and one confirmatory directory, two invocations, two rows |
| `transcript_replay` | does replay accept exactly honest recordings? | two steps of either arm, two texts, budget 2, two components, every single damage |
| `session_context` | do the treatments agree with the answer key at every budget? | every session of up to four events on two entities, three questions, budgets 2 to 6 |
| `trial_log` | is any trial lost, never reached, or paid again without a failure? | five trials on two shards, cap 2, one retry, two kills, two errors |
| `session_release` | can a score mix corpora? | two corpora, five invocations of the writers, kills anywhere, one scorer |
| `corpus_publish` | is a corpus published atomically? (violated) | two corpora, two invocations |

Bounds. `MaxSteps` and `MaxObs` bound an episode of the kernel; three steps give
every order of first booking, duplicate, revocation and other key, and four
observations supply all four sources in one step or spread over two. `IdsInOrder`
uses event and request identifiers in order, which is symmetry breaking on opaque
names. In `campaign_stages` every stage has at least one decision of two calls, so
a kill can fall before, between and after the calls; `propose` has two rows, so
that a row can be lost after another was written; three invocations give two
racers and one more that arrives after both. The budget per stage is
`ExpectedCalls`, computed from the rows as in the code. In `memory_reducer` two
invoices sharing one account and one order give shared, detached and re-linked
rows; three observations are the least that show an account on its own, absorb it
into an invoice and detach it again within one call; calls are unbounded in number,
so an evicted row can return. In `cohort_run`
two rows let a kill fall before, between and after them, and the two invocations
are reused without bound. In `transcript_replay` two steps are the least with a
hand-over of memory and a chain, and a budget of 2 lets `_capped_text` shrink twice
and a ledger of two components be emptied. `session_context` has four events: the
least where a filler drags in a superseded version of a queried entity through a
dependency while another entity is required; budget 2 holds only a marker without
its header, 3 the whole marker or one event of a context that is ready, and 4, 5 and
6 two, three and four. In `trial_log` the
shards are unequal (3 and 2 trials), and the first exceeds the cap, so it needs a
second invocation; two errors exhaust the retry of one trial, before or after the
model's answer. In `session_release` five
invocations publish a corpus, seal it, replace it, publish it again and seal it
again while one scoring runs. `campaign_stages`, `session_release` and
`corpus_publish` reduce by permutations of invocations or corpora, which no
property tells apart; no liveness property is checked under symmetry.

`CHECK_DEADLOCK FALSE` is set where stopping is right: an episode ends after its
last request, a bounded kernel or release run after its last step, a dead campaign
or cohort refuses every command, a judged transcript and a packed session are
final, and shards whose files cannot be read refuse every resume.

Fairness. Two specifications state it. In `CohortRun`, weak fairness of what an
invocation does by itself (`Proceed`): a process that is not killed goes on, since
every model call has a timeout and everything else is local; nothing forces anyone
to start a run, to raise or to be killed, so `RunsSettle` excuses runs that were
killed. In `TrialLog`, weak fairness of each shard's `Run`, which includes `Start`: the
operator types the command again, as its `--max-new-calls` invites, and the
provider, whose errors are bounded, answers in the end. The bound is an assumption: a
judge or a scorer that fails on every answer keeps a shard from its end for ever. The rest claims no
liveness: kernel, simulator, memory and session selection are functions that do
nothing by themselves, and a killed campaign stage is by design never resumed.

The violation. `corpus_publish` shows that `write_corpus`, which its docstring
(`src/rcwt_session_generate.py:803`) says to "atomically publish all three
deterministic artifacts", replaces each of them atomically, one after the other.
The property asks only for directories that hold all three: in the counterexample a
first corpus is published whole, and the generator of a second one is killed after
it replaced the cases, which then stand beside the oracle and the manifest of the
first with no generator at work.
`session_release` shows what protects the results from it: no score accepts such a
mixture.

## 4. Properties

Kernel: `StepAtomic` (a raising call changes nothing), `BookingsFollowRules` (every
booking is the decision and amount `expected_action` gives on the rows known at
the end of that step), `LedgerSound` (no key is booked twice and the idempotency
set is what the ledger booked, the totals are the ledger's sums, every consumed step
has its own request and the ledger cites each at most once, in order), `KeepsPromise`
(the refinement of `LedgerPromise`).

Episode: `NoFalseBlocks` (the converse of `BookingsFollowRules` on generated
episodes), `KernelCoversSimulator`, `SafeRunsAgree`. `NoFalseBlocks` is not true of
arbitrary rows: the kernel also requires the currency BRL and both ownership names,
which every generated invoice has.

Campaign: `BudgetsFinite`, `CompletedIsWhole`, `TestExposedLast`,
`AtMostOneStepLost`, `PublishedOnce` (over the whole history, one report command at
most wrote report files, and from a whole campaign: what a killed publisher left is
not completed by another, nor published again), `SealedStays`, `IsOneShot` (the
refinement of `OneShotPipeline`).

Memory: `RoundTrip` (no legal history makes the reducer raise on its own text),
`RemembersNewest`, `EvictsOneComponent` (all other components still show the same
facts, shared ones included), `ObservedOutlive` (under default weights no component
that this call touched is evicted while one it did not touch remains),
`DefaultIsOldest` (ranked eviction with zero weights is the fixed reducer's).
`ObservedOutlive` speaks of components, not of rows. An account observed in a call,
then linked by an invoice, then detached by a later row of that invoice in the same
call comes back as the oldest orphan and is evicted first, although its row was
observed in this call: the comment at `src/rcwt_memory_v3.py:156` calls such an
account "not newly observed". `touched` therefore drops what stops being a component.

Agent loop: `CardNeverContradicts` and `ReadCardIsFresh` (each fact of the v4 and the
v3 card is the newest known to the kernel, or said to be unknown, or left out),
`GuideIsSafe` (an actor that follows the guide proposes money only where the rules
allow it, but for a booking that memory forgot, which the kernel catches),
`GuideIsReference` (with nothing forgotten the guide is `expected_action`).

Cohort: `OneWriter`, `ConfirmsGatedWork`, `VerifiedIsWhole`, `BrokenNeverVerifies`,
`RunsSettle`. Replay: `AcceptedIsHonest`, `GenuineVerifies`, `CapNeverOverrun` (with a
tokenizer that gives one count for one text, the compactors never return more than
the budget and never evict from an empty ledger).

Session: `EvidenceComesFirst`, `LatestIsNeverStale`, `NoFabricatedSufficiency`,
`TailNeverBeatsState` (where the recency tail is accepted and decision ready, so is
`state_latest`: the comparison cannot go against it at one budget),
`ScoredIsCoherent`. The last one excludes one window: the scorer reads the oracle's
rows and hashes its file later, and an oracle row names only its case and
checkpoint, so an oracle published in between is declared in place of the one
scored. Contexts and cases are bound row by row and have no such window.

Trial log: `PaidAgainOnlyAfterFailure`, `MergeIsWhole`, `ShardsSettle`. The first bounds
what the provider is paid for: the requests behind the records, those in the hands
of an invocation, and at most the requests of one trial per kill or exception. The
code does pay twice without a kill: when the judge fails after the model answered,
the answer is thrown away and the model asked again, by the retry or by the next
invocation. What the property excludes is that a recorded, resumed or merged trial
is ever asked for again, or that one failure costs more than one trial. The other two
say how a shard can be lost: a kill inside an append may leave a fragment, which no
later invocation can read, or a record without its newline, to which the next
invocation, ending normally, glues its own. Which of two duplicate records a merge
would keep is not checked; the shards' parts of the schedule are disjoint.

Each property has a mutant in `PROJECT.json`: a plausible bug of the mapped
definition under which TLC finds it violated. The mutated forms are in the modules,
next to what they mutate, and are marked.

A remark on the campaign. `R2Campaign_proofs` uses neither the abort check nor
`verify_run` to show that stages run one at a time and in order: the exclusive
marker and the completion receipts of all earlier stages are enough. One window is
real and left as it is: an interrupt after the completion receipt is written, but
before the `try` block is left, adds an abort receipt to a completed stage, while
another invocation may already be admitted to the next stage. `Raise` includes it.
No listed property is affected; the campaign just never verifies again.

## 5. Proofs

Every safety invariant and action property that a passing run checks is proved, for
all values of the constants that satisfy the named assumptions of the modules.
`PROJECT.json` lists the theorems. What follows is the argument of each proof: the
inductive invariant, and why the property alone is not one.

Assumptions. They say of the constants what the code guarantees: a positive
`MaxCents`, positive rows and steps, natural bounds, a `None` that is no value and no
row (`NoneAssumption`, `NoRowAssumption`), identifier sets that are finite where a
set of them is counted or ordered (`FiniteAssumption`), budgets and token counts of
at least one. TLC evaluates them on every run. `Episode`, `Transcript` and
`SessionContext` are proved in the proof module of the component they belong to
(campaign, cohort, release). Such a module extends two components, with no constant
or variable in common, so that the assumptions of one say nothing of the other; that
is why these three prefix the names of their specification (`EPSpec`, `TRSpec`,
`SCSpec`).

`SafetyExecutor_proofs`, the kernel:

* `KernelTypeCorrect`: `TypeInv`, which is `TypeOK` plus "an admitted call has a step
  left", is inductive; the last conjunct keeps `next_step` within its bound.
* `KernelBookedOnce`: from `IInv`, which adds `BookedOnce` and `PositiveBookings`
  (every monetary entry has a positive amount).
* `KernelStepAtomic`: by cases on the actions.
* `KernelBookingsFollowRules`: `AuthorizedIsExpected` shows, over arbitrary rows,
  that whatever `MonetaryAllowed` permits is what `ExpectedAction` gives.
* `KernelKeepsPromise`: every action maps to a stutter, `Learn` or `Book` of
  `LedgerPromise`, whose rules are shown equal to the kernel's module's
  (`PromiseRules`). `PositiveBookings` is needed because the promise reads a key as
  booked when its amount is positive.
* `KernelLedgerSound`: `SoundInv` adds `RequestsKnown`: the consumed request
  identifiers are as many as the steps, the one of the call in progress is not among
  them, and the ledger cites only consumed ones of earlier steps. Without it a commit
  could consume an identifier that the ledger has already cited. The totals are sums
  over a set of ledger positions; `Commit` adds the last position at most.

`R2Campaign_proofs` proves, for any set of invocations and any positive number of
rows per stage (`RowsAssumption`), every property of `campaign_stages`, and
that its types hold and one invocation at most is in flight. The
inductive invariant `IInv` has three layers:

* `Order`: an invocation past the checks of `run_stage` has every earlier stage
  completed (`PreviousSealed`), and one inside the `try` block holds a stage that
  is started and not completed (`StageOwned`). Two such stages are the same stage
  (`OneOpenStage`), and the exclusive marker admits one invocation to it, which is
  `OneInFlight` (`CampaignTypeCorrect`, `CampaignOneInFlight`).
* `Books`: the meter, the answers and the rows of that one invocation account for
  the whole journal of its stage (`Accounted`), which was empty when it entered
  (`Untouched`). Hence `CampaignBudgets`, `CampaignAtMostOneStepLost`, and, when the
  meter has reached the plan, `CampaignCompletedIsWhole`.
* what comes last: `CampaignTestExposedLast` and `CampaignPublishedOnce`, the latter
  with `PublisherLast`: whoever reports found all stages completed and, once it
  writes, is the only author there ever was.

`SealedStep` (the owner of a stage is the only one to change its files) gives
`CampaignSealedStays`. `CampaignIsOneShot` is the refinement of `OneShotPipeline`:
taking the marker is `Enter`, the completion receipt is `Seal`, and a raise, a kill or
an existing corpus inside the `try` block is `Die`, since with `OneInFlight` nobody
else is running the stage; all other steps stutter.

`R2Campaign_proofs`, the episode. `EpisodeInv` is the three properties and the types.
`NoFalseBlocks` rests on `FixtureAgree`: on rows as the fixture draws them the guard
and the reference rules agree in both directions. The other two need each other:
what the kernel pays is due on the keys the kernel booked, what the simulator grades
is due on the keys the simulator booked, and the two decisions are compared through
`KernelBooked \subseteq sim_completed` (`DueWithFewer`: what is due when more is
booked is due when less is). The families are a case split over `Script`. `Amounts` is
any function into `1..MaxCents`; the four cases and eight requests are the code's.

`CohortRun_proofs`, the cohort. `CohortInv` ties three things: what a directory may
look like whoever works on it (`Whole`: a completion only over all rows, rows only
behind a whole marker), what an invocation may count on at its place (`Holds`: past
the marker it is the creator's, torn or whole as the place says), and `Exclusive`:
one owner of a directory, who is its only writer. The exclusive creations of the
directory and of `started.json` are the only facts used: no check that `run` makes
before them is needed for `CohortOneWriter`. `CohortConfirmsGatedWork` holds because
a started confirmatory directory keeps the protocol under which it was prepared
(`ValidProtocol`), and its copy is taken once.

`CohortRun_proofs`, the transcript. `TapeInv` says that every row written so far
verifies against the memory the rows before it leave, and that replaying the
recorded events of the step in progress from its beginning gives exactly the step
in progress. The second part is what makes replay deterministic: recorder and
replayer drive the same `Take`. It is needed because an event is judged, in
`RowVerifies`, by the whole prefix before it. `StageFits` adds what the compactors
have counted at each stage, which gives `TranscriptCapNeverOverrun` for any
tokenizer that is a function. `TranscriptAcceptedIsHonest` needs no invariant of the
damage: it follows, for an arbitrary log, from the equivalence of `RowVerifies` and
`HonestRow`, row by row from the chain.

`StructuredMemory_proofs`. `MemoryInv` has four parts: the types of a call; that
the state is `Ordered` (the order holds each component exactly once) and every row
and booking it retains is the newest observed; that the same is true of what the
text would load to; and that the components touched in this call stand behind
those that were not (`ObservedBehind`). The second and third part must go together:
the properties are about the state, and a call starts from the text. Most of the
proof is about one operator, `Load`: a fold over records that puts each row back
(`MemoryRoundTrip`). That one component is lost holds for any `Ordered` memory, since
a row belongs to the records of every component that links to it
(`MemoryEvictsOneComponent`).

`AgentLoop_proofs`. The cards are of the rows after the step that is shown; what
carries over between steps is `MemoryTells`: of every identifier the memory says
nothing or the row the kernel knows, with missing fields made explicit, and, while
nothing was forgotten, says it of all. With it the overlay of the current step is
the newest row of the kernel (`AgentCardNeverContradicts`), the mask of the v3 card
hides exactly the links that the step superseded (`AgentReadCardIsFresh`), and the
guide's decision is the rules' (`AgentGuideIsSafe`, `AgentGuideIsReference`). After
the last step the code retains nothing, so `MemoryTells` is asked only before it.

`SessionRelease_proofs`, the release. `ReleaseInv`: every whole manifest, wherever it
is (on disk, in the shared temporary file, in memory), is sealed with the corpus it
is of or not at all (`ManifestsHonest`); the runner holds one of the corpus it
packed (`RunnerAgrees`); and at each place of the scorer, what it has hashed so far
agrees with what it has read (`ScorerKnows`). The temporary file has to be in the
invariant because either command may rename the other's.

`SessionRelease_proofs`, the contexts. `SessionInv`: the session refers to earlier turns
only, and each packed context has the shape of its treatment. The shapes say what
the treatment decides: which suffix the tail holds and at what cost; for the state
treatments, that what is selected is explained by what stands before it, that it is
required or of an entity not asked for, and when all that is required fits. They
rest on lemmas about the operators, for sessions of any length: `Closure` is the
least closed set (`ClosureLeast`, `ClosureClosed`), the depth-first visit of the
answer key reaches exactly it (`VisitExists`, `VisitedCloses`, `RequiredIsGold`), from the
same versions and with the same completeness (`CurrentIsLatest`, `KeyIsComplete`), and
`TopologicalRecent` lists a closed set once, dependencies first (`Ordering`).

`TrialLog_proofs`. `TrialInv`: a shard's file holds trials of its own schedule, each
once; a running invocation knows exactly what is in its file; it calls only for a
missing trial below its cap; and a finished shard has walked its schedule. The
schedules partition the trials (`SchedulesPartition`), so the merge of finished shards
is the whole schedule. `PaidAgainOnlyAfterFailure` is inductive beside these
(`BillInv`, `BillStep`): the model's answer adds one to the sum of the answers and one to
the shards that judge, the judge's moves both into the shards that hold a record, an
append moves them into a file, where the trial was missing, and a failure at any
point, which may itself have been paid for, moves at most one trial's requests to
`kills` or `errors`.

Folds and induction. The folds of the community modules are defined through
`CHOOSE` and recursion on sets, and the library's induction theorems take an operator
as argument, which no backend instantiates. `FoldLemmas` goes around both: it has
the operation of the fold as a constant operator, so that a proof module takes an
`INSTANCE` of it for each fold it meets; and it states induction over a set (the
least number of a set of naturals, `StepsInduction`, `SubsetInduction`) and not over a
predicate. Each fold of the models is shown equal to a chain of values, one per
element, and invariants are carried along the chain.

What the proofs asked of the models. `StructuredMemory` and `MemoryLedger` state a
filter of a sequence and a promotion as operators (`Among`, `Promoted`) where they were
inlined; `packed` in `SessionContext` is a function of pairs, applied to a pair;
`NoRowAssumption`, `FiniteAssumption`, `StepsAssumption` and `ComponentsAssumption`
are named where the models relied on them silently. `touched` fixes what
`ObservedOutlive` means by observed, and the attempt to prove it showed the case
described in section 4.

Model-checked only: the liveness properties `RunsSettle` and `ShardsSettle`, since
TLAPS does not reason about fairness here, and the violation of `PublishedTogether`,
which is a counterexample and not a theorem.

## 6. Not modelled, and the plan

Not modelled for good: model and API calls themselves, prompt text, tokenizers,
hashes, bootstrap and curve-fitting arithmetic on floats, plotting, dataset
loading and answer parsing. The models take an arbitrary answer or outcome where
the code calls them. Also left out, with the reason:

* the v3 run and the R1 replication: the life cycle is `CohortRun`'s;
* the v2 pipeline: its stages are guarded by existence checks that v4 and R2
  replaced by exclusive markers; the two races this leaves are listed as hazards;
* the reports of v4 and the tables and plots derived from a log: functions of
  verified evidence, computed in one pass;
* the seeded templates of the session generator: `SessionContext` takes every
  session the contract accepts, which includes them;
* fitting retention weights and shuffling feedback: floats and randomness;
  `MemoryLedger` takes any weights;
* the PowerShell runtime helper: its decisions are Windows process queries;
* auditors, exporters and viewers: read-only, stateless;
* two invocations on one shard of a trial log, and two generators or runners in one
  release: the code takes no lock and promises nothing.

More than half of the program lines of the repository are source snapshots archived
under `results/`, earlier versions and copies of the files in `src/`, and most of the
rest is prompt text, statistics, auditing and plotting: they have no state to model.

Worth proving next, each after TLC has checked it:

1. An abstract specification of a cohort (prepared, started by one, complete or dead)
   that `CohortRun` refines, as `R2Campaign` refines `OneShotPipeline`: `CohortInv`
   already holds what the step cases need.
2. The refinement of an abstract log, which records each trial once and loses only
   what was not recorded, by `TrialLog`, from `TrialInv`.
3. `SessionContext`: that no context exceeds its budget, part of `TypeOK`, from the
   shapes of `SessionInv`.
4. `AgentLoop` over `StructuredMemory`: that the forgetting the loop allows includes
   every call of the reducer, so that the two invariants compose.
