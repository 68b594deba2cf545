# Coolton, specified

TLA+ modules that model the concurrent core of coolton (a Slack and web agent),
TLC configurations that check them on small instances, and TLAPS proofs of the
properties that matter most. The reference is always the Python source; the
line ranges behind each definition are in `PROJECT.json` under `map`.

## 1. The system

Coolton is one Python process. Slack events, web requests, a scheduler and
several background pollers run on threads of that process and meet in small
stores: dictionaries guarded by a lock each, or JSON files read and rewritten
whole under a lock. There is no other coordination between threads, so what can
go wrong is mostly *between* two store operations, and at the process's death.

| Component | State | Operations | Interacts with | What makes it correct |
|---|---|---|---|---|
| **Event handlers** (`listeners/events/message.py`, `app_mentioned.py`, `shared.py`) | none | ignore, steer into the live turn, or start a turn; `!stop`, `!ban` | active runs, steering, stop and ban stores; turn pipeline | one turn per thread; no message is silently dropped |
| **Turn pipeline** (`listeners/events/turn.py`) | the call's frame | mark, record, run the agent, post, store the history, unmark, unrecord, drain the queue | all thread stores, the agent, the conversation store | every message gets an outcome; a death resumes the turn; a turn answers one sender |
| **Thread stores** (`agent/active_runs.py`, `steering_store.py`, `stop_store.py`, `inflight_runs.py`, `ban_store.py`) | the mark, the queue, the stop's time, the record and checkpoint files, the bans | one locked operation each | handlers, pipeline, run hooks | the mark never outlives its run, the queue is FIFO by sender, the record and the checkpoint belong together |
| **Conversation store** (`thread_context/store.py`) | history per thread | `get_history`, `set_history` | pipeline | a stored history never loses what an earlier turn stored |
| **Run hooks** (`agent/plan_block.py`, `agent/surfaces/web_hooks.py`) | last attempt's messages | check the stop, take the queue into a tool's result, snapshot | stop and steering stores | folded messages survive a retry; a stop halts |
| **Agent run and provider chain** (`agent/agent.py`, `fallback_cache.py`, `hcai_status.py`, `byok_store.py`) | dead and working providers, keys | try each provider and key, resume from the last attempt, checkpoint | run hooks, in-flight store | every usable provider is tried before the turn fails |
| **Web runner and conversations** (`web/runner.py`, `conversation_log.py`, `conversations.py`, `server.py`) | event log, subscribers | submit, resume, append, subscribe, repair, delete | pipeline, in-flight store | no event is missed or repeated by a subscriber; no turn spins for ever |
| **Scheduler** (`agent/scheduler.py`) | reminders, tasks and waits on disk; timers in memory | create, pause, resume, delete, fire, end early, reload at start | pipeline, steering | a wait fires exactly once; a paused task does not run |
| **Sandboxes and jobs** (`agent/sandbox_helpers.py`, `sandbox_keepalive.py`, `tools/human_control.py`, `tools/sandbox_background.py`, `background_jobs_poller.py`) | one VM per thread, users of it, pause timer, control timer, job list | connect, use, pause, arm, cancel, start/poll/kill a job, hand over the desktop | pipeline (end of turn), steering, scheduler | never paused under a user; paused eventually; a job's end is announced once |
| **Token rotation** (`agent/token_rotation.py`) | the token pair on disk and in a cache | rotate, save | Slack's OAuth service | one rotation at a time; the pair held is the one Slack accepts |
| **Bots and sign-in** (`agent/tools/slack_bot_deploy.py`, `web/bot_oauth.py`, `web/auth.py`, `oauth_server.py`) | the store of bots, install links, session cookies | create, install, register, deploy; sign in | Slack's OAuth service, sandboxes | an installed bot's token is kept |
| **Proxies** (`github_proxy.py`, `agent/tool_proxy.py`) | the accepted tokens, whose run each stands for | issue, admit, relay, look up, revoke | sandboxes, code mode | a script's call runs as the run that started it |
| **Consent and skill review** (`agent/policy_consent.py`, `skill_review.py`) | consents, prompts, staged and live skills | ask, accept, withdraw, submit, review | handlers, agent | a consent has a ground; staged files belong to a proposal |
| **Subagents and budgets** (`agent/subagents.py`, `kevinton.py`, `slack_budget.py`, `abuse_report.py`) | a run's deps: its counts, its progress | delegate, call, fail, report, stop | the turn, code mode | one budget for a turn and its subagents; progress survives a retry |
| **Huddles** (`agent/huddle/`) | sessions, joins under way, prompts; the talk's context, replies and queue | ask, approve, join, speak, interrupt, kick, leave | Slack, Chime, Deepgram | one session per huddle, always reachable; no line lost or answered twice |
| **Thread memory** (`thread_history.py`, `agent/observational_memory.py`) | what a history covers, its notes | fetch, observe, split, resume | pipeline, agent | a model is sent a sound history; no post is forgotten |
| **Code channels** (`agent/code_channel_store.py`, `mention_ids.py`, `listeners/code_channel_app.py`) | registry, claimed mentions | claim, register, archive | handlers, pipeline | one answer per mention |

The rest (model tools, prompts, views, redaction, the log viewer) keeps no
state between calls or only formats; `PROJECT.json` lists it with the reason it
is left out.

**Hard behaviours.** A handler asks *is a run active?* under one lock and queues
its message under another; a turn's `finally` block unmarks, unrecords and
drains under three. Two handlers can both see an idle thread. The process can
die between the two files one store operation writes. A run can outlive the
time after which its mark counts as stale. Timers pause a sandbox that another
thread just connected to. Pollers act on a list read earlier. A retry resumes
from a snapshot older than what was taken off the queue. `PROJECT.json` under
`hazards` lists them at the line where each bites.

## 2. How the project is built, and what is left

Each component has a module whose actions are its operations, at the grain of
one locked step or one await; its parameters are constants with a named
assumption, and its recursion is written with folds and functions so that it
can be proved about. Modules that share state are one module; those that share
none are checked side by side in one instance.

| Modules | Model | Proofs | Checked by |
|---|---|---|---|
| `Inbox` | what a thread promises to a message (abstract) | `ThreadTurns_proofs` | `turns` |
| `ThreadTurns` | handlers, turn pipeline, thread stores, restarts | `ThreadTurns_proofs` | `turns`, `outcomes`, `stranded`, `failover`, `startup` |
| `Sandbox` | one thread's VM, its users, timers, jobs | `Sandbox_proofs` | `sandbox`, `rests`, `calls_awake` |
| `ScheduledTasks`, `Reminders`, `Waits`, `TokenRotation` | the scheduler's files and timers | `Scheduler_proofs` | `services`, `rests` |
| `PolicyConsent`, `SkillReview`, `SandboxAccess`, `Mentions`, `BotInstalls` | who is answered and who may do what | `Access_proofs` | `services`, `members` |
| `ProviderChain`, `ThreadMemory`, `Subagents` | which model, what it is sent, a turn's runs and budget | `Agents_proofs` | `services` |
| `Huddle`, `PlanBlock`, `WebConversation` | what people see | `Surfaces_proofs` | `services`, `kicked`, `stream` |
| `HuddleTalk` | what is said in a huddle | `HuddleTalk_proofs` | `services` |

`MCThreadTurns`, `MCTurns`, `MCSandbox`, `MCRests` and `MCServices` instantiate
them for TLC; the other runs check a module as it is. `Services_proofs` is about
`MCServices`: the types of every part it brings together.

**Left.** Coolton's own reinstall and the web login; code channel views, desktop control and the Chime signalling
as far as they keep state; message splitting against a definition.

## 3. Threads: `ThreadTurns` and `Inbox`

Every store of the turn path is keyed by (channel, thread), so one thread is
modelled. A *worker* is the thread of one message's handler, or `Resumer`, the
thread that re-runs an orphaned turn after a restart.

| Variable | Code |
|---|---|
| `pc[w]` | where the worker's thread stands: deciding (`sent`, `queueing`), starting a turn (`loading`, `starting` .. `unlinking`), in it (`setup`, `request`, `response`, `tool`, `saving`), in its `finally` (`unmark` .. `drain`) |
| `turn[w]` | the `run_agent_turn` frame: prompt, user, given history (`base`), messages in the model's context (`seen`), `deps.last_attempt_messages` (`safe`), drain depth, rounds, attempts |
| `active` | `active_runs`' mark, as the worker that set it |
| `queue` | `steering_store`'s queue |
| `halted` | the runs whose start time precedes `stop_store`'s time |
| `record`, `checkpoint` | the two files of `inflight_runs` |
| `banned`, `history` | `ban_store`, `conversation_store` |
| `settled`, `lost`, `told`, `mishaps`, `spent` | history variables: outcomes, the workers a stop was meant for, which kinds of trouble happened, and the bounded events so far |

Each action is at most one locked operation of one store, so every interleaving
of threads at that grain is explored. `record_start` and `record_finished` are
two actions each, since the process may die between their two writes; their
lock (`LockFree`) is kept between the two. Start-up is two as well: `PopAll`
takes the record under the lock, `Resume` reads the checkpoint later and without
it (`turn.py:435`, `446`), while turns that started early go on. Such a turn may
unlink the checkpoint before it is read, or write its own in its place; what was
folded into the orphan's turn is then gone, although the comment there takes a
missing checkpoint for a turn that "died before its first model request"
(`turn.py:445`). The messages count as `lost` at that very step (`LoseUnread`).

*What is abstracted.* A message is a model value. A history is the set of
messages it covers (what it is made of is `ThreadMemory`'s), and a
`set_history` whose write fails inside the store is the turn failing at
`saving`. A response calls one tool; a tool call that is steered reads as
`ToolReturns`. Whether a tool's result is a string (and takes the queue) is
free. Times become order: two equal timestamps are not modelled. System notes
(a wait that is over, a job that finished) are messages of a sender of their
own. A drained turn runs as its sender and drops `on_behalf_of`. `TurnFails`
stands for each way the body of the `try` raises, from the plan message to
`finish_turn`. The recursion limit is 25 in the code and a bound in the runs.
When `record_start` raises for a resumed Slack turn nobody is told: its
messages count as lost, while a handler reports the error to the thread.

`Inbox` is what a thread promises, whichever handler, queue, tool result,
drained turn or file carries a message: it starts a turn or waits in line;
waiting messages are taken from the front, by one turn; it leaves a turn's
hands with an outcome; and over a death it is resumed or given up. `ThreadTurns`
implements it under waiting = `queue`, taken = what live turns have in hand
(`Custody`), saved = what the files would resume while the process is down or
starting. `Inbox` states no liveness.

| Property | Says |
|---|---|
| `MarkIsOwned` | a mark belongs to a turn that is still running, unless a write failed |
| `OnePlaceEach` | no message is queued twice, or both queued and in a turn, or in two turns |
| `NothingVanishes` | each message is settled, given up on, queued, in a turn, or in the files a restart reads |
| `OneSenderPerTurn` | a turn answers only the user it runs as |
| `CrashResumesTurn` | what is on disk during a turn is that turn's own record and checkpoint |
| `StopHitsLiveTurns` | a stop halts no turn that started after it |
| `HistoryGrows` | a save forgets a stored message only when turns overlapped or a write failed, and then none its turn was given |
| `ImplementsInbox` | the thread implements `Inbox` |
| `SteeredIsTaken` | a message queued during a live turn leaves the queue |
| `StartedIsSettled` | a message a turn is started for gets an outcome |

`mishaps` names what has already gone wrong: `overlap` (two turns at once),
`resume` (start-up resumed a running turn), `crossed` (a turn wrote its
checkpoint over the one start-up was about to read), `torn` (a death between
`record_start`'s two writes with an older checkpoint), `disk` (a write raised).
A property excludes only the mishaps that really break it, and each of those is
a hazard the code has. `OnePlaceEach` once excluded `resume` alone; its proof
did not go through, and the missing case is real: when two turns overlapped and
a failed write left a record behind, a restart pairs that record with the
checkpoint of the other turn while it runs (`TwiceInHand`). A crossed
checkpoint does the same: the resumed turn goes on from the messages of a turn
that still runs.

`HistoryGrows` holds through overlaps: when two turns run at once, the later save
drops what the earlier one stored after the later had read the history, and
that is all it can drop. A resumed turn is the exception, since it goes on from
its checkpoint and not from the history of its frame.

*Runs.* `turns` explores the union of six plans (`MCTurns`): three messages of
two people (`Busy`); a death of a turn that had folded a message in, and a new
turn beside its resumption (`Folding`); two deaths, while turns run or start (`Dying`); a death
and failing writes (`Failing`); a death and runs that outlive their mark
(`Overlapping`); a stop, a ban and runs that outlive their mark (`Barring`). A
constraint keeps each behaviour within one plan; no plan has a stop and a
death. `outcomes` checks the two liveness properties with the web hooks, two
attempts and a death. `stranded`, `failover` and `startup` show three
divergences (section 6).

*Why the bounds are enough.* Every race in the code is between two turns, or a
turn and a handler, so two turns at once and a third message to queue meanwhile
reach each pair of steps; depth 1 reaches the drained turn and the limit; one
round reaches a fold before and after; two deaths reach a death during the
recovery from a death. A message arrives once, so a finished system stops:
deadlock is not checked, here or in the other runs.

*Fairness.* A turn's thread keeps running (`WF` on `TurnStep(w)`): every wait in
it, for the model, a tool or Slack, has a timeout. A handler that decided to
queue does so, and a process that died is started again and resumes. Nobody has
to send, stop, ban or die.

*Proofs*, from `ThreadTurnsAssumption` alone (types of the constants; the
resumer and `None` are not messages), for every number of messages, users,
rounds, attempts, stops and deaths:

* `TypeInvariant`, `MarkNeverOutlivesRun` (`MarkInv` adds `ResumerIsIdle`: the
  resuming thread is never live while the process starts),
  `TurnAnswersOneSender` (adds `RecordHasOneSender`, since a restart turns the
  record into a turn), `StopNeverHitsLaterTurns`.
* `MessagesAreInOnePlace` and `NoMessageVanishes` hold only together, as
  `InboxInv`: a queued message is new to every turn and file (`QueueIsFresh`);
  what a turn was given already has its outcome (`StoredIsSettled`); two live
  turns are a mishap (`OneLive`); the record belongs to a running turn as long
  as a recorded turn runs (`RecordHasOwner`) and otherwise to nobody's hands
  (`OrphansAreFree`); no two hands meet (`HandsApart`, needed because a save or
  a drain moves messages between a turn's fields); and the files are spare once
  a turn was recorded over them (`FilesAreSpare`), which is what lets
  `record_start` overwrite them.
* `CrashResumesTheTurn` and `StoredHistoryGrows`, with `CalmInv`: as long as
  nothing went wrong, the record is the turn's own (`RecordIsOwn`), what the
  files would resume knows its prompt and the history (`CheckpointFits`), and
  each turn's context holds its prompt and the stored history, before, during
  and after the model runs (`TurnsAreSound`).
* `ThreadImplementsInbox`: the initial states map, and each action maps to an
  `Inbox` step or a stutter, under `InboxInv`; the deaths and restarts are
  `Die` and `Resume` (which takes what is saved in one step or in two, or finds
  it gone), the drain and the fold into a tool's result are `Take`.

## 4. Sandboxes: `Sandbox`

One thread's sandbox, with every thread of the process that touches it: the
tool calls of the turn (`Calls`), the turn's end (`Turn`), the huddle's capture
(`Screen`), the poller, control's timer, a deletion and the keepalive timers.

| Variable | Code |
|---|---|
| `th[t]` | where a thread stands (`pc`), what it is doing (`kind`), its sandbox object, its job and the status it read |
| `stored`, `vm` | the id in `thread_sandboxes.json`; each sandbox's state at E2B |
| `inUse`, `running` | `sandbox_helpers._in_use`, `_running` |
| `entry`, `timer`, `keepalive` | `sandbox_keepalive._timers`, each Timer's state, `deps.sandbox_keepalive_seconds > 0` |
| `control` | `human_control._timers` |
| `registered`, `job` | `background_jobs.json`; each job's process |
| `announced`, `mishaps`, `spent` | history variables |

A tool call goes through `getting` (and `saving` when a sandbox is created),
`adding`, `working` and then the endings its kind has in the code: `arming`,
`pausing`, `exiting` or `leaving` its `sandbox_use` block. The thread's lock is
the state: an action that takes it is one step, except creation, which holds it
from `getting` to `saving` (`LockFree`). A Timer that fired and was not stopped
still runs its two steps, `DropEntry` and `TimerPauses`, even after `Cancel`:
`Timer.cancel` does not stop it any more.

*What is abstracted.* Seconds: a countdown may end at any time. E2B's own pause
one hour after the last connect, and commands that outlive it, are left out, as
are a job whose launch was reported as failed, tools of a failed attempt that
outlive it, and control's timer racing the timer of a newer control (that is
control expiring early). The poller's list may be older than its question:
`StartPoll` picks a job and anything may happen before `Connect`. What an
announced job does to the thread (steer or wake) belongs to ThreadTurns.
`Arm` reuses the Timer it stops, so that two Timers are one that fired and one
that counts; with one Timer, `Arm` waits for a firing one to end.

| Property | Says |
|---|---|
| `UseIsCounted` | `_in_use` is the number of open `sandbox_use` blocks |
| `UsersStayAwake` | nothing in coolton pauses the sandbox of an open block |
| `OneSandbox` | a thread has one awake sandbox, the stored one or about to be |
| `AnnouncedOnce` | the poller announces a job's end at most once |
| `SandboxRests` | an awake sandbox nothing needs is paused, or needed again |
| `JobsFinish` | a job on the list leaves it |

The exceptions these state (`mishaps`) are what the code does: a deletion
orphans a sandbox created meanwhile, a death or a failing provisioning between
creating and storing leaks one, a failed pause leaves it awake.

*Runs.* `sandbox` follows one of three plans from its start (`MCSandbox`): two
calls of any kind at once in one turn and a sandbox E2B recycles (`Together`);
two turns with a call each, a failure, a deletion and a death (`Faulty`); a call
beside the huddle's capture over two turns (`Watched`). A pause races a user in
pairs, so these reach every pair; one job is enough, since the list matters only
as empty or not, and one recycling makes a second sandbox. `rests` checks the
liveness properties; `calls_awake` shows a divergence.

*Fairness.* Threads go on (remote calls have timeouts), armed timers fire, turns
end, the poller polls, and a job that again and again has time to run ends
(`SF`). `BetweenPolls` states that a countdown, minutes long and restarted by
each poll, does not end in the middle of every poll (`BG_JOB_KEEPALIVE_SECONDS`
is chosen so, `sandbox_background.py:48-52`). Nobody has to call, hand over,
delete, fail or die. In `rests`, APScheduler also keeps running the reminders'
job, time passes for reminders and backoffs, a due wait is served and a waker
goes on.

*Proofs*, from `SandboxAssumption` alone (finitely many calls, the threads
differ, `Nil` is no sandbox, timer or job, bounds are numbers):

* `TypeInvariant`, `UseCountIsExact` and `NeverPausedUnderUser`, inductive only
  together (`IInv`): `UseIsCounted` makes a pause that read `_in_use = 0` find
  no open block; `Shape` says which kinds of call can stand where; `Held`
  extends `UsersStayAwake` to a sandbox just created. An action that neither
  opens nor closes a block is `Quiet`.
* `CallersShareOneSandbox` (`BoxInv`): while nothing went wrong one thread at
  most is creating (`OneSaver`), what a call holds is the stored sandbox
  (`HeldIsStored`), and what is awake is kept (`AwakeIsKept`).
* `EndIsAnnouncedOnce` (`PollInv`): a job that is listed, or whose end the
  poller is about to announce, has not been announced (`ListedIsNews`), and a
  new launch never reuses a job (`LaunchesAreNew`).

## 5. One at a time: `MCServices`

The parts below share no state. `MCServices` starts in the initial states of all
of them and lets one act (`focus`), so that the instance has the sum of their
states; a property of a part is checked while that part acts. Some bounds are
combined, one line per part in `Next`: a budget for the events that may go
wrong together (`consentSpent`, `reminderSpent`, ...), the stored posts or lines
at once, tokens that age or a proxy that restarts, and for bots the crossing of
saves, after which its property claims nothing. Two of everything that races
and one or two faults reach each pair of steps and each step's failure; the
theorems have no such bounds.

**`ProviderChain`** (`agent.py`, `provider_config.py`, `fallback_cache.py`,
`hcai_status.py`, `provider_probe.py`). A turn's frame builds its order from the
priority list, the tags, the user's endpoint and the cache, tries models, keys
and retries; other turns, Jev, the probe and the maintainer write the same
cache. `WorkingIsNotDead`: the provider tried first is never one marked dead.
`EveryModelTried`: a turn fails only when each model of its order was called or
is of a family found out during that turn.

**`ThreadMemory`** (`thread_context/store.py`, `thread_history.py`,
`observational_memory.py`, `agent.py`). A message is what it is (log, request,
call, result, answer) and the posts it holds. A turn fetches what it has not
seen, observes and splits, attempts, resumes from a checkpoint, saves.
`SentIsSound`: what a model is sent leads with the system prompt, pairs calls
and results and holds what is asked. `NothingForgotten`: every post up to
`last_seen_ts` is in the stored history, but for those the code lets go of, which
are collected in `letGo`: posts whose text occurs somewhere in the stored
history (`thread_history.py:155` takes any substring for the post itself, so a
second "yes" is skipped; which posts do is free, `echoes`), those past
`MAX_TOTAL` (`thread_history.py:51`) or `MAX_CONTEXT`, and those of skipped
turns, expired threads, failed fetches and queues that died. A page of the fetch
is one post; a post that cannot be converted is left out.

**`PlanBlock`** (`plan_block.py`, `thread_status.py`). The tasks of a plan, their
continuation in a second message, failures, the session's timer. `EndsAreShown`:
a turn that is over looks over, in every message of its plan and in Slack's
status.

**`Subagents`** (`subagents.py`, `kevinton.py`, `slack_budget.py`,
`abuse_report.py`, `code_mode`'s calls). Runs with deps of their own, calls in
parallel. `BudgetIsShared`: one budget of Slack calls for a turn, its subagents
and their programs. `ProgressIsKept`: a subagent's next attempt goes on from its
own latest response. Subagents end with their notes merged back, which a test
can reach and no property is about.

**`WebConversation`** (`web/conversation_log.py`, `conversations.py`,
`runner.py`, `surfaces/web.py`). The log, its subscribers, writers, deletion and
start-up repair. `OpenHasTurn`: a log that shows an open turn has one, or a
repair. `StreamsCatchUp`: a connected tab that has emptied its inbox has every
event. Its exceptions (`overtaken`) are events told after a later one, and those
whose writer died between writing and telling after a later one was told: the
second case was missing until the proof asked for it.

**`Huddle`** (`huddle/__init__.py`, `session.py`, `chime.py`): requests,
prompts, approvals, joins, kicks, the start and the loss of a session.
A `leave` stops one session of the channel, whichever there are. A kick looks
twice, at the joins under way and then at the sessions, and others move in
between; one kick at a time is between its looks. `SessionIsReachable`;
`KickReachesJoin`: what a kick or leave finds is asked to stop, but for
`missedJoins`: a join that got into the kicked huddle under another key (it
started a huddle, or found another than it was asked into) and is not
registered at the second look, and a leave's second session. **`HuddleTalk`** (`session.py`,
`voice_agent.py`): turns of speech, speculative replies, interruptions, typed
messages and tasks. `LinesAreKept`: every line is in one place. Two slips are
excluded by `slipped`: a reply put in the place of an unfinished one, and context
taken or trimmed during `_end_turn`'s await. An interrupted prompt goes back in
front of the context and may make it longer than `_HEARD_LINES`; the next line
that is remembered drops as many as are too many.

**`ScheduledTasks`**, **`Reminders`**, **`Waits`** (`scheduler.py`).
`FileRules`: once nobody changes a task its timer exists exactly when the file
says it is active, and a paused or deleted task posts at most what was under
way. `DeliveredOnce`: a reminder is posted once, and once more per post coolton
did not get to note. `WokenOnce`: timer, early end and restart wake a
conversation once. A save that raises (`FiringFails`) leaves the wait pending
without a job until a restart, and a wake-up may fail after the save
(`WakeFails`); `WaitsWake` says that nothing else loses one. `RemindersSettle` and `WaitsWake` (run `rests`) are the
liveness sides. **`TokenRotation`**: `PairIsAccepted`.

**`PolicyConsent`** (`policy_consent.py`, `policy_actions.py`,
`policy_membership.py`, `app_home_opened.py`): four parties write one file.
`ConsentHasGround`: unless the event of their leaving is still to come, a
recorded consent means membership or an opt-in since the last leave or opt-out,
whoever wrote last. The exception (`muddled`): their leaving was handled between
another thread's look at the members and its write, or lost with the process.
The membership check is modelled as tests see it (`DictResponses` true), which
includes what a real client gives, since its answer may always be "no"; the
other value is for the run `members`. **`SkillReview`**: `StagedIsPending`,
staged files belong to a waiting proposal or a running call. **`SandboxAccess`**
(`github_proxy.py`, `tool_proxy.py`, code mode): `CodeRunsAsItself`, a script's
tool call runs with its own run's deps, and a run that is over stays registered
only where a write of its files failed, between the registration and the `try`
that ends it (`WriteScript`). **`Mentions`** (`message.py`,
`app_mentioned.py`, `code_channel_app.py`, `mention_ids.py`): `AnsweredOnce`,
over up to three events per message and a channel that becomes a code channel.
**`BotInstalls`** (`slack_bot_deploy.py`, `bot_oauth.py`): `InstallIsKept`, a bot
whose page said "App installed" can be deployed, although the exchange waits for
Slack while others load and save the store.

*Proofs of these parts*, each of its own specification and from its own
assumption alone (types and disjointness of the constants):

| Theorem | Inductive invariant and why it is needed |
|---|---|
| `EachWaitWakesOnce` | `WaitsInv`: a wake-up is in one place (the waker that saved it, the queue, the executor or delivered), and only the waker that saved it carries it |
| `EachReminderIsDeliveredOnce` | `RemindersInv`: each post but the one at hand was noted or is doubtful (`PostsAreNoted`); the list at hand is still pending (`ListIsPending`) |
| `TheFileRules` | `TasksInv`: while a call is between file and timer the difference is that call's (`JobFollows`); only a task that was active lets a firing on (`PostsFollow`) |
| `HeldPairIsAccepted` | `RotationInv`: one rotator at a time holds the pair Slack will accept (`OneRotates`, `PairInHand`) |
| `ConsentIsGrounded` | `ConsentInv`: whoever is about to be recorded as a member is one, or their leaving is still to be handled (`GrantIsFresh`); who is neither a member nor willing has a leaving to come as long as they consent (`LeftInNews`) |
| `StagedFilesAreForSomething` | `SkillInv`: only an install stages, a call waits exactly while its proposal does, and a call with staged files is not over |
| `ScriptsRunAsTheirRun` | `AccessInv`: one run is active (`OneActiveRun`), a registration is that run's or of one whose files could not be written (`RegisteredRuns`), the active run's own registration replaced any older one (`RunningIsRegistered`), a request's token is of its run (`RequestsAreOwn`) |
| `EachMessageIsAnsweredOnce` | `MentionsInv`: per message, who may still take it, by which listeners it will be heard and whether a claim stands |
| `InstalledIsReady` | `InstallInv`: a call between load and save holds the current store while none crossed (`CopyIsCurrent`), with the token (`CopyHasToken`); an app is created once (`CreatedOnce`) |
| `PreferredProviderIsAlive`, `NoModelIsPassedOver` | `ChainInv`: probe results do not contradict (`ProbesAreSettled`); every model before the frame's place was tried (`WalkIsComplete`) |
| `MessagesSentAreSound`, `NoPostIsForgotten` | `MemoryInv`, together: base, history, messages, progress, checkpoint and result each know the thread and pair up, since each may become another |
| `SessionsStayReachable`, `KicksAreHeard` | `HuddleInv`: one join per key, marked (`KeysAreHeld`); a session not told to stop is known (`SessionsAreKnown`); a kick left a mark or a stop, or has its second look still to come (`KicksArrive`) |
| `ATurnThatIsOverLooksOver` | `PlanInv`: messages that were left show ended steps (`LeftAreFinished`) that no other shows (`LeftAreApart`, `StepsAreNew`), and the last one shows what the plan says (`LastIsShown`) |
| `AnOpenConversationHasATurn`, `TabsCatchUp` | `WebInv`: numbers rise; an open log has a turn (`TurnsShown`); a tab's inbox was told, what is behind its mark it has or never will, and the rest is coming (`TabsFollow`) |
| `EveryLineIsKept` | `TalkInv`, of a session that made no slip: a line is in one element of the context, waiting, being answered, in the history or let go of (`Placed`); the reply being said is the only confirmed and unfinished one (`InOrder`); an early reply was asked with exactly the front of the context, as long as it counts (`Fits`), so that to confirm it takes what it answers |
| `TurnStaysInBudget`, `ASubagentKeepsItsProgress` | `BudgetInv`: no call is made that its deps have not counted; `ProgressInv`: the checkpoint an attempt would read is the latest, and no subagent is begun twice |

Where the code takes the first or the last of a sequence (`CHOOSE` of a place:
the next model, the split of a history, the log's last turn event), the proof
first shows there is one: `LeastNumber`, from the well-foundedness of the
natural numbers. `NoModelIsPassedOver` is about any order of the chain, which is
stronger than the ones it builds. Those are filtered by `Sifted`, a recursive
function (the provers cannot open `SelectSeq`): that it yields a sequence over
what is kept (`SiftedKeeps`) is shown by the same smallest-number argument, on
the least length for which it would not.

`HuddleTalk` has methods that call one another on one record, and its proof
follows them: what appending, cutting or prepending does to where the lines are
(`PlacedRemembered`, `PlacedTrimmed`, ...), then what each method does to a
record that is in order, then each action as the methods it calls.

`ServicesAreTyped`: the types of all sixteen parts, in the system of
`MCServices`. Several are not inductive by themselves. That a post a run speaks
of exists (`MemoryFits`) goes through every place a run can have a history from;
that a turn's place is in its order (`ChainTypes`) needs the filter's lemma; a
skill's folder is typed only because the call that changes it is; a log's events
need `WebInv`. So each part has its invariant and what that leaves open, and
`ServicesInv` says it of the part that is at work: `OnePartMoves` gives it a step
of that part's own specification.

## 6. Runs that show a disagreement

| Run | Property | What the code does |
|---|---|---|
| `stranded` | `NothingStranded` | a message queued after the ending turn's last look at the queue is answered by nobody, against `steering_store.py:7-8` |
| `failover` | `FoldedIsKept` | a provider failing after a tool returned loses the round and the messages folded into it, against `plan_block.py:551-552` |
| `startup` | `OnlyOrphansResume` | start-up resumes a turn that is running, against `inflight_runs.py:116-117` |
| `calls_awake` | `CallsStayAwake` | a command's end pauses the sandbox under a parallel file tool, against `sandbox_helpers.py:15` |
| `members` | `MembersAreFound` | someone Slack lists as a member of the policy channel is asked to opt in: `policy_consent.py:33` looks for a dict, and slack_sdk's client answers with a `SlackResponse`; against `tests/test_policy_consent.py:18-19`, whose mocks are dicts |
| `kicked` | `LeftIsOut` | a kick while coolton is connecting leaves it in the call, out of reach, against `huddle/__init__.py:92-94` |
| `stream` | `StreamHasNoGap` | two writers tell in the other order and a tab drops an event, against `conversations.py:152-154` |

## 7. What is proved, and what is only model-checked

Thirty-seven theorems, proved for every value of the constants, cover every
safety invariant and every action property that a passing run checks, and the
refinement of `Inbox`. Their assumptions are the modules' named ones alone: the
types and disjointness of the constants, and that what is said to be finite is.

Liveness is only checked, for good: `SteeredIsTaken`, `StartedIsSettled`,
`SandboxRests`, `JobsFinish`, `RemindersSettle`, `WaitsWake` (the prover does
neither fairness nor `ENABLED`). The seven properties of section 6 are violated.

## 8. Defects met while modelling that no run shows

Where the model includes one, the property concerned names it as an exception.

* *Threads.* A turn that starts before the orphans are read may drop or replace
  an orphan's checkpoint (`inflight_runs.py:68`, `turn.py:446`): what was folded
  into the orphan is gone. A wait or job whose wake-up fails is not tried again
  (`background_jobs_poller.py:146-169`), and one that could not be saved as
  fired has no job until a restart (`scheduler.py:540`).
* *Stores.* Overlapping admin calls of `github_proxy.py` (356-361) may save an
  older list last. A tasks file that cannot be read once is replaced by what is
  added next. The bots' store loses updates when two saves cross, and the
  working directory's `.env_slack` is shared: a failed deploy removes another's.
* *Agent.* A key found exhausted on a model's last attempt is replaced but the
  new one is not tried (`agent.py:4236`). `update_skill` is said to keep
  the half that was not passed, but a proposal holds the whole file as it was
  when proposed, and its approval undoes what changed since. A failed fetch of a thread's posts makes them unseen
  for good, and so does a text that the history contains
  (`thread_history.py:155`). Code mode stays registered when writing its script
  fails (`agent.py:542-544`), although the comment at the other end (560-563)
  says what that would let happen. A tool or program that outlives a halted run still counts on the
  turn, and code mode's proxied calls bypass `!stop`. An abuse report does not
  stop subagents that run. The notes subagents merge back race one another.
  `deps.py`'s comment on `last_attempt_messages` is stale.
* *Sandboxes.* A deletion racing a creation leaves a sandbox nobody stores
  (`sandbox_helpers.py:211`). A job is unregistered before its end is announced
  (`sandbox_background.py:154`), and one whose status is unknown is announced as
  finished (`background_jobs_poller.py:75`).
* *Surfaces.* A tick of the thread's status that raced its stop sets it going
  again (`thread_status.py:81-89`). A conversation's title is written by
  whichever of two threads is last (`runner.py:90-94`). An event overtaken, or
  never told by a process that died, is missed by a tab whose mark is past it,
  after a reconnection too.
  A kick misses a join in its huddle that went there under another key, until it
  is registered (`huddle/__init__.py:269-279`); a leave stops one of two sessions
  (`145`). A click takes a huddle's prompt two calls to Slack before its join is marked
  (`huddle/__init__.py:184`), so that a kick in between finds neither. A reply
  of a huddle may be put in the place of an unfinished one.

## 9. What is not modelled

Wording, formatting and views; the model tools, which wrap remote calls and keep
no state; the conversation viewer; audio and Chime's signalling; the web login's
cookie and coolton's own reinstall; provisioning of a sandbox; the upload and
rewriting of files and requests by the proxies; message splitting and image
limits; shutdown hooks. Times are orders, sizes are counts. A store shared by
several threads is modelled for one of them, except where threads meet in it
(the caches, the bots' store, consents and skills).
