# difu: a model of the agent service

difu runs coding agents (Codex, Claude) for its users. A background *agent
service* owns the sessions: it takes messages and other controls from terminals,
phones and Slack, keeps each session in memory and in a file, drives a provider
process per session from a worker thread, and survives being stopped, upgraded
and killed. A terminal may also use the service of another computer (a *saved
server*), through the service of its own.

This directory models what the services do to a session: the path of a user's
message to the provider, and to a session on another computer; the questions an
agent asks; what is done to a session as a whole (Clear, Repository, Model,
Delete); moving a conversation between computers; and watching a session of a
server. TLC checks each on small instances, and TLAPS proves their safety
properties, and that delivery implements its abstract specification.

Source paths below are relative to `src/cli/src/`.

## 1. Inventory

| Component | State | Operations | What makes it correct | Module |
|---|---|---|---|---|
| Session record (`agents/mod.rs`) | status, turn, queue, transcript, restart marks | closures under `Store::update` | transcript and queue together account for every message | Session |
| Control handler (`agents/server.rs`, `Service::handle`) | an action lock per session; what it has read | message, remove queued, send waiting, interrupt, resume | what it read is still true, or harmless, when it acts | AgentService |
| Worker for Codex (`agents/engine.rs`) | the prompt in hand, pending calls, its command channel | connect, send, event, command, queue | intent is saved before sending; nothing is sent twice | AgentService |
| Startup (`agents/startup.rs`) | worktree under preparation | queue while preparing | first messages are kept in order | AgentService, SessionActions |
| Wake (`wake.rs`) | one sticky signal per worker | notify, wait | no lost wake-up | AgentService |
| Service lifecycle (`server.rs`, `run`) | sessions on disk, stopping flag | flush, shutdown, exit, restart, continue | a restart continues what worked and nothing else | AgentService |
| Codex app-server (external) | a conversation, a turn, owed replies | start, steer, interrupt, echo, end, die | (environment) | AgentService, Questions |
| Outbox (`cloud/federation.rs`, `offline.rs`, `client.rs`) | link per server, held messages on disk | hold, edit, flush, deliver | held messages arrive once and in order | Outbox |
| Questions and requests (`agents/questions.rs`, `guidance.rs`, `engine.rs`) | the panel, answers in it, requests responded to | ask, answer, skip, respond, resolve, remove, restore | answered at most once, and not asked again | Questions |
| Scheduled actions, Clear, Delete (`server.rs`, `session_tools.rs`) | actions of a turn, queue set aside, stages of a deletion | schedule, take, apply, mark, discard, reset, delete | the queue survives, in order; a deleted session stays deleted | SessionActions |
| Moving (`agents/moving.rs`, `server.rs`, `federation.rs`) | copies of a conversation, the move each computer makes | export, import, report, retire, ask, return | the conversation goes on in one place, and always in one | Moving |
| Watch and deltas (`agents/transport.rs`, `ui/watch.rs`, `server.rs`, `federation.rs`) | version of a session, what each watcher holds | baseline, change, resume, relay, cache, show | a watcher comes to show the session, never a mixture | Transport, Watching |
| Notifications, Slack, pull requests, Claude, terminal, phone, environments, jobs | see `components` in PROJECT.json | | | not modelled (section 7) |

Interaction: terminals and phones call `Service::handle` on a connection thread;
the handler changes the record under the store's lock or sends a `Control` to
the worker's channel and sets its wake signal, then waits up to 60 seconds for a
reply. The worker exchanges JSON lines with the provider; a reader thread turns
them into messages on a channel and sets the same signal. The service loop
flushes changed records every 500 ms, takes the scheduled actions and moves of
sessions whose turn is over (a thread of its own applies them), and on a signal
marks, cancels and joins the workers. After a start it reads the files back and
a thread asks for `Control::Resume` for each session that was working.

A message for a session of a saved server goes to the federation instead, which
sends it over its connection to that computer's service or holds it in a file; a
worker thread per server connects again and delivers what is held. A watch of
such a session is relayed: the federation keeps a copy and a snapshot in its
cache, follows the server's stream of changes, adds the marks of this computer
(a message is held; the server is not reached) and passes the changes on.

What is hard here: the handler acts on what it read before the worker moved on;
replies and events of one provider arrive in either order, late, or never; a
prompt's fate is spread over four places (queue, channel, hand, transcript) and
two copies (memory, file); the action lock is held by requests but not by the
main loop, the worker or the flush; a move is made by two services of which
neither knows whether its last message arrived; versions of a session are used
again after a crash; and shutdown runs while users still act. PROJECT.json lists
these hazards at their lines.

## 2. Modules

* **Session** - the record and the whole-record changes, one operator per
  closure the code gives to `Store::update`. No variables. The transcript is
  abstracted to `marks`: per message, the set of kinds of entry it has.
* **MessageDelivery** - the abstract specification. A message is new, held,
  sent or dropped; it is sent at most once and never after it was dropped. The
  save before a request may let go of messages that only the file still held, so
  a step that sends one may drop others (`Send(m, M)`).
* **AgentService** - one session with everything that sends its messages. `mem`
  and `disk` are the two copies of the record. Each actor has its own program
  counter: `hpc` the handler, `pc` the worker, `svc` the service, `resumer` the
  thread that continues the session. Channels are `inbox` (commands, with
  `wake`), `pipe` (to the provider) and `output` (from it).
* **Outbox** - one saved server as its client sees it: the callers, the link with
  its outbox in memory (`outbox`) and on disk (`file`), the worker thread of each
  generation of the link, the connections with what is on them (`wire`), and the
  server reduced to the messages it took (`got`) and the sessions it has.
* **Questions** - the panel of one session: the handler of a control, the worker
  with the answer it is delivering, the provider that asks, resolves and ends
  turns, and what its replies and events meet on the way.
* **SessionActions** - one session and the requests that change it as a whole:
  `job` is the request that holds the action lock, `apply` the thread that
  applies scheduled actions, `freed` one that has released the queue, `due` and
  `listed` what the main loop has seen, `tree`, `media` and `file` what is on
  disk.
* **Moving** - one conversation: its copies on the computers and the server
  (`copy`), the move each computer is making (`op`), the requests at the server
  (`wire`), the moves the agent asked for on their way (`due`, `listed`,
  `offered`), and whose link is to read the server's list (`refresh`).
* **Transport** - what travels of a session: sessions, changes, fingerprints,
  replies. Only operators: what a comparison finds and what applying it yields.
* **Watching** - extends Transport with the server and its stream, the relay and
  the cache of this computer, and the app with its subscription.
* **MC...** - symmetry, views, constants and an initial condition for TLC.
* **AgentService_proofs**, **AgentService_told**, **Outbox_proofs**,
  **Transport_proofs**, **Watching_proofs**, **Moving_proofs**, **Questions_proofs**,
  **SessionActions_proofs** - theorems (section 5).

AgentService, Questions and SessionActions are three views of the same service.
Each keeps the parts of the record its question is about and reduces the rest:
AgentService has the sending of a prompt in every step and no panel; Questions
has one call to the provider in two steps (accepted or not); SessionActions has a
message sent in one step. Section 3 says what each of them folds.

| Model (AgentService) | Code (`agents/`) |
|---|---|
| `SubmitMessage`, `SubmitControl`, `Accept` | a request reaches `Service::handle`, takes the action lock, first `store.get` |
| `PushQueued`, `QueuePreparing`, `SaveAndAnswer` | the push for the next turn, `Store::queue_preparing`, `Store::save` |
| `Read`, `Dispatch`, `StopWaiting` | second `store.get`, refusal, cancellation of a start, send to the worker, 60 s wait |
| `Reconnect`, `StartWorker` | "awaiting connection" and `Service::start` |
| `SetUp` ... `Initial` | `startup::prepare`, `engine::connect`, the head of `engine::run` |
| `Intend`, `Write`, `Acknowledged`, `CallFails`, `NotAttempted` | `engine::send_turn`: intent, save, request, Ok, Err, refusal before the intent |
| `EventWhileWaiting`, `LoopEvent` | `apply_event` from `Connection::call` and from the loop |
| `TakeQueued`, `SaveTaken` | `send_queued` |
| `LoopCommand` and `Command*`, `Drained`, `TakeWaiting`, `WaitingSent` | `engine::command` |
| `NoCommand`, `LoopWake` | the idle wait |
| `WorkerEnds`, `WorkerExits` | the worker closure of `Service::start`, `worker_ended` |
| `Flush`, `StopSignal`, `MarkActive`, `CancelWorkers`, `Exit`, `Restart`, `ResumeDue`, `ResumeHandled` | `server::run`, `after_restart`, `resume_session` |

| Model (Outbox) | Code (`cloud/`) |
|---|---|
| `Check`, `SendNow`, `Hold` | `Federation::message`: the look under the lock, `send_now`, `hold` |
| `EditHeld`, `RemoveHeld` | `edit_held`, `Queued::replace` |
| `Connect`, `Disconnected`, `Retire`, `Flush` | `work`, `connect`, `disconnected`, `State::link` |
| `Pick`, `Look`, `Send`, `Settle` | one turn of `flush`: the choice under the lock, `arrived`, the request, what its outcome changes |
| `ReadList`, `StoreSessions` | `Request::List` and `store_sessions`, on any thread |
| `Drop`, `Hear` | `client.rs`: `close` fails what was not written with `NotSent` and the rest with `Lost`; `route` |
| `Restart`, `Reload` | the service ends and starts; `servers.json` changed: `reload`, `Link::new` |
| `Take`, `Delete` | the other computer's service (external) |

| Model (Questions) | Code (`agents/`) |
|---|---|
| `UserAsks`, `HandlerSkips`, `HandlerSends`, `HandlerGivesUp` | `Service::handle` for Message, AnswerQuestion, SkipQuestion, Respond: what it does itself, what the worker gets, the 60 s |
| `CanAnswer`, `RecordAnswer`, `Restore` | `questions::prepare_answer`, `record_answer`, `Session::restore_async_questions` |
| `Guide`, `GuidanceAnswered`, `QueueWhileWaiting` | `guidance::confirm`, `queue_while_waiting` |
| `LoopCommand`: `CommandSends`, `CommandRecords` | `engine::command` for answers to notes and to requests |
| `StartTurn`, `CallEvent`, `CallAccepted`, `Record`, `CallRefused`, `CallTimesOut` | `send_turn` around its request, then `save_answer` |
| `ApplyEvent` | `apply_event`: request, resolved, agent message, tool calls, turn/completed |
| `RemoveQuestions`, `SwitchWorkspace`, `Stopped` | `questions::handle`, `isolation::transition` |
| `Restart` | `after_restart` and the restoration in `run` |

| Model (SessionActions) | Code (`agents/`) |
|---|---|
| `AgentSchedules`, `HoldsQueue` | `session_tools::schedule`, `Schedule::holds_queue` |
| `SeeDue`, `TakeDue` | `Service::scheduled_actions`, its two passes |
| `TakeAside`, `AskScheduled`, `Applied`, `Release` | `apply_scheduled`, up to the drop of its guard |
| `LookAtQueue`, `Nudge` (`freed`) | the rest of `apply_scheduled`, while the session may be due again |
| `PrepareFails`, `ConnectFails`, `LoopFails` | a worker that ends by an error: the end of the closure of `Service::start` |
| `Ask`, `Write`, `Begin` | a request takes the action lock |
| `MessageRead`, `MessageQueued`, `MessageSent` | `Control::Message` |
| `ModelChecked`, `ModelRead`, `ModelWritten` | `Control::Model` for another provider |
| `Marked`, `Stopped`, `Discarded`, `Reset`, `ClearFails`, `ClearFailsLate` | `Request::Clear`, `Repository`; `reset_workspace`, `clear_conversation` |
| `DeleteMarked` ... `DeleteHistory`, `DeleteFails` | the stages of `Request::Delete` |
| `ListSessions`, `Flush`, `Restart` | the main loop, `Store::save`, `after_restart` |

| Model (Moving) | Code |
|---|---|
| `MoveToServer`, `Retire` | `Service::move_session`: package, Import, archive |
| `MoveHere`, `HearPackage`, `Place`, `Reported` | `Service::move_here` |
| `Import`, `Export`, `Exported` | the requests at the server (`server.rs`, `moving.rs`) |
| `Ask`, `ScheduledMove`, `CancelReturn` | the agent's tools, `Service::scheduled_moves`, the cancellation of returns |
| `Show`, `Poll`, `List` | `Federation::list` and `listening`; what `poll` then reads, and `store_sessions`, which every change made through the computer also reaches |
| `Return`, `Forget`, `MoveDue` | `Federation::returning` and the threads it starts |

| Model (Watching) | Code |
|---|---|
| `Stream`, `Opened` | `Service::watch`: baseline or `resume`, then `Delta::between` |
| `Crash`, `Rewritten`, `Noted` | the service dies; `run` reads the file, rewrites what was in work (`sending` entries, sub-agents, shells), `after_restart` notes it, and the record is written back |
| `Between`, `Against`, `Fits`, `Applied`, `Fingerprint`, `Resume` | `transport.rs` |
| `Subscribe`, `Top`, `Loop`, `Take`, `Idle`, `Closed` | `Federation::watch` |
| `ShowNew`, `Forward`, `InStep`, `Heartbeat`, `Leave` | `Relay::show`, `apply`, `heartbeat`, `save` |
| `Cached`, `Prefetch`, `Read` | `offline.rs` snapshots, the link's prefetch, `Federation::cached` |
| `Receive`, `End`, `Show`, `HandleRead`, `Viewed` | `Watch` of `ui/watch.rs`, `Ui::apply_result` |

Granularity: an action ends where the code releases the store's lock, saves,
sends, waits, or makes a call. Two adjacent steps are one action only when no
other actor can act, or tell the difference, in between, or when the list below
says so.

## 3. Abstractions

AgentService

* One Codex session; sessions share nothing but the store's lock.
* `Waiting` is `Running` (requests are in Questions). Archived, moved, deleting,
  scheduled, workspace-switching and guidance states are in the other modules.
* `ReplaceQueued` is modelled as the removal of a queued message; editing keeps
  the position and changes only the text. `InterruptAndSend` without
  accepted-but-unseen steering.
* `send_queued` decides whether the prompt was recorded by counting transcript
  entries; the model shows it as unsent exactly when nothing was recorded.
* A failed save or a poisoned lock is left out.
* `RESUME_WINDOW`: at a restart any number of the recorded continuations may
  still be inside the window.
* Each message is submitted once; a user who retries submits another message.
* When a call is given up, replies already written stay in `output` as `Late`
  and are ignored; a reply not yet written is never seen by anyone, so it is
  dropped.
* Once the workers have been cancelled the handlers act no more: the process
  exits as soon as the workers are joined.
* The provider answers in order, may refuse any request, fall silent, or die at
  any step; it keeps the conversation across processes. This is the environment
  the code is written against, not a model of Codex.

Outbox

* One saved server, which is not removed and runs the same version of difu;
  attachments are left out (an upload that fails ends as a message that fails);
  the waits between attempts, which only cost time, are left out.
* What may go wrong is a set of named faults (`Fault`), each at most once and
  `MaxFaults` of them together: `restart`, `reload` (the saved server changed),
  `disk` (outbox.json cannot be written), `delete` (a session of the server),
  `late` (the server reads a request after the client gave its connection up),
  `unseen` (`arrived` says no although the message is there: the read failed, or
  ten entries followed it). Connections drop `MaxDrops` times.
* Generations are numbered through restarts; the code counts anew. What an old
  service's threads would do is nothing, so the number does not matter.
* A queue entry that is not held here is the server's: `ReplaceQueued` for it is
  forwarded, and is the business of that computer's AgentService.

Questions

* Codex only. It begins with an idle session, in whose panel are the notes that
  an earlier turn asked: any of them, none or all. When the worker stops, the
  provider's process ends with it, and so does its turn.
  `Failed` stands for `Interrupted`: the panel is left in the same way.
* One control at a time: the handler holds the action lock. After its 60
  seconds the next one overlaps with a command the worker still has
  (`HandlerGivesUp`).
* An update and the save that follows it are one step; so is the pop of the
  queue with the intent to send (AgentService separates them: LostInCrash), and
  the request of a turn with `apply_preset` and `resume_thread` before it. The
  thread that asks for `Control::Resume` after a restart is the command the new
  worker starts with.
* A request for a worktree carries no turn. The worker ends by an error when it
  names another turn than the session's (isolation.rs:77-85), which needs a
  provider that writes out of order, as the end of a turn forgets its requests;
  that end is `WorkerFails` while it tidies up.
* Forms (`elicitation.rs`) are requests with several questions whose values are
  left out, as are the texts of answers, permission presets, plan decisions and
  the item that shows the guidance question.

SessionActions

* `Starting` and `Running` of a turn are one state, and a turn that cannot be
  started is AgentService's. The first prompt's turn is the initial state.
* The check of `Control::Model` and the join of the worker are one step: both
  are before the read that matters. Only a change of provider is modelled (one
  of the model alone writes two fields).
* One thread applies actions at a time, as `applying` ensures unless a change of
  model wrote back an older record. A thread that has released the queue still
  looks at it and may start a worker (`freed`), while the session is due again
  and the next thread applies; the next one releases the queue only once the
  first is through. A panic, which releases the queue in the same way, is left
  out. So are Compact and Cleanup, which change nothing else here, and archiving
  (Moving).
* A save that fails is modelled only as one of the failures of Clear.

Moving

* One conversation. A computer makes one move at a time; a move that the agent
  asked for waits (`due`) or, to the server, is given up.
* Messages are on disk at once, and a message sent to a running turn, steered or
  queued, is part of its chat. The packages carry the chat; whether everything
  else in them can be placed (git objects, media, artifacts, limits) is a choice
  of `Place` and `Import`.
* The computer a user wrote from (`messaged_from`) is recorded with the message.
  A session that worked goes on after a restart or does not; continuing is
  staying `running`.
* The minute after which `returning` offers a session again is `Forget`.
* `refresh` says that the link reads the server's list at its next turn: it has
  connected, or an app lists the computer's sessions or did within the last
  fifteen seconds (`Show`). A connection that drops while no move waits for an
  answer is left out: it would only have the list read once more.

Watching

* One session, server and app. The server's session is changed by scripted edits
  (`Edits`: an entry is added or rewritten, a sub-agent speaks, all is cleared).
  Of the session the model keeps its version, transcripts and marks; the code's
  comparison treats every other field as one that is sent when it changed.
* A start after a crash takes the file's session as it is, or with its last entry
  rewritten at the same version, or with a note at the next one, or both, and
  writes it back. Which of them the record calls for is a choice: the properties
  hold for every one.
* SHA-256 is injective. Deletion, "Session not found", a removed server, attempts
  to open a stream that fail (they are repeated) and heartbeats that say nothing
  are left out. A local watch is the same stream with the app in the relay's
  place.
* Who relays for an app that has gone is `leaving`, one such relay at a time.
* A read is answered by the service in one step and handled by the app in
  another; the code asks the server, writes the cache and adds the marks one
  after the other. `gives` in a message and `was` are history: what the receiver holds
  after it, and every session the server has had.

## 4. Runs

Bounds are constants; each is named in its module. The runs of AgentService,
Outbox, Moving, SessionActions and Questions say `CHECK_DEADLOCK FALSE`: with the
bounds used up and an idle session nothing needs to happen. Watch, WatchEnds and
WatchHeld check deadlock, too.

| Run | Instance | Shows |
|---|---|---|
| Deliver | 2 messages, 2 turns, 1 control | `NothingLost`, `UnsentWasNotSent`, `DeliveredWasAccepted`, `RunningTurnIsReal`, `InterruptHolds` |
| Restart | 1 message, 2 turns, 1 control, 1 stop, 1 crash | `TypeOK`, `OneCopy`, `AtMostOnce`, and the refinement `DeliversOnce` |
| Progress | 1 message, 1 turn, 1 control, 1 stop | `WorkerReadsAll`, `ShutdownEnds` |
| LostInCrash | 1 message, 1 crash | `NothingLost` is violated |
| Held | 2 messages to 1 session, 1 drop, 2 of 6 faults | `TypeOK`, `HeldIsKeptUnlessCut`, `InOrder`, `SentOnce`, `RemovedIsNotSent` |
| Drain | 2 messages to 1 session, 1 drop, 1 of restart, reload, disk | `Drained` |
| Questions | a note of 2 questions, a request, 3 controls, 2 turns, 1 tool call or message of the agent, 1 fault | `TypeOK`, `OneResponse`, `ToldIsSettled`, `AnswerIsKept`, `SentOnce`, `PanelIsReal` |
| Actions | Model and Clear scheduled, 2 messages, 1 request of any kind, 1 fault | `TypeOK`, `DeletedStaysDeleted`, `NothingVanishes`, `InOrder`, `HeldUntilApplied` |
| ActionsEnd | Model scheduled, 2 messages, 1 Clear or Repository, 1 fault | `QueueIsReleased`, `ClearingEnds` |
| Moves | 1 computer and the server, 1 message, 3 copies, 1 fault | `TypeOK`, `SomeCopyGoesOn`, `CarriedToServer`, `OneCopyGoesOn`, `AskedIsSettled` |
| Watch | 2 changes, 2 of a crash, a held message, an end of the watch | `TypeOK`, `StreamFits`, `AppInStep`, `NothingIsMixed` |
| WatchEnds | 2 changes, 1 of a crash, a drop, an end, a read | `CatchesUp` |

Why these bounds. Two messages are enough for every order the code
distinguishes: one in the queue and one in hand, or two waiting for
`InterruptAndSend`. Two turns give an event of an old turn against a new one.
One stop and one crash give the three orders that matter. Deliver has no
restart, so its states are told apart without the file (`WithoutFile`), and it
uses the symmetry of messages; the liveness runs use neither. Progress starts
with a session created with its prompt (`PromptSpec`).

In Held, two messages give a message behind another and one that is edited while
the other is sent; one drop and two faults give every pair of them, among them a
restart and a changed server in either order, which leaves three workers. `Seen`
tells states apart without what can no longer act. The properties name the
faults under which they hold: `SentOnce` without restart, reload, late and
unseen, each of which alone breaks it; `RemovedIsNotSent` without restart and
reload; `InOrder` and `HeldIsKeptUnlessCut` under all of them, given that
different messages say different things.

In Questions, two questions give an answer in delivery while the other is
answered, skipped or removed; three controls give a repeated answer against
another of the same item. In Actions, two kinds give the queue put aside for one
action and put back before the next, and the user's request may be any of the
four while they are applied. Three copies in Moves give there and back; a fourth
would be another way there. In Watch one place on each connection still lets the two
senders run ahead of the two receivers. A dropped connection loses the same as a
crash that takes nothing back, so Watch has crashes only. WatchEnds has one event:
a message is held only while the server is away, which is the second, so of the
marks it exercises the offline one. With `MaxEvents = 2`, `MaxHolds = 1` and no
crash, end or read, `CatchesUp` holds of the mark of a held message as well.

**Fairness.** `AgentService!Fairness`: weak fairness of the worker, the handler
and the service loop as a whole. They are threads of a live process, and no step
of theirs waits for ever: calls end after 45 seconds, replies after 60, the loop
comes round every half second. Nothing is assumed of users or of the provider:
`ShutdownEnds` holds although the provider may stay silent, because a cancelled
call fails.

`Outbox!Fairness`: callers and workers are threads of a live process, and the
server answers over a connection that stays open. Connections stop dropping
because `MaxDrops` bounds them, and each message is edited once.

`SessionActions!Spec`: the worker, the request under the lock, the thread that
applies and the main loop go on with what they have begun; turns end. No user
has to ask and nothing has to fail.

`Moving!Fairness`: the same for the services and the threads of moves; a
connected server answers. The link reads the server's list every second while an
app on the computer listed sessions within the last fifteen seconds, and once
after it has connected (`Federation::poll`); it is not assumed to read it
otherwise, and no app has to list. That is why `AskedIsSettled` says of a return
that it is settled if an app lists now and then (`[]<>refresh[k]`);
without this it is false (`ReturnIsTaken`, below). A request to move to a server
needs no list. A move that the agent asked for waits while another of
its computer runs, so it is owed only if its turn keeps coming (strong fairness
of `MoveDue`).

`Watching!Fairness`: the threads of the three processes; a dropped connection is
made again (the link's worker) and a subscription that ended is opened again
after a second (`Ui::tick_watch`). No edit, fault, read or prefetch is owed.

### Where code and documentation disagree

The details and quotations are under `findings`. One has a run (LostInCrash:
`send_queued` saves the shortened queue before the intent; a crash between the
two loses the message without a trace). For the others the module states the
property the documentation claims, and this instance violates it:

| Property | Instance | What happens |
|---|---|---|
| `AgentService!InterruptSurvivesRestart` | invariant; 1 message, 1 turn, 1 control, 1 stop | an interrupt carried out after shutdown marked the session does not clear the mark; the next start continues it |
| `AgentService!QueueMovesOn` | property under `FairSpec`; 2 messages, 1 turn | a message queued just as the turn ends is pushed without waking the worker, and stays |
| `AgentService!DisconnectedTakesMessages` | invariant; 1 message, 1 turn, 1 control | a reconnect that meets the old worker's last moments leaves the session `Starting` without a worker |
| `AgentService!AwaitingEnds` | invariant; the same | an "awaiting connection" entry is not settled when the connection fails |
| `Outbox!NotSentTwice` | Held.cfg with `Fault = {"restart"}`, `MaxFaults = 1` | the file says that a message may have arrived only after its delivery has ended |
| `Outbox!HeldIsKept` | Held.cfg with `Fault = {}`, `Typed <- SameText` | a message lost on the way counts as delivered when another says the same |
| `Outbox!HeldIsKept` | Held.cfg with `Messages = {m1, m3}`, `Sessions = {s1, s2}`, `SessionOf <- ToTwo`, `Fault = {"delete"}` | a message is settled by an id that is used again after a deletion |
| `Questions!FailedIsRetryable` | Questions.cfg | an answer queued during the guidance question is recorded, shown as unsent when the worker fails, and cannot be given again |
| `Questions!WaitsForSomething` | Questions.cfg | a session stays `Waiting` when its last question is skipped |
| `SessionActions!NotInATurn` | Actions.cfg, as a property | a scheduled Clear meets a turn that began after the session was due |
| `SessionActions!SwitchKeepsQueue` | Actions.cfg with `Requests = {"model"}` | the user's change of model writes back the record without the queue that was aside |
| `SessionActions!NothingLeftBehind` | Actions.cfg | a worker started by the applying thread makes the worktree again under a deletion |
| `SessionActions!StartingHasWorker` | Actions.cfg | a Clear that fails after its reset leaves the session `Starting` without a worker |
| `Moving!ReturnIsTaken` | Moves.cfg, as the property | no app lists, the connection stays open: a computer does not see what was asked of it |
| `Moving!NothingLeftBehind` | Moves.cfg | what is said to a server session between Export and Exported is only in the archived copy |
| `Moving!OneCopyGoesOn` | Moves.cfg with `Computers = {k1, k2}`, `MaxCopies = 4`, `MaxFaults = 0` | two computers take the same server session |
| `Moving!UnfinishedTurnCancels` | Moves.cfg | a move is made although the turn that asked for it failed |
| `Watching!CatchesUpAfterCrash` | WatchEnds.cfg | after a crash that took changes back the app drops the lower version it is sent |
| `Watching!CatchesUpAfterRead` | WatchEnds.cfg with `MaxEvents = 2`, `MaxDrops`, `MaxEnds` 0 | what was read before a restart replaces what the watch showed after it, under the same version |
| `Watching!MarksCatchUp` | WatchEnds.cfg with `MaxEvents = 2`, `MaxCrashes`, `MaxHolds`, `MaxEnds` 0 | a late read puts the offline mark back, and the relay does not know |

Seen without a property: `arrived` looks at the last ten entries, not at the
latest user messages; README.md:809-811 still describes a service that does not
continue sessions by itself; a local session whose Import was answered into a
dropped connection goes on without its user being told of the other copy; and
cancelled actions wake nobody for the queue they held.

## 5. Proofs

Checked by tlapm for all values of the constants: any finite set of messages,
any transcript, any bounds. The assumptions are `SessionAssumption` (messages
are finite and differ from `Continue`, `ResumeLimit` is positive),
`ServiceAssumption` (the bounds are natural numbers), `OutboxAssumption`
(messages are finite, each is for a session, what may fail is what there is, the
bounds are natural numbers), `TransportAssumption` (`None` is not a session),
`WatchingAssumption` (the bounds are natural numbers, an entry is told by the
run and version it came with, `None` is not a relay), `MovingAssumption` (the
server and "nowhere" are no computers, the bounds are natural numbers),
`QuestionsAssumption` (notes and requests differ, "no item" is neither, a note
has at least one part, parts are positive numbers and the bounds are natural
numbers) and `SessionActionsAssumption` (tools and requests are of the kinds
there are, the bounds are natural numbers).

* `AgentService_proofs`: `TypeCorrect == Spec => []TypeOK`. `TypeOK` is
  inductive as it stands. One lemma per operator of Session says that it keeps
  a session a session; one per action that the action keeps `TypeOK`. The
  interesting part is `AfterRestart`: the count of continuations stays within
  `0..ResumeLimit`, and `hctl` is a message wherever the handler uses its text.
  `OneCopyAlways == Spec => []OneCopy` and
  `SentAtMostOnce == Spec => []AtMostOnce`. `AtMostOnce` is not inductive: to
  send a prompt once more it must still be somewhere. `OneCopy` says that a
  message that may still be sent is in exactly one of the places it can be
  (queue, handler, inbox, connection, hand) and has not been sent; the
  invariant is `Inv == TypeOK /\ AtRest /\ OneCopy`, where `AtRest` says that
  while the service is down memory agrees with the file and no thread runs, so
  that a restart, which makes memory from the file, brings back no message that
  is somewhere else. Every actor has a lemma that its steps keep `Inv`; the only
  step that sends is `Write` (`OnlyWriteSends`), and it sends what was in hand,
  which `OneCopy` makes unsent before. From the same invariant,
  `ImplementsDelivery == Spec => DeliversOnce`: under the mapping `FateOf` every
  step is a step of MessageDelivery or a stutter. A submission is a `Submit`
  (`SubmissionMaps`), a write a `Send` (`WriteMaps`), every other step a `Drop` of
  the messages it leaves in no place, often of none (`OtherStepsMap`); that
  nothing comes back once it is in no place (`NothingComesBack`) is why what was
  dropped stays dropped.
* `AgentService_told`: what users are told and promised.
  `UnsentIsUnsent == Spec => []UnsentWasNotSent` and
  `DeliveredIsAccepted == Spec => []DeliveredWasAccepted` hold of the file as well
  as of memory (`Told`), since a restart goes back to it, and of what the worker
  has in hand (`Recorded`: a prompt that is being written has its entry, so that
  one shown as unsent is not it). They need that a reply is taken for that of its
  own call, `Calls`: of all requests, replies owed and replies written at most
  one concerns the call the worker is in.
  `TurnIsReal == Spec => [](crashes = 0 => RunningTurnIsReal)` rests on `Turns`: a
  turn that the session shows, or that is still to be read of in a reply or in
  `turn/started`, runs or its end is to be read later, and a turn whose end was
  read is the one `completed_turn` keeps.
  `InterruptsHold == Spec => InterruptHolds`, an action property: a worker that
  was interrupted is about to end, or in its loop with an empty queue (`Quiet`).
  The queue fills, and a worker is started, only where somebody asks for it.
  `NothingIsLost == Spec => [](crashes = 0 => NothingLost)`: what is taken is in
  the transcript, the queue, or the hands of a worker that took it from the queue
  and has not recorded it (`Keeps`); a user's removal never meets the message
  that is being taken in (`Withdrawals`). These two theorems about turns and
  losses are for a service that has not crashed, because a crash breaks both: it
  loses what was not saved (the run LostInCrash), and it may leave in the file
  the turn of a session whose interrupt was acknowledged, which `after_restart`
  takes away from working sessions only.
* `Transport_proofs`: what the comparison promises, for sessions of any size. A
  change made of two sessions fits the first and yields the second
  (`BetweenApplies`); one made of a fingerprint is the same change
  (`AgainstIsBetween`), so the first reply to a returning watcher fits whatever
  copy it kept, also when another run of the server had given its version to
  another session (`ResumeApplies`); and dressing commutes with applying
  (`DressedApplies`).
* `Watching_proofs`: `TypeCorrect`, `StreamsFit`, `AppsInStep`, `NothingMixed`,
  all from one inductive invariant, `Inv`. Its core is the chain: the replies on
  a connection, taken in order by one who holds what their sender thinks, each
  fit and leave him with what the sender noted (`Chained`). A sender lengthens a
  chain by what was made for its end (`ChainGrows`, by the theorems of
  `Transport_proofs`), a receiver takes its first link (`ChainTaken`), a dropped
  connection cuts it (`ChainCut`). Beside the two chains, `Inv` says that the
  copies of the service are sessions the server has had, without marks, and
  those of the app the same with marks (`Copies`); that a relay has shown the
  copy it has (`GoodRelay`); and that an open stream either has not begun and was
  opened with the fingerprint of the relay's copy, or ends with what the server
  sent last (`GoodStream`). This is what `StreamFits`, `AppInStep` and
  `NothingIsMixed` need and do not say: the contents of every reply, and the
  relation of `held` to the copy. There is one lemma per action, or per turn of
  the relay's loop, and the length of the channels is not used.
* `Moving_proofs`: `TypeCorrect`, `SomeCopyAlways`, `CarriedAlways`, from one
  inductive invariant, `Inv`. A retired copy names one made after it
  (`Numbered`), so the last copy made is never retired, which is why some copy
  goes on. That a retirement is right when it happens needs what is on its way:
  a request somebody listens to is the one its computer waits for, and there is
  one (`Wire`), so an answer is never taken for that of another move, however
  many requests broken connections have left behind; a request to retire names a
  copy there is; and a copy sent to the server is as it was packed until the
  answer is heard, as its lock is held (`Ops`). `Asked` (what an agent asked
  for, it asked in a turn) is there for the types; what a computer reads
  (`Readings`) is proved by itself, as nothing else depends on it. Two kinds of
  step change the records in a way that matters, `CopyMade` and `CopyRetired`;
  every other step is `Kept`. There is one lemma per action. `OneCopyAlways` is
  for one computer (`Computers = {k}`) and, as its property says, no faults: two
  computers can take the same server session (section 4). From `Inv` an answer
  is the awaited one, and without faults every request is listened to, so
  `Single` needs to say little: while a move is sent, packed or placed its copy
  has not been moved (`Whole`), and two copies can be written to only once the
  move has made the second and before it has retired the first (`Doubled`).

* `Questions_proofs`: `TypeCorrect`, `RespondsOnce`, `ToldStaysSettled`,
  `AnswersAreKept`, `AnswersAreSentOnce`, `RequestsAreReal`, from one inductive
  invariant, `Inv == Sound /\ Blocking /\ Turns /\ Told /\ Delivery`. The panel is
  held five times over - in memory, in the file, in the copy the handler read, in
  what the worker took along with a message, and in events that are still on the
  wire - and each property is about two of them. `Sound` is what each holds by
  itself (`Good` for a record: an answer in the queue is settled, and there once).
  `Blocking`: a request on the wire or unanswered in the panel has no response.
  `Turns`: what will be read before an event puts it in its turn, so that a
  request is read in a turn and before its end, which is what makes the panel
  real. `Told`: whatever somebody was told is settled in memory and in the file,
  and older copies know less; that is why a late answer or a restart cannot ask it
  again. `Delivery` follows one message: there is at most one reply on the wire,
  it is to the message in flight, and an answer that was sent is in flight or
  settled for good and in no queue (`Once`), unless a reply was lost. A record
  operator has a lemma that says what it does to the panel, to what is settled and
  to the queue, and each action one per layer.
* `SessionActions_proofs`: `TypeCorrect`, `DeletedForGood`, `MessagesAreKept`,
  `OrderIsKept`, `QueueIsHeld`, from `IInv == Inv /\ Sent /\ Over`. `InOrder` is
  not inductive: what was taken aside must stay before what is queued meanwhile,
  which is why every accepted message is below the one being written (`Line`).
  `NothingVanishes` must hold of the file too (`Kept`), as a restart goes back
  to it. `HeldUntilApplied` is an action property: a message leaves the queue
  for the chat in one step, and then no thread applies. For the steps that send
  it needs `Holding => applying` (`Apart`: while the thread has actions to
  apply, the record says so, whoever wrote it). For the steps that put an older
  record in place of a newer one, a restart and a change of model, it needs that
  the older record does not show as sent what waits now (`Sent`). A step that
  sends and accepts nothing is `Quiet`, and `QuietKeeps` says once what such a
  step leaves true; the steps that move messages have lemmas of their own, and
  so has the session that is gone (`AbsentKeeps`).

* `Outbox_proofs`: `TypeCorrect`, `HeldMessageIsKept`, `MessagesArriveInOrder`,
  `RemovedMessageIsNotSent`, `MessageIsSentOnce`: every property that Held.cfg
  checks. Outbox and file are treated as sets of entries, which their ids tell
  apart and put in order (`Holding`: ids increase, so `NextId` is above them all);
  seven lemmas say what each operator does to that set. The invariant that all
  share is `Base == Types /\ Lines /\ Lists /\ Before /\ Picked`. `Lines` says whose
  each request is: one worker's or caller's, who waits for it as long as its
  connection is open; with it an answer is never heard by another. `Lists`: outbox
  and file hold a message at most once, an entry that was not refused is marked
  so, and whatever is in the outbox is in the file under the same id (a failed
  write leaves there what was). `Picked`: what is being delivered is an entry of the
  outbox, unchanged, or it went with its session; then it is marked "cut", and an
  entry that took its id up was written to a file without it. That is all that
  stands between a settled id and another message, and why the properties say
  `Confused`. `HeldStep` reduces the steps to seven things that happen to held
  messages, `MovesIs` to nine that a worker does, `CarriesIs` to four that happen
  on the lines; the layers are proved over these.
  `HeldIsKeptUnlessCut` needs `Confirmed` (what a worker settles as sent, the server
  has) and holds until a message is lost for good (`ForGood`). `InOrder` needs that
  a message on its way past the outbox has those before it delivered, which the
  look under the lock and the choice of the first entry give, and that their ids
  are smaller (`Follows`). `RemovedIsNotSent` needs `Doubtless`: an entry that is not
  uncertain was never written to a connection, or its worker still waits for it
  (`Certain`). `SentOnce` needs it too, for what is sent without a look, and that
  whatever may be sent now has no copy at the server, or its session is gone
  (`Safe`).
  Two of the theorems have the hypothesis `Different`: two messages of one session
  do not read the same, written or edited. The code needs it, because a look
  compares texts (`arrived`); section 4 shows how a message is lost without it.
  The other two hold while the link is the same, and `SentOnce` without a late
  request or a message the look missed: these are conditions of the properties
  themselves.

Model-checked only: liveness, which this prover cannot treat. Every invariant and
every action property of a passing run is stated by a theorem.

## 6. Plan

1. *(done)* Session, AgentService, MessageDelivery; type correctness, one copy,
   at most once.
2. *(done)* Outbox: messages held for an unreachable server.
3. *(done)* Questions, SessionActions, Moving: what a session meets besides its
   messages.
4. *(done)* Transport and Watching, with their proofs.
5. *(done)* The proofs of Moving.
6. *(done)* The proofs of Questions and SessionActions: every safety property
   their runs check.
7. *(done)* The refinement of MessageDelivery, and what AgentService tells its
   users.
8. *(done)* The proofs of Outbox: every property its run checks.
9. *(done)* `Moving!OneCopyGoesOn` for one computer.

## 7. Not modelled

* The Claude worker is a second provider behind the same handler with its own
  protocol; the Codex worker was chosen because it is the larger one.
* Notifications, the Slack runtime and the pull request cache follow the
  sessions from outside and change none of what is modelled here.
* Server environments, onboarding, sandbox, workspaces and shells are sequences
  of external commands (ssh, git, package managers) whose outcome is not in this
  code.
* The remote listener and the phone API carry the same requests and views; the
  terminal interface is rendering and key handling, of which only the part that
  takes in a watched session is modelled.
* Review, guide and conflict jobs run once, without queue or resumption; diff,
  tree, Markdown and storage are sequential data processing; the iOS app is a
  client of the phone API in another language.
* In the modelled parts: lists of sessions, permissions, plan and voice states,
  folders, attachments, the upgrade of a running service and requests refused
  while a server is away.
