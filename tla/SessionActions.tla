--------------------------- MODULE SessionActions ---------------------------
(***************************************************************************)
(* Changes made to a session as a whole: Clear, Repository, a change of    *)
(* model and Delete.  A user asks for one through Service::handle, which   *)
(* holds the session's action lock meanwhile.  The agent asks for one with *)
(* a tool, and the service applies it when the turn is over: the main loop *)
(* finds the session due, takes its actions, and a thread of its own sends *)
(* them through handle, one after the other.  Messages queued meanwhile    *)
(* wait for them.                                                          *)
(*                                                                         *)
(* Neither the main loop nor that thread holds the action lock between two *)
(* requests, and the worker of the session and the flush never take it.    *)
(***************************************************************************)
EXTENDS Naturals, SequencesExt

CONSTANTS
  Tools,        \* the kinds of action the agent schedules
  Requests,     \* the kinds of request a user makes
  MaxMessages,  \* bound: messages the user writes, numbered in order
  MaxRequests,  \* bound: requests of the user other than messages
  MaxFaults     \* bound: restarts, and steps that fail

Kinds == {"model", "clear", "repository"}

ASSUME SessionActionsAssumption ==
  /\ Tools \subseteq Kinds
  /\ Requests \subseteq Kinds \cup {"delete"}
  /\ {MaxMessages, MaxRequests, MaxFaults} \subseteq Nat

VARIABLES
  mem,      \* the record in the store, or Gone
  file,     \* what <id>.json holds, or Gone
  tree,     \* the managed worktree is on disk
  media,    \* the attachments are on disk
  worker,   \* what the session's worker is doing
  initial,  \* the prompt the worker is started with
  stirred,  \* the engine has handled something and looks at the queue next
  job,      \* the request that holds the action lock
  apply,    \* the thread that applies scheduled actions
  freed,    \* a thread that has applied them, and goes on to the queue
  due,      \* the main loop saw the session due, and how its turn had ended
  listed,   \* the flush saw the session
  written,  \* messages 1..written have been written
  left,     \* what is left of the bounds
  history   \* what happened, for the properties

vars == <<mem, file, tree, media, worker, initial, stirred, job, apply, freed,
          due, listed, written, left, history>>

Messages == 1..MaxMessages
Continue == 0      \* the prompt of Control::Resume
Gone     == [status |-> "Gone"]

Stages == {"None", "Stopping", "Worktree", "Attachments", "History"}

\* ready is workspace_ready; chat the prompts given to the provider, unsent
\* those shown as unsent.
Session ==
  [status : {"Starting", "Running", "Idle", "Interrupted", "Failed"},
   thread : BOOLEAN, ready : BOOLEAN, queue : Seq(Messages),
   chat : SUBSET Messages, unsent : SUBSET Messages,
   actions : Seq(Kinds), applying : BOOLEAN,
   clearing : BOOLEAN, stage : Stages]

Active(s)    == s.status \in {"Starting", "Running"}
Preparing(s) == s.status = "Starting" /\ ~(s.thread /\ s.ready)

\* Messages shown in the session.
Shown(s) == s.chat \cup s.unsent \cup Range(s.queue)

\* "wait": an empty session waits for its first message.
Worker == {"off", "prepare", "wait", "connect", "engine"}

NoJob == [by |-> "none", kind |-> "none", step |-> "none", read |-> Gone]

\* aside: the queue taken out of the session; live: it had a worker.
NoApply == [step |-> "off", todo |-> <<>>, aside |-> <<>>, live |-> FALSE]
NoFreed == [step |-> "off", live |-> FALSE]

-----------------------------------------------------------------------------
(* The record *)

QueueUnsent(s) ==
  [s EXCEPT !.queue = <<>>, !.unsent = @ \cup Range(s.queue)]

\* Mutant: only what was taken counts.
HoldsUntilTaken(s) == s.actions # <<>>

\* Schedule::holds_queue
HoldsQueue(s) == s.actions # <<>> \/ s.applying

\* The schedule is not part of the file.
Saved(s) == [s EXCEPT !.actions = <<>>, !.applying = FALSE]

\* Mutant: a turn goes on in the record.
WorkerEndedQuietly(s, cancelled) ==
  [QueueUnsent(s) EXCEPT !.status = IF cancelled THEN @ ELSE "Failed"]

\* The worker stopped: it was told to, or of an error of its own.
WorkerEnded(s, cancelled) ==
  [QueueUnsent(s) EXCEPT
     !.status = IF ~cancelled THEN "Failed"
                ELSE IF Active(s) THEN "Interrupted" ELSE @]

\* server::reset_workspace
ResetWorkspace(s) == [QueueUnsent(s) EXCEPT !.status = "Idle", !.ready = FALSE]

\* server::clear_conversation, and the status Clear sets with it.
ClearConversation(s) ==
  [s EXCEPT !.chat = {}, !.unsent = {}, !.thread = FALSE, !.actions = <<>>,
            !.status = "Starting"]

\* A kind replaces an earlier one of its own; one destructive kind only.
Schedule(s, k) ==
  IF k \in Range(s.actions) THEN s ELSE [s EXCEPT !.actions = Append(@, k)]

Destructive == {"clear", "repository"}

\* server::after_restart, for a file that was being cleared or deleted or not.
AfterRestart(s) ==
  LET retiring == s.clearing \/ s.stage # "None"
      resumes  == Active(s) /\ s.thread /\ ~retiring
      marked   == [s EXCEPT !.clearing = FALSE, !.stage = "None",
                            !.status = IF Active(s) THEN "Interrupted" ELSE @]
  IN  IF resumes THEN [marked EXCEPT !.status = "Starting"]
      ELSE QueueUnsent(marked)

-----------------------------------------------------------------------------
(* Writing the store and its file *)

\* Mutant: the record the caller had listed is written, known or not.
SaveListed(s) ==
  file' = IF s = Gone THEN [status |-> "Idle"] ELSE Saved(s)

\* Store::save: a session that is no longer known is not written.
Save(s) == file' = IF s = Gone THEN file ELSE Saved(s)

\* Store::update, and the same followed by a save.
Update(s) == mem' = s /\ UNCHANGED file
UpdateAndSave(s) == mem' = s /\ Save(s)

NewSession ==
  [status |-> "Running", thread |-> TRUE, ready |-> TRUE, queue |-> <<>>,
   chat |-> {}, unsent |-> {}, actions |-> <<>>, applying |-> FALSE,
   clearing |-> FALSE, stage |-> "None"]

\* A connected session in the turn of its first prompt.
Init ==
  /\ mem = NewSession /\ file = NewSession
  /\ tree = TRUE /\ media = TRUE
  /\ worker = "engine" /\ initial = <<>> /\ stirred = FALSE
  /\ job = NoJob /\ apply = NoApply /\ freed = NoFreed
  /\ due = "no" /\ listed = FALSE
  /\ written = 0
  /\ left = [requests |-> MaxRequests, faults |-> MaxFaults]
  /\ history = [cleared |-> {}, lost |-> {}, refused |-> {}, stranded |-> {},
                overwrote |-> FALSE, raced |-> FALSE]

Known == mem # Gone
Disk  == <<tree, media>>
Work  == <<worker, initial, stirred>>
Loop  == <<due, listed, freed>>
Ghosts == <<written, left, history>>

Fault == /\ left.faults > 0
         /\ left' = [left EXCEPT !.faults = @ - 1]

-----------------------------------------------------------------------------
(* The worker *)

\* Store and worker once stop_worker has joined the worker.
WorkerStopped(s) ==
  IF worker = "off" THEN s
  ELSE [WorkerEnded(s, TRUE) EXCEPT !.clearing = @ /\ worker # "prepare"]

StopWorker == worker' = "off" /\ initial' = <<>> /\ stirred' = FALSE

\* Service::start with a command (a prompt or, <<>>, RefreshShells): a live
\* worker is sent it, and a stopped one is started with it.
StartWith(prompt) ==
  IF worker = "off"
    THEN worker' = "connect" /\ initial' = prompt /\ stirred' = FALSE
    ELSE worker' = worker /\ initial' = initial /\ stirred' = (worker = "engine")

\* Service::start without one, for an empty session.
StartEmpty ==
  IF worker = "off"
    THEN worker' = "prepare" /\ initial' = <<>> /\ stirred' = FALSE
    ELSE UNCHANGED Work

\* startup::prepare: a fresh worktree for an empty session.
Prepared ==
  /\ worker = "prepare" /\ Known
  /\ UpdateAndSave([mem EXCEPT !.status = "Idle", !.clearing = FALSE, !.ready = TRUE])
  /\ tree' = TRUE
  /\ worker' = "wait"
  /\ UNCHANGED <<media, initial, stirred, job, apply, Loop, Ghosts>>

PrepareFails ==
  /\ worker = "prepare" /\ Known /\ Fault
  /\ UpdateAndSave(WorkerEnded([mem EXCEPT !.clearing = FALSE], FALSE))
  /\ StopWorker
  /\ UNCHANGED <<Disk, job, apply, Loop, written, history>>

\* startup::prepare goes on to the provider with the first message.
FirstMessage ==
  /\ worker = "wait" /\ Known /\ mem.queue # <<>>
  /\ UpdateAndSave([mem EXCEPT !.status = "Starting"])
  /\ worker' = "connect"
  /\ UNCHANGED <<Disk, initial, stirred, job, apply, Loop, Ghosts>>

\* engine::run up to its loop: the workspace, the connection, and the prompt
\* the worker was started with.
Connected ==
  /\ worker = "connect" /\ Known
  /\ tree \/ ~mem.ready
  /\ tree' = TRUE
  /\ UpdateAndSave(
       [mem EXCEPT !.ready = TRUE, !.thread = TRUE,
                   !.status = IF initial = <<>> THEN "Idle" ELSE "Running",
                   !.chat = @ \cup (Range(initial) \ {Continue})])
  /\ worker' = "engine" /\ initial' = <<>> /\ stirred' = TRUE
  /\ UNCHANGED <<media, job, apply, Loop, Ghosts>>

ConnectFails ==
  /\ worker = "connect" /\ Known
  /\ \/ ~tree /\ mem.ready /\ UNCHANGED left
     \/ Fault
  /\ UpdateAndSave(WorkerEnded(mem, FALSE))
  /\ StopWorker
  /\ UNCHANGED <<Disk, job, apply, Loop, written, history>>

\* The session was deleted under its worker.
WorkerForgotten ==
  /\ worker # "off" /\ ~Known
  /\ StopWorker
  /\ UNCHANGED <<mem, file, Disk, job, apply, Loop, Ghosts>>

\* engine::send_queued, up to the turn the first message starts.
SendQueued ==
  /\ worker = "engine" /\ stirred /\ Known
  /\ stirred' = FALSE
  /\ IF mem.status = "Idle" /\ mem.queue # <<>> /\ ~HoldsQueue(mem)
       THEN UpdateAndSave([mem EXCEPT !.status = "Running",
                                      !.chat = @ \cup {Head(mem.queue)},
                                      !.queue = Tail(@)])
       ELSE UNCHANGED <<mem, file>>
  /\ UNCHANGED <<Disk, worker, initial, job, apply, Loop, Ghosts>>

\* A tool of the agent, during its turn (session_tools::schedule).
AgentSchedules(k) ==
  /\ worker = "engine" /\ Known /\ mem.status = "Running"
  /\ ~(k \in Destructive /\ Range(mem.actions) \cap (Destructive \ {k}) # {})
  /\ UpdateAndSave(Schedule(mem, k))
  /\ UNCHANGED <<Disk, Work, job, apply, Loop, Ghosts>>

\* turn/completed; a turn that does not finish gives the queue up.
EndTurn(status) ==
  /\ worker = "engine" /\ Known /\ mem.status = "Running"
  /\ Update(IF status = "Idle" THEN [mem EXCEPT !.status = status]
            ELSE [QueueUnsent(mem) EXCEPT !.status = status])
  /\ stirred' = TRUE
  /\ UNCHANGED <<Disk, worker, initial, job, apply, Loop, Ghosts>>

\* The worker stops of an error in its loop.
LoopFails ==
  /\ worker \in {"wait", "engine"} /\ Known /\ Fault
  /\ UpdateAndSave(WorkerEnded(mem, FALSE))
  /\ StopWorker
  /\ UNCHANGED <<Disk, job, apply, Loop, written, history>>

Run == \/ Prepared \/ FirstMessage \/ Connected \/ ConnectFails
       \/ WorkerForgotten \/ SendQueued
       \/ \E status \in {"Idle", "Interrupted", "Failed"} : EndTurn(status)

-----------------------------------------------------------------------------
(* Requests, under the session's action lock *)

Step(step) == job' = [job EXCEPT !.step = step]

\* The request is answered, and whoever sent it goes on.
Done ==
  /\ job' = NoJob
  /\ apply' = IF job.by = "apply" THEN [apply EXCEPT !.step = "done"] ELSE apply

FirstStep(kind) ==
  CASE kind \in {"clear", "delete"} -> "mark"
    [] kind = "model" -> "check"
    [] kind = "message" -> "read"
    [] OTHER -> "stop"

Begin(by, kind) ==
  /\ job = NoJob /\ Known
  /\ job' = [NoJob EXCEPT !.by = by, !.kind = kind, !.step = FirstStep(kind)]

\* A user asks.
Ask(kind) ==
  /\ left.requests > 0
  /\ left' = [left EXCEPT !.requests = @ - 1]
  /\ Begin("user", kind)
  /\ UNCHANGED <<mem, file, Disk, Work, apply, Loop, written, history>>

Write ==
  /\ written < MaxMessages
  /\ written' = written + 1
  /\ Begin("user", "message")
  /\ UNCHANGED <<mem, file, Disk, Work, apply, Loop, left, history>>

At(kind, step) == Known /\ job.kind = kind /\ job.step = step

\* Control::Message: whether it is to be queued is decided on a copy; it is
\* what the user chose (queue) or sent at once.
MessageRead(queue) ==
  /\ At("message", "read")
  /\ Step(IF queue /\ (mem.status = "Running" \/ HoldsQueue(mem))
            THEN "queue" ELSE "send")
  /\ UNCHANGED <<mem, file, Disk, Work, apply, Loop, Ghosts>>

Queued(s) == [s EXCEPT !.queue = Append(@, written)]

MessageQueued ==
  /\ At("message", "queue")
  /\ UpdateAndSave(Queued(mem))
  /\ Done
  /\ UNCHANGED <<Disk, Work, Loop, Ghosts>>

MessageSent ==
  /\ At("message", "send")
  /\ worker = "connect" => Preparing(mem)
  /\ Done
  /\ IF Preparing(mem) \/ worker = "wait"
       THEN UpdateAndSave(Queued(mem)) /\ UNCHANGED <<Work, history>>
     ELSE IF worker = "engine"
       THEN /\ UpdateAndSave([mem EXCEPT !.chat = @ \cup {written},
                                         !.status = "Running"])
            /\ stirred' = TRUE
            /\ UNCHANGED <<worker, initial, history>>
     ELSE IF ~Active(mem)
       THEN /\ UpdateAndSave([mem EXCEPT !.chat = @ \cup {written},
                                         !.status = "Starting"])
            /\ StartWith(<<written>>)
            /\ UNCHANGED history
     ELSE /\ history' = [history EXCEPT !.refused = @ \cup {written}]
          /\ UNCHANGED <<mem, file, Work>>
  /\ UNCHANGED <<Disk, Loop, written, left>>

\* Control::Model for another provider: between turns, with an empty queue.
\* The worker is joined, and the changed copy of the record written back.
ModelChecked ==
  /\ At("model", "check")
  /\ IF Active(mem) \/ mem.queue # <<>>
       THEN Done /\ UNCHANGED <<mem, file, Work>>
       ELSE /\ Step("read")
            /\ UpdateAndSave(WorkerStopped(mem))
            /\ StopWorker
            /\ UNCHANGED apply
  /\ UNCHANGED <<Disk, Loop, Ghosts>>

ModelRead ==
  /\ At("model", "read")
  /\ IF Active(mem) \/ mem.queue # <<>> THEN Done
     ELSE /\ job' = [job EXCEPT !.step = "write", !.read = mem]
          /\ UNCHANGED apply
  /\ UNCHANGED <<mem, file, Disk, Work, Loop, Ghosts>>

ModelWritten ==
  /\ At("model", "write")
  /\ UpdateAndSave([job.read EXCEPT !.status = "Idle", !.thread = FALSE])
  /\ history' = IF mem = job.read THEN history
                ELSE [history EXCEPT !.overwrote = TRUE]
  /\ Done
  /\ UNCHANGED <<Disk, Work, Loop, written, left>>

\* Request::Clear: one at a time, and what can be validated first.
Marked ==
  /\ At("clear", "mark")
  /\ IF mem.clearing THEN Done /\ UNCHANGED <<mem, file>>
     ELSE Update([mem EXCEPT !.clearing = TRUE]) /\ Step("stop") /\ UNCHANGED apply
  /\ UNCHANGED <<Disk, Work, Loop, Ghosts>>

\* Clear, Repository and Delete stop the session first.
Stopped ==
  /\ Known /\ job.step = "stop" /\ job.kind # "delete"
  /\ Step("discard")
  /\ UpdateAndSave(WorkerStopped(mem))
  /\ StopWorker
  /\ UNCHANGED <<Disk, apply, Loop, Ghosts>>

Discarded ==
  /\ Known /\ job.step = "discard"
  /\ tree' = FALSE
  /\ Step("reset")
  /\ UNCHANGED <<mem, file, media, Work, apply, Loop, Ghosts>>

Reset ==
  /\ Known /\ job.step = "reset"
  /\ IF job.kind = "clear"
       THEN /\ UpdateAndSave(ClearConversation(ResetWorkspace(mem)))
            /\ history' = [history EXCEPT !.cleared = @ \cup Shown(mem)]
            /\ StartEmpty
       ELSE UpdateAndSave(ResetWorkspace(mem)) /\ UNCHANGED <<Work, history>>
  /\ Done
  /\ UNCHANGED <<Disk, Loop, written, left>>

\* Mutant: the session is left marked.
ClearFailsMarked ==
  /\ Known /\ job.kind = "clear" /\ job.step \in {"stop", "discard", "reset"}
  /\ Fault
  /\ Done
  /\ UNCHANGED <<mem, file, Disk, Work, Loop, written, history>>

\* Validating, discarding or what comes before the reset fails.
ClearFails ==
  /\ Known /\ job.kind = "clear" /\ job.step \in {"stop", "discard", "reset"}
  /\ Fault
  /\ UpdateAndSave([mem EXCEPT !.clearing = FALSE])
  /\ Done
  /\ UNCHANGED <<Disk, Work, Loop, written, history>>

\* The reset session cannot be saved, or its worker not be started.
ClearFailsLate ==
  /\ At("clear", "reset") /\ Fault
  /\ UpdateAndSave([ClearConversation(ResetWorkspace(mem)) EXCEPT !.clearing = FALSE])
  /\ history' = [history EXCEPT !.cleared = @ \cup Shown(mem)]
  /\ Done
  /\ UNCHANGED <<Disk, Work, Loop, written>>

RepositoryFails ==
  /\ Known /\ job.kind = "repository" /\ Fault
  /\ Done
  /\ UNCHANGED <<mem, file, Disk, Work, Loop, written, history>>

\* Request::Delete, stage by stage.
DeleteMarked ==
  /\ At("delete", "mark")
  /\ Update([mem EXCEPT !.stage = "Stopping"])
  /\ Step("stop")
  /\ UNCHANGED <<Disk, Work, apply, Loop, Ghosts>>

DeleteStopped ==
  /\ At("delete", "stop")
  /\ Update([WorkerStopped(mem) EXCEPT
               !.status = IF Active(mem) THEN "Interrupted" ELSE @,
               !.stage = "Worktree"])
  /\ StopWorker
  /\ Step("worktree")
  /\ UNCHANGED <<Disk, apply, Loop, Ghosts>>

DeleteWorktree ==
  /\ At("delete", "worktree")
  /\ tree' = FALSE
  /\ Update([mem EXCEPT !.stage = "Attachments"])
  /\ Step("media")
  /\ UNCHANGED <<media, Work, apply, Loop, Ghosts>>

DeleteMedia ==
  /\ At("delete", "media")
  /\ media' = FALSE
  /\ Update([mem EXCEPT !.stage = "History"])
  /\ Step("history")
  /\ UNCHANGED <<tree, Work, apply, Loop, Ghosts>>

\* The file and the record go together, under the save lock.
DeleteHistory ==
  /\ At("delete", "history")
  /\ mem' = Gone /\ file' = Gone
  /\ Done
  /\ UNCHANGED <<Disk, Work, Loop, Ghosts>>

DeleteFails ==
  /\ Known /\ job.kind = "delete" /\ job.step # "mark" /\ Fault
  /\ UpdateAndSave([mem EXCEPT !.stage = "None"])
  /\ Done
  /\ UNCHANGED <<Disk, Work, Loop, written, history>>

Handle ==
  \/ \E queue \in BOOLEAN : MessageRead(queue)
  \/ MessageQueued \/ MessageSent
  \/ ModelChecked \/ ModelRead \/ ModelWritten
  \/ Marked \/ Stopped \/ Discarded \/ Reset
  \/ DeleteMarked \/ DeleteStopped \/ DeleteWorktree \/ DeleteMedia
  \/ DeleteHistory

-----------------------------------------------------------------------------
(* The scheduled actions *)

\* Service::scheduled_actions, run by the main loop: the sessions are looked
\* at, and then each one that is due has its actions taken.
SeeDue ==
  /\ due = "no" /\ apply.step = "off" /\ Known
  /\ ~Active(mem) /\ ~mem.applying /\ mem.actions # <<>>
  /\ due' = IF mem.status = "Idle" THEN "finished" ELSE "unfinished"
  /\ UNCHANGED <<mem, file, Disk, Work, job, apply, freed, listed, Ghosts>>

TakeDue ==
  /\ due # "no"
  /\ due' = "no"
  /\ IF Known
       THEN /\ LET taken == [mem EXCEPT !.actions = <<>>,
                                        !.applying = (due = "finished")]
               IN  IF due = "finished" THEN Update(taken) ELSE UpdateAndSave(taken)
            /\ apply' = IF due = "finished"
                          THEN [NoApply EXCEPT !.step = "next", !.todo = mem.actions,
                                               !.live = (worker # "off")]
                          ELSE apply
            /\ history' = IF due = "finished" THEN history
                          ELSE [history EXCEPT !.stranded = @ \cup Range(mem.queue)]
       ELSE UNCHANGED <<mem, file, apply, history>>
  /\ UNCHANGED <<Disk, Work, job, freed, listed, written, left>>

\* A change of model needs an empty queue: the queue waits aside.
TakeAside ==
  /\ apply.step = "next" /\ Known /\ apply.todo # <<>>
  /\ IF Head(apply.todo) = "model"
       THEN /\ apply' = [apply EXCEPT !.step = "ask", !.aside = mem.queue]
            /\ Update([mem EXCEPT !.queue = <<>>])
       ELSE /\ apply' = [apply EXCEPT !.step = "ask"]
            /\ UNCHANGED <<mem, file>>
  /\ UNCHANGED <<Disk, Work, job, Loop, Ghosts>>

AskScheduled ==
  /\ apply.step = "ask" /\ Known
  /\ Begin("apply", Head(apply.todo))
  /\ apply' = [apply EXCEPT !.step = "asked"]
  /\ UNCHANGED <<mem, file, Disk, Work, Loop, Ghosts>>

\* Mutants: what came meanwhile goes first, and it is dropped.
PutBackLast(s) == [s EXCEPT !.queue = @ \o apply.aside]
PutBackOnly(s) == [s EXCEPT !.queue = apply.aside]

\* What was taken aside goes before what came meanwhile.
PutBack(s) == [s EXCEPT !.queue = apply.aside \o @]

Applied ==
  /\ apply.step = "done" /\ Known
  /\ UpdateAndSave(PutBack(mem))
  /\ apply' = [apply EXCEPT !.step = "next", !.todo = Tail(@), !.aside = <<>>]
  /\ UNCHANGED <<Disk, Work, job, Loop, Ghosts>>

\* The queue is released when the thread drops its guard.
Release ==
  /\ apply.step = "next" /\ Known /\ apply.todo = <<>>
  /\ freed = NoFreed
  /\ Update([mem EXCEPT !.applying = FALSE])
  /\ apply' = NoApply
  /\ freed' = [step |-> "look", live |-> apply.live]
  /\ UNCHANGED <<Disk, Work, job, due, listed, Ghosts>>

\* Every request about a deleted session fails.
ApplyForgotten ==
  /\ apply.step # "off" /\ ~Known
  /\ apply' = NoApply
  /\ UNCHANGED <<mem, file, Disk, Work, job, Loop, Ghosts>>

Apply == TakeAside \/ AskScheduled \/ Applied \/ Release \/ ApplyForgotten

\* What the thread does then, while the session may be due again.
LookAtQueue ==
  /\ freed.step = "look" /\ Known
  /\ freed' = IF mem.status = "Idle" /\ mem.queue # <<>> /\ (freed.live \/ worker # "off")
                THEN [freed EXCEPT !.step = "nudge"] ELSE NoFreed
  /\ history' = IF mem.status \in {"Interrupted", "Failed"}
                  THEN [history EXCEPT !.stranded = @ \cup Range(mem.queue)]
                  ELSE history
  /\ UNCHANGED <<mem, file, Disk, Work, job, apply, due, listed, written, left>>

\* Mutant: the worker is left alone.
NudgeNot ==
  /\ freed.step = "nudge" /\ Known
  /\ freed' = NoFreed
  /\ UNCHANGED <<mem, file, Disk, Work, job, apply, due, listed, Ghosts>>

\* RefreshShells makes the worker look at its queue, and starts it when it was
\* stopped.  No lock is held.
Nudge ==
  /\ freed.step = "nudge" /\ Known
  /\ StartWith(<<>>)
  /\ freed' = NoFreed
  /\ history' = [history EXCEPT !.raced = @ \/ (job # NoJob /\ worker = "off")]
  /\ UNCHANGED <<mem, file, Disk, job, apply, due, listed, written, left>>

FreedForgotten ==
  /\ freed.step # "off" /\ ~Known
  /\ freed' = NoFreed
  /\ UNCHANGED <<mem, file, Disk, Work, job, apply, due, listed, Ghosts>>

Freed == LookAtQueue \/ Nudge \/ FreedForgotten

-----------------------------------------------------------------------------
(* The flush, and the end of the service *)

\* The main loop lists the sessions, and then saves those that changed.
ListSessions ==
  /\ ~listed /\ Known /\ file # Saved(mem)
  /\ listed' = TRUE
  /\ UNCHANGED <<mem, file, Disk, Work, job, apply, due, freed, Ghosts>>

Flush ==
  /\ listed
  /\ Save(mem)
  /\ listed' = FALSE
  /\ UNCHANGED <<mem, Disk, Work, job, apply, due, freed, Ghosts>>

Accepted == 1..written \ (IF job.kind = "message" THEN {written} ELSE {})

\* The service dies and is started again; it continues what was in a turn.
Restart ==
  /\ Fault
  /\ mem' = IF file = Gone THEN Gone ELSE AfterRestart(file)
  /\ file' = mem'
  /\ worker' = IF mem' # Gone /\ Active(mem') THEN "connect" ELSE "off"
  /\ initial' = IF worker' = "off" THEN <<>> ELSE <<Continue>>
  /\ stirred' = FALSE
  /\ job' = NoJob /\ apply' = NoApply /\ freed' = NoFreed
  /\ due' = "no" /\ listed' = FALSE
  /\ history' = [history EXCEPT
                   !.lost = @ \cup Range(apply.aside),
                   !.refused = @ \cup (1..written \ Accepted)]
  /\ UNCHANGED <<Disk, written>>

Fail == \/ PrepareFails \/ LoopFails \/ ClearFails \/ ClearFailsLate
        \/ RepositoryFails \/ DeleteFails

Next ==
  \/ Run \/ Handle \/ Apply \/ Freed \/ Fail \/ Restart
  \/ SeeDue \/ TakeDue \/ ListSessions \/ Flush
  \/ Write
  \/ \E kind \in Requests : Ask(kind)
  \/ \E kind \in Tools : AgentSchedules(kind)

\* Every thread goes on with what it has begun: the worker, the request under
\* the lock, the thread that applies, the main loop.  Turns end; nobody has to
\* ask, and nothing has to fail.
Spec == /\ Init /\ [][Next]_vars
        /\ WF_vars(Run) /\ WF_vars(Handle) /\ WF_vars(Apply)
        /\ WF_vars(Freed)
        /\ WF_vars(SeeDue) /\ WF_vars(TakeDue)
        /\ WF_vars(ListSessions) /\ WF_vars(Flush)

-----------------------------------------------------------------------------
(* Properties *)

Prompts(s) == Range(s) \subseteq Messages /\ Len(s) <= MaxMessages

SessionOK(s) ==
  /\ s.status \in {"Starting", "Running", "Idle", "Interrupted", "Failed"}
  /\ {s.thread, s.ready, s.applying, s.clearing} \subseteq BOOLEAN
  /\ Prompts(s.queue) /\ s.chat \cup s.unsent \subseteq Messages
  /\ Range(s.actions) \subseteq Tools /\ s.stage \in Stages

\* Types, and what the record, the worker and the lock say of one another: a
\* turn runs in a worker, and so does a session that starts, unless it has yet
\* to be prepared.
TypeOK ==
  /\ Known => SessionOK(mem)
  /\ file # Gone => SessionOK(file)
  /\ worker \in Worker /\ Range(initial) \subseteq Messages \cup {Continue}
  /\ job.by = "apply" <=> apply.step = "asked"
  /\ Prompts(apply.aside)
  /\ due \in {"no", "finished", "unfinished"}
  /\ Known /\ Active(mem) => worker # "off" \/ Preparing(mem)

\* A deleted session stays deleted: neither the flush that had listed it, nor
\* a worker, nor the thread that applies its actions writes its file again.
DeletedStaysDeleted == ~Known => file = Gone

\* A message that was accepted is in the queue, beside it, in the chat or
\* shown as unsent, or it was cleared.  (lost: the service died while it was
\* aside; overwrote: a change of model wrote back an older record.)
NothingVanishes ==
  Known /\ ~history.overwrote =>
    Accepted \subseteq Shown(mem) \cup Range(apply.aside) \cup history.cleared
                       \cup history.lost \cup history.refused

\* Messages wait in the order they were written, those aside first.
InOrder ==
  Known => LET q == apply.aside \o mem.queue
           IN  \A i, j \in DOMAIN q : i < j => q[i] < q[j]

\* No queued message is sent while scheduled actions are being applied
\* (session_tools.rs: "messages queued meanwhile wait until they have been
\* applied"): a message leaves the queue for the chat only when the thread has
\* let go of it, whatever the record says of it.
HeldUntilApplied ==
  [][\A m \in Messages :
       Known /\ mem' # Gone /\ ~history.overwrote
         /\ m \in Range(mem.queue) /\ m \in mem'.chat
         => apply.step = "off" /\ mem.actions = <<>>]_vars

\* A queue that waits for scheduled actions is released: each message leaves
\* it, or its session has no worker and waits for its user.  (stranded:
\* released when the actions were cancelled or the session was interrupted.)
QueueIsReleased ==
  \A m \in Messages :
    (Known /\ HoldsQueue(mem) /\ m \in Range(mem.queue))
      ~> (\/ ~Known \/ m \notin Range(mem.queue)
          \/ worker = "off" \/ m \in history.stranded
          \/ history.overwrote \/ history.raced)

\* Violated.  The doc of session_tools: a session is not cleared, nor its
\* repository changed, by its own agent in the middle of a turn.
NotInATurn ==
  [][job.by = "apply" /\ job.step = "stop" /\ job'.step = "discard"
       => ~Active(mem)]_vars

\* Violated.  Comment at server.rs:1163: the queue waits aside and keeps its order.
SwitchKeepsQueue ==
  Known => Accepted \subseteq Shown(mem) \cup Range(apply.aside) \cup history.cleared
                              \cup history.lost \cup history.refused

\* A session stops being cleared, whatever fails: until it does, it takes
\* neither another Clear nor, from the terminal, a message.
ClearingEnds == (Known /\ mem.clearing) ~> (~Known \/ ~mem.clearing \/ history.raced)

\* Violated.  Comment at server.rs:2079: a cleared session "prepares the
\* worktree", in a worker; messages to one that starts are queued for it.
StartingHasWorker == Known /\ mem.status = "Starting" => worker # "off"

\* Violated.  A deleted session leaves nothing behind.
NothingLeftBehind == file = Gone => ~tree /\ ~media

=============================================================================
