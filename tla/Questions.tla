------------------------------ MODULE Questions ------------------------------
(***************************************************************************)
(* The question panel of a Codex session.  An agent asks in two ways.  A   *)
(* request of the provider blocks its turn until one response is written,  *)
(* or until the provider resolves it by itself.  A note is an agent        *)
(* message that carries questions: the turn goes on, each answer is sent   *)
(* as a message of its own, and the panel keeps what is unanswered, across *)
(* turns and restarts of the service, until it is answered, skipped by the *)
(* user or removed by the agent.                                           *)
(*                                                                         *)
(* Three parties touch the panel: the handler of a user's control, which   *)
(* skips a question itself and sends everything else to the worker; the    *)
(* worker, which applies the provider's events also while it waits for a   *)
(* reply; and the provider.                                                *)
(***************************************************************************)
EXTENDS Naturals, SequencesExt

CONSTANTS
  Notes,      \* agent messages that carry questions
  Requests,   \* blocking requests of the provider
  Parts,      \* the questions of each; none for an approval
  MaxAsks,    \* bound: controls of the user
  MaxSays,    \* bound: messages, requests and tool calls of the provider
  MaxTurns,   \* bound: turns of the provider
  MaxFaults   \* bound: lost replies, timeouts, failures and restarts

Items  == Notes \cup Requests
NoItem == "chat"

ASSUME QuestionsAssumption ==
  /\ NoItem \notin Items
  /\ Notes \cap Requests = {}
  /\ Parts \in [Items -> SUBSET (Nat \ {0})]
  /\ \A n \in Notes : Parts[n] # {}
  /\ {MaxAsks, MaxSays, MaxTurns, MaxFaults} \subseteq Nat

VARIABLES
  mem,       \* the session in the store
  disk,      \* what its file holds
  handler,   \* the handler of a control
  inbox,     \* commands the worker has not taken
  worker,    \* what the worker is doing
  provider,  \* the provider's own state
  wire,      \* what the provider has written and the worker has not read
  left,      \* what is left of the bounds
  history    \* what happened, for the properties

vars == <<mem, disk, handler, inbox, worker, provider, wire, left, history>>

Asked    == UNION {{n} \X Parts[n] : n \in Notes}
Chat     == <<NoItem, 0>>          \* a message that answers nothing
Batch(n) == <<n, 0>>               \* all questions of a note in one message
Prompts  == Asked \cup {Chat} \cup {Batch(n) : n \in Notes}

\* panel is pending; answers difuAnswers, per item; finished
\* answered_questions; notes the agent messages among the entries; unsent the
\* prompts shown as unsent; ready workspace_ready.  Failed stands for
\* Interrupted too: both are left the same way.  removal and moving are the
\* tool calls the loop has not handled.
Session ==
  [panel : SUBSET Items, answers : [Items -> SUBSET Nat],
   responded : SUBSET Requests, finished : SUBSET Notes, notes : SUBSET Notes,
   turn : 0..MaxTurns, done : 0..MaxTurns,
   status : {"Starting", "Running", "Waiting", "Idle", "Failed"},
   queue : Seq(Prompts), unsent : SUBSET Prompts,
   switching : BOOLEAN, ready : BOOLEAN, checked : BOOLEAN,
   removal : [turn : 0..MaxTurns, parts : SUBSET Asked], moving : BOOLEAN]

NoRemoval == [turn |-> 0, parts |-> {}]

\* No turn runs, and nothing was asked.
NewSession ==
  [panel |-> {}, answers |-> [i \in Items |-> {}], responded |-> {},
   finished |-> {}, notes |-> {}, turn |-> 0, done |-> 0, status |-> "Idle",
   queue |-> <<>>, unsent |-> {}, switching |-> FALSE, ready |-> FALSE,
   checked |-> FALSE, removal |-> NoRemoval, moving |-> FALSE]

Nothing == [kind |-> "none", item |-> NoItem, part |-> 0, id |-> 0]

Active(s) == s.status \in {"Starting", "Running", "Waiting"}

\* Session::preparing, of a session that has its conversation.
Preparing(s) ==
  Active(s) /\ (s.switching \/ (s.status = "Starting" /\ ~s.ready))

-----------------------------------------------------------------------------
(* The panel *)

\* Pending::unanswered_questions
Unanswered(s, i) == Parts[i] \ s.answers[i]

\* What a note has no answer to yet, as it is shown.
Open(s) == {a \in Asked : a[1] \in s.panel /\ a[2] \in Unanswered(s, a[1])}

\* What is answered, skipped or removed in the record.
Settled(s) == {a \in Asked : a[1] \in s.finished \/ a[2] \in s.answers[a[1]]}

\* Leaves the panel.
Without(s, items) ==
  [s EXCEPT !.panel = @ \ items, !.responded = @ \ items,
            !.answers = [i \in Items |-> IF i \in items THEN {} ELSE @[i]]]

\* pending.retain(is_async_question)
OnlyNotes(s) == Without(s, Requests)

\* Mutant: what is answered can be answered again.
CanAnswerAgain(s, i, q) == i \in s.panel /\ q \in Parts[i]

\* questions::prepare_answer
CanAnswer(s, i, q) ==
  /\ i \in s.panel
  /\ i \in Notes \/ i \notin s.responded
  /\ q \in Unanswered(s, i)

\* Mutant: the answers as they were when this one was prepared.
RecordOver(s, i, answered, responded) ==
  IF i \in Notes /\ answered = Parts[i]
  THEN [Without(s, {i}) EXCEPT !.finished = @ \cup {i}]
  ELSE IF i \in s.panel
  THEN [s EXCEPT !.answers[i] = answered,
                 !.responded = IF responded THEN @ \cup {i} ELSE @ \ {i}]
  ELSE s

\* Mutant: a request that is answered leaves the panel like a note.
RecordAny(s, i, answered, responded) ==
  LET merged == answered \cup s.answers[i]
  IN  IF merged = Parts[i]
      THEN [Without(s, {i}) EXCEPT !.finished = @ \cup {i}]
      ELSE IF i \in s.panel THEN [s EXCEPT !.answers[i] = merged] ELSE s

\* questions::record_answer: what was saved since the answer was prepared is
\* kept, and an item that left the panel does not come back.
RecordAnswer(s, i, answered, responded) ==
  LET merged == answered \cup s.answers[i]
  IN  IF i \in Notes /\ merged = Parts[i]
      THEN [Without(s, {i}) EXCEPT !.finished = @ \cup {i}]
      ELSE IF i \in s.panel
      THEN [s EXCEPT !.answers[i] = merged,
                     !.responded = IF responded THEN @ \cup {i} ELSE @ \ {i}]
      ELSE s

\* Mutant: what is not in the panel is asked.
RestoreAll(s) == [s EXCEPT !.panel = @ \cup s.notes]

\* Session::restore_async_questions
Restore(s) == [s EXCEPT !.panel = @ \cup (s.notes \ s.finished)]

-----------------------------------------------------------------------------
(* The record *)

\* Session::unsent, for all that is queued
QueueUnsent(s) == [s EXCEPT !.queue = <<>>, !.unsent = @ \cup Range(s.queue)]

\* Tool calls are not part of the file.
Saved(s) == [s EXCEPT !.removal = NoRemoval, !.moving = FALSE]

Update(s) == mem' = s /\ UNCHANGED disk
UpdateAndSave(s) == mem' = s /\ disk' = Saved(s)

\* Mutant: a worker's end leaves the panel alone.
WorkerEndedQuietly(s) ==
  [QueueUnsent(s) EXCEPT !.status = "Failed", !.turn = 0, !.switching = FALSE]

\* worker_ended, of an error
WorkerEnded(s) ==
  [QueueUnsent(OnlyNotes(s)) EXCEPT
     !.status = "Failed", !.turn = 0, !.switching = FALSE]

\* after_restart, with what Service::run restores after it
AfterRestart(s) ==
  IF Active(s)
  THEN Restore([OnlyNotes(s) EXCEPT !.status = "Starting", !.turn = 0,
                                    !.switching = FALSE])
  ELSE Restore(QueueUnsent(s))

\* A turn that did not complete drops what was queued, except when it was
\* stopped to switch the workspace.
TurnCompleted(s, outcome) ==
  LET over == [OnlyNotes(s) EXCEPT !.turn = 0, !.moving = FALSE,
                                   !.status = outcome]
  IN  IF outcome # "Idle" /\ ~s.switching THEN QueueUnsent(over) ELSE over

\* "serverRequest/resolved"
Resolved(s, r) ==
  LET gone == Without(s, {r})
  IN  IF gone.panel = {} /\ s.turn # 0
      THEN [gone EXCEPT !.status = "Running"] ELSE gone

\* engine::apply_event
ApplyEvent(s, e) ==
  CASE e.kind = "started"   -> [s EXCEPT !.turn = e.turn, !.status = "Running"]
    [] e.kind = "request"   -> [s EXCEPT !.panel = @ \cup {e.item},
                                         !.status = "Waiting"]
    [] e.kind = "resolved"  -> Resolved(s, e.item)
    [] e.kind = "note"      -> Restore([s EXCEPT !.notes = @ \cup {e.item}])
    [] e.kind = "remove"    -> [s EXCEPT !.removal =
                                      [turn |-> e.turn, parts |-> e.parts]]
    [] e.kind = "move"      -> [s EXCEPT !.moving = TRUE]
    [] e.kind = "completed" ->
         [TurnCompleted(s, e.outcome) EXCEPT !.done = e.turn]

Event(kind) == [kind |-> kind, turn |-> 0, item |-> NoItem, parts |-> {},
                outcome |-> "Idle"]

-----------------------------------------------------------------------------
(* Initial state: an idle session with its worker connected, in the        *)
(* original repository, its worktree not made yet.  A turn before may have *)
(* asked in messages.                                                      *)

\* then: what follows a turn/start or turn/steer.
WorkerSteps == {"off", "guide", "asking", "connect", "initial", "loop", "tidy",
                "queue", "calling", "record", "stopping"}

Idle == [step |-> "off", cmd |-> Nothing, answers |-> {}, changed |-> FALSE,
         after |-> "none", prompt |-> Chat]
Connected == [Idle EXCEPT !.step = "loop"]

Init ==
  /\ \E asked \in SUBSET Notes :
       mem = [NewSession EXCEPT !.panel = asked, !.notes = asked]
  /\ disk = mem
  /\ handler = [step |-> "idle", cmd |-> Nothing, read |-> NewSession]
  /\ inbox = <<>>
  /\ worker = Connected
  /\ provider = [turn |-> 0, last |-> 0, open |-> {}, asked |-> {},
                 call |-> "none"]
  /\ wire = <<>>
  /\ left = [asks |-> MaxAsks, says |-> MaxSays, faults |-> MaxFaults]
  /\ history = [sent |-> [a \in Asked |-> 0], doubt |-> {}, batch |-> {},
                declined |-> {}, queued |-> {}, told |-> {},
                responses |-> [r \in Requests |-> 0]]

Fault == left.faults > 0 /\ left' = [left EXCEPT !.faults = @ - 1]

Disconnected == /\ inbox' = <<>>
                /\ wire' = <<>>
                /\ provider' = [provider EXCEPT !.turn = 0, !.open = {},
                                                !.call = "none"]

Waits(cmd) == handler.step = "waiting" /\ handler.cmd.id = cmd.id

\* The handler has its answer.
Answered(cmd) ==
  IF Waits(cmd)
  THEN handler' = [handler EXCEPT !.step = "idle", !.cmd = Nothing]
  ELSE UNCHANGED handler

\* What a user, or the agent, has been told is settled.
Tell(cmd, asked) ==
  [history EXCEPT !.told = IF Waits(cmd) THEN @ \cup asked ELSE @]

\* The questions a command is about.
Subject(cmd) == IF cmd.kind = "respond" THEN {cmd.item} \X Parts[cmd.item]
                ELSE {<<cmd.item, cmd.part>>} \cap Asked

-----------------------------------------------------------------------------
(* Messages to the provider *)

\* Mutant: an answer is recorded with the intent to send it.
IntendRecorded(s, prompt, steer) ==
  LET told == [s EXCEPT !.unsent = @ \cup {prompt},
                        !.status = IF steer THEN @ ELSE "Starting"]
  IN  IF prompt \in Asked
      THEN RecordAnswer(told, prompt[1], {prompt[2]}, FALSE) ELSE told

\* What is stored before a message is sent: it shows as not sent yet.
Intend(s, prompt, steer) ==
  [s EXCEPT !.unsent = @ \cup {prompt},
            !.status = IF steer THEN @ ELSE "Starting"]

\* engine::send_turn, up to the request: steering while a turn runs.  w keeps
\* what follows the reply.
StartTurn(s, prompt, w) ==
  LET steer == s.turn # 0
  IN  /\ UpdateAndSave(Intend(s, prompt, steer))
      /\ provider' = [provider EXCEPT !.call =
                        IF steer THEN "steer" ELSE "start"]
      /\ worker' = [w EXCEPT !.step = "calling", !.prompt = prompt]

\* The turn is known from the reply as well, unless it is over already.
Acknowledged(s, prompt, n) ==
  LET known == [s EXCEPT !.unsent = @ \ {prompt},
                         !.turn = IF n # s.done THEN n ELSE @]
  IN  IF known.turn # 0 /\ known.panel = {}
      THEN [known EXCEPT !.status = "Running"] ELSE known

Follows(after) == CASE after = "command"              -> "tidy"
                  [] after \in {"initial", "switched"} -> "queue"
                  [] after = "queued"                 -> "loop"

\* The worker's thread ends with an error, and its provider with it.
WorkerDies ==
  /\ UpdateAndSave(WorkerEnded(mem))
  /\ worker' = Idle
  /\ Disconnected
  /\ handler' = IF handler.step = "waiting"
                THEN [handler EXCEPT !.step = "idle", !.cmd = Nothing]
                ELSE handler

-----------------------------------------------------------------------------
(* Service::handle, Request::Control *)

Commands ==
  LET command(k, i, q) ==
        [kind |-> k, item |-> i, part |-> q, id |-> left.asks]
  IN  {command("chat", NoItem, 0)}
      \cup {command("respond", i, 0) : i \in mem.panel}
      \cup UNION {{command(k, i, q) : k \in {"answer", "skip"}, q \in Parts[i]} :
                    i \in mem.panel}

\* The user asks.  A message to a session that is being prepared is queued
\* under the store's lock; anything else starts from a copy of the session.
UserAsks ==
  /\ handler.step = "idle" /\ left.asks > 0
  /\ left' = [left EXCEPT !.asks = @ - 1]
  /\ \E cmd \in Commands :
       IF cmd.kind = "chat" /\ Preparing(mem)
       THEN /\ UpdateAndSave([mem EXCEPT !.queue = Append(@, Chat)])
            /\ UNCHANGED handler
       ELSE /\ handler' = [step |-> "read", cmd |-> cmd, read |-> mem]
            /\ UNCHANGED <<mem, disk>>
  /\ UNCHANGED <<inbox, worker, provider, wire, history>>

Done == handler' = [step |-> "idle", cmd |-> Nothing, read |-> NewSession]

OfNote == handler.cmd.item \in Notes \cap handler.read.panel

\* A question of a note is skipped by the handler itself.
HandlerSkips ==
  LET cmd == handler.cmd
      a   == <<cmd.item, cmd.part>>
  IN  /\ handler.step = "read" /\ cmd.kind = "skip" /\ OfNote
      /\ IF CanAnswer(handler.read, cmd.item, cmd.part)
         THEN /\ UpdateAndSave(RecordAnswer(mem, cmd.item,
                   handler.read.answers[cmd.item] \cup {cmd.part}, FALSE))
              /\ history' = [history EXCEPT !.told = @ \cup {a},
                                            !.declined = @ \cup {a}]
         ELSE UNCHANGED <<mem, disk, history>>
      /\ Done
      /\ UNCHANGED <<inbox, worker, provider, wire, left>>

\* Everything else goes to the worker.  Without one, a message or an answer
\* to a note starts it and is not waited for.
HandlerSends ==
  LET cmd   == handler.cmd
      sends == cmd.kind = "chat" \/ OfNote
      ended == handler.read.status = "Failed"
  IN  /\ handler.step = "read" /\ ~(cmd.kind = "skip" /\ OfNote)
      /\ \/ /\ ~sends
            /\ ended \/ worker.step = "off"
            /\ Done
            /\ UNCHANGED <<mem, disk, inbox, worker>>
         \/ /\ ended => sends
            /\ worker.step # "off"
            /\ inbox' = Append(inbox, cmd)
            /\ handler' = [step |-> "waiting", cmd |-> cmd, read |-> NewSession]
            /\ UNCHANGED <<mem, disk, worker>>
         \/ /\ sends /\ ~ended /\ handler.read.status # "Idle"
            /\ worker.step = "off"
            /\ Done
            /\ UNCHANGED <<mem, disk, inbox, worker>>
         \/ /\ sends /\ (ended \/ handler.read.status = "Idle")
            /\ worker.step = "off"
            /\ UpdateAndSave([mem EXCEPT !.status = "Starting"])
            /\ worker' = [Idle EXCEPT !.step = "guide", !.cmd = cmd]
            /\ Done
            /\ UNCHANGED inbox
      /\ UNCHANGED <<provider, wire, left, history>>

\* 60 seconds without a reply: the command stays with the worker.
HandlerGivesUp ==
  /\ handler.step = "waiting" /\ Fault /\ Done
  /\ UNCHANGED <<mem, disk, inbox, worker, provider, wire, history>>

-----------------------------------------------------------------------------
(* The worker: before it is connected *)

\* guidance::confirm: files the new worktree misses are asked about.
Guide ==
  /\ worker.step = "guide"
  /\ \/ /\ mem.ready /\ ~mem.checked
        /\ UpdateAndSave([mem EXCEPT !.status = "Waiting"])
        /\ worker' = [worker EXCEPT !.step = "asking"]
     \/ /\ UpdateAndSave(IF mem.ready
                         THEN [mem EXCEPT !.checked = TRUE,
                                          !.status = "Starting"]
                         ELSE mem)
        /\ worker' = [worker EXCEPT !.step = "connect"]
  /\ UNCHANGED <<handler, inbox, provider, wire, left, history>>

\* The user says whether to copy them.
GuidanceAnswered ==
  /\ worker.step = "asking"
  /\ UpdateAndSave([mem EXCEPT !.checked = TRUE, !.status = "Starting"])
  /\ worker' = [worker EXCEPT !.step = "connect"]
  /\ UNCHANGED <<handler, inbox, provider, wire, left, history>>

\* guidance::queue_while_waiting: an answer is queued, and recorded as given.
QueueWhileWaiting ==
  LET cmd   == Head(inbox)
      a     == <<cmd.item, cmd.part>>
      note  == cmd.kind = "answer" /\ cmd.item \in Notes
                 /\ CanAnswer(mem, cmd.item, cmd.part)
      given == RecordAnswer(mem, cmd.item,
                 mem.answers[cmd.item] \cup {cmd.part}, FALSE)
  IN  /\ worker.step = "asking" /\ inbox # <<>>
      /\ inbox' = Tail(inbox)
      /\ Answered(cmd)
      /\ \/ /\ cmd.kind = "chat"
            /\ UpdateAndSave([mem EXCEPT !.queue = Append(@, Chat)])
            /\ UNCHANGED history
         \/ /\ note
            /\ UpdateAndSave([given EXCEPT !.queue = Append(@, a)])
            /\ history' = [Tell(cmd, {a}) EXCEPT !.queued = @ \cup {a}]
         \/ /\ cmd.kind # "chat" /\ ~note
            /\ UNCHANGED <<mem, disk, history>>
      /\ UNCHANGED <<worker, provider, wire, left>>

\* The provider is connected.  After a switch the conversation goes on.
Connect ==
  /\ worker.step = "connect"
  /\ IF worker.after = "switched"
     THEN StartTurn([mem EXCEPT !.switching = FALSE], Chat, worker)
     ELSE /\ worker' = [worker EXCEPT !.step = "initial"]
          /\ UNCHANGED <<mem, disk, provider>>
  /\ UNCHANGED <<handler, inbox, wire, left, history>>

-----------------------------------------------------------------------------
(* The worker: commands *)

\* Mutant: a second response is written.
CanRespondAgain(s, i) == i \in s.panel

\* Control::Respond
CanRespond(s, i) == i \in s.panel /\ (i \in Notes \/ i \notin s.responded)

\* The response to a request is written.
Respond(r) ==
  history' = [history EXCEPT !.responses[r] = @ + 1]

\* What a command sends as a message: the answers it found are kept until the
\* message is accepted.
Sends(cmd) ==
  \/ cmd.kind \in {"chat", "resume"}
  \/ cmd.kind \in {"answer", "respond"} /\ cmd.item \in Notes

Prompt(cmd) == CASE cmd.kind = "answer"  -> <<cmd.item, cmd.part>>
                 [] cmd.kind = "respond" -> Batch(cmd.item)
                 [] OTHER                -> Chat

\* The command is possible in the session as it is when it is taken.
Fits(cmd) ==
  CASE cmd.kind \in {"answer", "skip"} -> CanAnswer(mem, cmd.item, cmd.part)
    [] cmd.kind = "respond"            -> CanRespond(mem, cmd.item)
    [] OTHER                           -> TRUE

CommandSends(cmd, after) ==
  /\ Fits(cmd) /\ Sends(cmd)
  /\ StartTurn(mem, Prompt(cmd),
       [worker EXCEPT !.after = after, !.cmd = cmd,
          !.answers = IF cmd.kind = "answer"
                      THEN mem.answers[cmd.item] \cup {cmd.part} ELSE {}])
  /\ UNCHANGED <<handler, history>>

\* What it does at once, to a request: one of its questions is answered or
\* skipped, and with the last of them the response is written; or the response
\* is given as a whole.
CommandRecords(cmd) ==
  LET i     == cmd.item
      given == mem.answers[i] \cup {cmd.part}
      all   == given = Parts[i]
  IN  /\ Fits(cmd) /\ ~Sends(cmd)
      /\ \/ /\ cmd.kind # "respond"
            /\ UpdateAndSave(RecordAnswer(mem, i, given, all))
            /\ IF all THEN Respond(i) ELSE UNCHANGED history
         \/ /\ cmd.kind = "respond"
            /\ Update([mem EXCEPT !.responded = @ \cup {i}])
            /\ Respond(i)
      /\ Answered(cmd)
      /\ worker' = [worker EXCEPT !.step = "tidy"]
      /\ UNCHANGED provider

\* The initial command of a worker; its failure is the worker's.
Initial ==
  /\ worker.step = "initial"
  /\ \/ /\ worker.cmd = Nothing
        /\ worker' = [worker EXCEPT !.step = "queue"]
        /\ UNCHANGED <<mem, disk, handler, inbox, provider, wire, history>>
     \/ /\ worker.cmd # Nothing
        /\ CommandSends(worker.cmd, "initial")
        /\ UNCHANGED <<inbox, wire>>
     \/ /\ worker.cmd # Nothing /\ ~Fits(worker.cmd)
        /\ WorkerDies
        /\ UNCHANGED history
  /\ UNCHANGED left

-----------------------------------------------------------------------------
(* The worker: its loop *)

\* The head of the wire is applied.
Apply ==
  /\ wire # <<>>
  /\ Update(ApplyEvent(mem, Head(wire)))
  /\ wire' = Tail(wire)

LoopEvent ==
  /\ worker.step = "loop" /\ Apply
  /\ worker' = [worker EXCEPT !.changed = TRUE]
  /\ UNCHANGED <<handler, inbox, provider, left, history>>

\* One command, when the provider's output is drained.
LoopCommand ==
  /\ worker.step = "loop" /\ wire = <<>> /\ inbox # <<>>
  /\ inbox' = Tail(inbox)
  /\ LET cmd == Head(inbox)
     IN  \/ CommandSends(cmd, "command")
         \/ CommandRecords(cmd)
         \/ /\ ~Fits(cmd)
            /\ Answered(cmd)
            /\ worker' = [worker EXCEPT !.step = "tidy"]
            /\ UNCHANGED <<mem, disk, provider, history>>
  /\ UNCHANGED <<wire, left>>

\* Nothing more to read: what the events asked for comes next.
LoopTidies ==
  /\ worker.step = "loop" /\ worker.changed
  /\ wire = <<>> /\ inbox = <<>>
  /\ worker' = [worker EXCEPT !.step = "tidy"]
  /\ UNCHANGED <<mem, disk, handler, inbox, provider, wire, left, history>>

\* questions::handle: the whole batch is checked before anything is changed.
Removes(s, parts) ==
  LET now  == [i \in Items |->
                 s.answers[i] \cup {q \in Parts[i] : <<i, q>> \in parts}]
      full == {n \in {a[1] : a \in parts} : now[n] = Parts[n]}
  IN  [Without([s EXCEPT !.answers = now], full) EXCEPT !.finished = @ \cup full]

RemoveQuestions ==
  LET parts == mem.removal.parts
      fits  == /\ mem.removal.turn = mem.turn
               /\ \A a \in parts : CanAnswer(mem, a[1], a[2])
      taken == [mem EXCEPT !.removal = NoRemoval]
  IN  /\ worker.step = "tidy" /\ mem.removal # NoRemoval
      /\ IF fits
         THEN /\ UpdateAndSave(Removes(taken, parts))
              /\ history' = [history EXCEPT !.declined = @ \cup parts,
                                            !.told = @ \cup parts]
         ELSE /\ Update(taken)
              /\ UNCHANGED history
      /\ UNCHANGED <<handler, inbox, worker, provider, wire, left>>

\* isolation::transition: the turn is stopped and the worker waits for its end.
SwitchWorkspace ==
  /\ worker.step = "tidy" /\ mem.removal = NoRemoval
  /\ mem.moving /\ ~mem.ready
  /\ UpdateAndSave([mem EXCEPT !.moving = FALSE, !.switching = TRUE,
                               !.status = "Starting"])
  /\ worker' = [worker EXCEPT !.step = "stopping"]
  /\ UNCHANGED <<handler, inbox, provider, wire, left, history>>

StoppingEvent ==
  /\ worker.step = "stopping" /\ mem.turn # 0 /\ Apply
  /\ UNCHANGED <<handler, inbox, worker, provider, left, history>>

\* The provider is stopped, what it has written since is not read, and the
\* worktree is made.
Stopped ==
  /\ worker.step = "stopping" /\ mem.turn = 0
  /\ UpdateAndSave([mem EXCEPT !.status = "Starting", !.ready = TRUE])
  /\ worker' = [worker EXCEPT !.step = "guide", !.after = "switched"]
  /\ wire' = <<>>
  /\ provider' = [provider EXCEPT !.turn = 0, !.open = {}, !.call = "none"]
  /\ UNCHANGED <<handler, inbox, left, history>>

\* A worktree that is there already is only reported.
TidyDone ==
  /\ worker.step = "tidy" /\ mem.removal = NoRemoval
  /\ mem.moving => mem.ready
  /\ Update([mem EXCEPT !.moving = FALSE])
  /\ worker' = [worker EXCEPT !.step = "queue"]
  /\ UNCHANGED <<handler, inbox, provider, wire, left, history>>

\* engine::send_queued
SendQueued ==
  /\ worker.step = "queue"
  /\ IF mem.status = "Idle" /\ mem.queue # <<>>
     THEN StartTurn([mem EXCEPT !.queue = Tail(@)], Head(mem.queue),
                    [worker EXCEPT !.after = "queued", !.cmd = Nothing])
     ELSE /\ worker' = Connected
          /\ UNCHANGED <<mem, disk, provider>>
  /\ UNCHANGED <<handler, inbox, wire, left, history>>

-----------------------------------------------------------------------------
(* The worker: waiting for a reply *)

CallEvent ==
  /\ worker.step = "calling" /\ wire # <<>> /\ Head(wire).kind # "reply"
  /\ Apply
  /\ worker' = [worker EXCEPT !.changed = TRUE]
  /\ UNCHANGED <<handler, inbox, provider, left, history>>

Replied(outcome) ==
  /\ worker.step = "calling" /\ wire # <<>>
  /\ Head(wire).kind = "reply" /\ Head(wire).outcome = outcome
  /\ wire' = Tail(wire)
  /\ provider' = [provider EXCEPT !.call = "none"]

CallAccepted ==
  /\ Replied("ok")
  /\ UpdateAndSave(Acknowledged(mem, worker.prompt, Head(wire).turn))
  /\ IF worker.cmd.kind \in {"answer", "respond"}
     THEN /\ worker' = [worker EXCEPT !.step = "record"]
          /\ UNCHANGED handler
     ELSE /\ worker' = [worker EXCEPT !.step = Follows(worker.after),
                                      !.cmd = Nothing]
          /\ Answered(worker.cmd)
  /\ UNCHANGED <<inbox, left, history>>

\* The answer was accepted: it is recorded.
Record ==
  LET cmd   == worker.cmd
      asked == IF cmd.kind = "answer" THEN {<<cmd.item, cmd.part>>}
               ELSE {cmd.item} \X Parts[cmd.item]
  IN  /\ worker.step = "record"
      /\ UpdateAndSave(
           IF cmd.kind = "answer"
           THEN RecordAnswer(mem, cmd.item, worker.answers, FALSE)
           ELSE [Without(mem, {cmd.item}) EXCEPT
                   !.finished = @ \cup {cmd.item}])
      /\ history' = Tell(cmd, asked)
      /\ Answered(cmd)
      /\ worker' = [worker EXCEPT !.step = Follows(worker.after),
                                  !.cmd = Nothing]
      /\ UNCHANGED <<inbox, provider, wire, left>>

\* The message stays shown as unsent.  Only a command of the loop survives it.
Fails ==
  IF worker.after = "command"
  THEN /\ Answered(worker.cmd)
       /\ worker' = [worker EXCEPT !.step = "tidy", !.cmd = Nothing]
       /\ UNCHANGED <<mem, disk, inbox>>
  ELSE WorkerDies

CallRefused ==
  /\ Replied("error") /\ worker.after = "command" /\ Fails
  /\ UNCHANGED <<left, history>>

\* 45 seconds without a reply, which is lost or comes too late, if the message
\* was accepted at all.
CallTimesOut ==
  /\ worker.step = "calling" /\ worker.after = "command" /\ Fault
  /\ \/ \E k \in DOMAIN wire : wire[k].kind = "reply" /\ wire' = RemoveAt(wire, k)
     \/ (\A k \in DOMAIN wire : wire[k].kind # "reply") /\ UNCHANGED wire
  /\ provider' = [provider EXCEPT !.call = "none"]
  /\ history' = [history EXCEPT !.doubt = @ \cup {worker.prompt}]
  /\ Fails

\* The provider disconnects, does not start, or does not stop; a message that
\* is not a command's is refused or not answered; or, before the switch to the
\* worktree, a request for one names another turn than the session's.
WorkerFails ==
  /\ worker.step # "off" /\ Fault
  /\ history' = IF worker.step \in {"calling", "record"}
                THEN [history EXCEPT !.doubt = @ \cup {worker.prompt}]
                ELSE history
  /\ WorkerDies

-----------------------------------------------------------------------------
(* The provider *)

Runs == worker.step \in {"loop", "tidy", "queue", "initial", "calling",
                         "record", "stopping"}

Emits(events) == wire' = wire \o events

Reply(n, outcome) ==
  [Event("reply") EXCEPT !.turn = n, !.outcome = outcome]

\* A turn/start begins a turn or joins the one that runs; a turn/steer needs
\* one.
ProviderTakes ==
  LET p     == worker.prompt
      new   == provider.turn = 0
      n     == IF new THEN provider.last + 1 ELSE provider.turn
      began == [Event("started") EXCEPT !.turn = n]
  IN  /\ provider.call \in {"start", "steer"}
      /\ \/ /\ provider.call = "start" \/ ~new
            /\ n <= MaxTurns
            /\ provider' = [provider EXCEPT !.turn = n, !.last = n,
                                            !.call = "taken"]
            /\ \/ ~new /\ Emits(<<Reply(n, "ok")>>)
               \/ new /\ Emits(<<began, Reply(n, "ok")>>)
               \/ new /\ Emits(<<Reply(n, "ok"), began>>)
            /\ history' =
                 CASE p \in Asked ->
                        [history EXCEPT !.sent[p] = IF @ < 2 THEN @ + 1 ELSE @]
                   [] p = Chat -> history
                   [] OTHER    -> [history EXCEPT !.batch = @ \cup {p[1]}]
         \/ /\ provider.call = "steer" /\ new
            /\ provider' = [provider EXCEPT !.call = "taken"]
            /\ Emits(<<Reply(0, "error")>>)
            /\ UNCHANGED history
      /\ UNCHANGED <<mem, disk, handler, inbox, worker, left>>

\* The turn asks and is blocked; it asks in a message; it removes questions of
\* messages; it asks for a worktree.
ProviderAsks ==
  /\ Runs /\ provider.turn # 0 /\ left.says > 0
  /\ left' = [left EXCEPT !.says = @ - 1]
  /\ \E r \in Requests \ provider.asked :
       /\ provider' = [provider EXCEPT !.open = @ \cup {r},
                                       !.asked = @ \cup {r}]
       /\ Emits(<<[Event("request") EXCEPT !.item = r]>>)
  /\ UNCHANGED <<mem, disk, handler, inbox, worker, history>>

ProviderSays ==
  /\ Runs /\ provider.turn # 0 /\ left.says > 0
  /\ left' = [left EXCEPT !.says = @ - 1]
  /\ \/ \E n \in Notes : Emits(<<[Event("note") EXCEPT !.item = n]>>)
     \/ \E parts \in {{a} : a \in Asked}
                      \cup {{n} \X Parts[n] : n \in Notes} :
          Emits(<<[Event("remove") EXCEPT !.turn = provider.turn,
                                          !.parts = parts]>>)
     \/ Emits(<<Event("move")>>)
  /\ UNCHANGED <<mem, disk, handler, inbox, worker, provider, history>>

\* A request is resolved: it was responded to, or the provider gave it up.
ProviderResolves ==
  /\ Runs
  /\ \E r \in provider.open :
       /\ provider' = [provider EXCEPT !.open = @ \ {r}]
       /\ Emits(<<[Event("resolved") EXCEPT !.item = r]>>)
  /\ UNCHANGED <<mem, disk, handler, inbox, worker, left, history>>

ProviderEnds ==
  /\ Runs /\ provider.turn # 0
  /\ provider' = [provider EXCEPT !.turn = 0, !.open = {}]
  /\ \E outcome \in {"Idle", "Failed"} :
       Emits(<<[Event("completed") EXCEPT !.turn = provider.turn,
                                          !.outcome = outcome]>>)
  /\ UNCHANGED <<mem, disk, handler, inbox, worker, left, history>>

-----------------------------------------------------------------------------

\* The service stops at any point and comes back with what was saved.
Restart ==
  /\ Fault
  /\ mem' = AfterRestart(disk)
  /\ disk' = mem'
  /\ Disconnected
  /\ Done
  /\ worker' = IF Active(disk)
               THEN [Idle EXCEPT !.step = "guide",
                                 !.cmd = [Nothing EXCEPT !.kind = "resume"]]
               ELSE Idle
  /\ history' = IF worker.step \in {"calling", "record"}
                THEN [history EXCEPT !.doubt = @ \cup {worker.prompt}]
                ELSE history

User == UserAsks \/ HandlerSkips \/ HandlerSends \/ HandlerGivesUp

Starting == Guide \/ GuidanceAnswered \/ QueueWhileWaiting \/ Connect \/ Initial

Loop == LoopEvent \/ LoopCommand \/ LoopTidies \/ RemoveQuestions
        \/ SwitchWorkspace \/ StoppingEvent \/ Stopped \/ TidyDone \/ SendQueued

Call == CallEvent \/ CallAccepted \/ Record \/ CallRefused \/ CallTimesOut
        \/ WorkerFails

Provider == ProviderTakes \/ ProviderAsks \/ ProviderSays \/ ProviderResolves
            \/ ProviderEnds

Next == User \/ Starting \/ Loop \/ Call \/ Provider \/ Restart

Spec == Init /\ [][Next]_vars

-----------------------------------------------------------------------------
(* Properties *)

TypeOK ==
  /\ {mem, disk, handler.read} \subseteq Session
  /\ handler.step \in {"idle", "read", "waiting"}
  /\ worker.step \in WorkerSteps /\ worker.prompt \in Prompts
  /\ provider.open \subseteq provider.asked /\ provider.asked \subseteq Requests
  /\ \A s \in {mem, disk} : \A i \in Items : s.answers[i] \subseteq Parts[i]

\* A request of the provider gets at most one response, whatever the user
\* repeats while the first one is on its way (Respond and AnswerQuestion).
OneResponse == \A r \in Requests : history.responses[r] <= 1

\* A question the user, or the agent, was told is answered, skipped or removed
\* is never asked again: not by an answer that was being delivered meanwhile,
\* not by an event replayed, not after a restart (record_answer, save_answer,
\* restore_async_questions).
ToldIsSettled == history.told \cap Open(mem) = {}

Sent(a) == history.sent[a] > 0 \/ a[1] \in history.batch

\* An answer is recorded only when it was delivered, so that a question whose
\* answer did not get through can be answered again.  The exception is an
\* answer given while the worktree is prepared, which is queued: it stays in
\* the queue or is shown as unsent.
AnswerIsKept ==
  \A a \in Settled(mem) \ history.declined :
    \/ Sent(a)
    \/ a \in history.queued /\ a \in Range(mem.queue) \cup mem.unsent

\* An answer reaches the provider a second time only when the reply to the
\* first one was lost.
SentOnce == \A a \in Asked : history.sent[a] > 1 => a \in history.doubt

\* A request in the panel is one the provider waits for, or one it has said
\* the end of: the panel never shows a request of a turn or process that is
\* gone.
PanelIsReal ==
  \A r \in mem.panel \cap Requests :
    \/ r \in provider.open
    \/ \E k \in DOMAIN wire :
         \/ wire[k].kind = "completed"
         \/ wire[k].kind = "resolved" /\ wire[k].item = r

\* Stated by the comment in engine::command and not true: "A failed attempt
\* must leave every unanswered question retryable."
FailedIsRetryable ==
  \A a \in Settled(mem) \ history.declined :
    Sent(a) \/ a \in Range(mem.queue)

\* With nothing pending, the session does not wait for its user, except for
\* the guidance files of its worktree.
WaitsForSomething ==
  mem.status = "Waiting" => mem.panel # {} \/ worker.step = "asking"

=============================================================================
