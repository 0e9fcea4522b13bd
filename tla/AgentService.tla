---------------------------- MODULE AgentService ----------------------------
(***************************************************************************)
(* One coding session of difu's agent service: the handler of the user's   *)
(* controls, the session's worker thread, the Codex app-server it drives,  *)
(* and the service process that stops, crashes and starts again.           *)
(*                                                                         *)
(* The session is held in memory (mem) and in <id>.json (disk).  Memory is *)
(* changed under the store's lock, one Session operator at a time; Save    *)
(* copies it to disk, and so does the flush the service runs every 500 ms. *)
(* A crash loses memory, the worker, its provider process and every        *)
(* channel.                                                                *)
(***************************************************************************)
EXTENDS Session

CONSTANTS
  MaxControls,  \* bound: controls other than messages that users issue
  MaxStops,     \* bound: shutdowns of the service
  MaxCrashes    \* bound: crashes of the service

ASSUME ServiceAssumption ==
  MaxControls \in Nat /\ MaxStops \in Nat /\ MaxCrashes \in Nat

VARIABLES
  mem,        \* the session in Store.sessions
  disk,       \* the session in <id>.json
  svc,        \* the service process
  stops,      \* how often it was told to stop
  crashes,    \* how often it crashed
  resumer,    \* the thread that continues the session after a restart
  hpc,        \* the handler of a Control request, which holds the action lock
  hctl,       \* the control it handles
  seen,       \* the status it read for it
  pc,         \* the worker thread
  via,        \* what the worker sends, or calls, on behalf of
  hand,       \* the prompt the worker is sending
  target,     \* the turn it steers or interrupts; 0 when it starts one
  initial,    \* the control the worker was started with
  resuming,   \* whether its connection resumed an existing conversation
  changed,    \* whether this pass of its loop found anything to do
  cancelled,  \* its Cancel token
  wake,       \* its wake::Signal
  inbox,      \* commands sent to it
  pipe,       \* requests written to the provider and not yet read by it
  output,     \* what the provider wrote and the worker has not read
  provider,   \* the Codex app-server and the conversation it keeps
  submitted,  \* messages users have submitted
  controls,   \* how many other controls they have issued
  acked,      \* messages taken from their users (answered with Ok before the
              \* worker saw them) and not withdrawn by a removal
  sent,       \* how often each prompt was written to the provider
  halted      \* the user interrupted, and has asked for nothing since

serviceVars  == <<svc, stops, crashes, resumer>>
handlerVars  == <<hpc, hctl, seen>>
sendVars     == <<via, hand, target>>
connVars     == <<initial, resuming, changed, cancelled>>
workerVars   == <<pc, sendVars, connVars>>
channelVars  == <<inbox, wake>>
providerVars == <<pipe, output, provider>>
userVars     == <<submitted, controls, acked>>
historyVars  == <<sent, halted>>
vars == <<mem, disk, serviceVars, handlerVars, workerVars, channelVars,
          providerVars, userVars, historyVars>>

-----------------------------------------------------------------------------
(* Controls, requests to the provider and its replies *)

Message(m, queue) == [kind |-> "message", msg |-> m, queue |-> queue]
Launch(m)         == [kind |-> "launch", msg |-> m]
Withdraw(m, i)    == [kind |-> "remove", msg |-> m, index |-> i]
Plain(kind)       == [kind |-> kind]

Control ==
       [kind : {"message"}, msg : Msg, queue : BOOLEAN]
  \cup [kind : {"remove"}, msg : Msg, index : Nat]
  \cup [kind : {"none", "interrupt", "sendWaiting", "resume"}]

\* What a worker may be started with.
InitialControl == Control \cup [kind : {"launch"}, msg : Msg]

IsMessage(c) == c.kind = "message"

\* A request is live while the worker waits for its reply.
Request == [kind : {"start", "steer", "interrupt"}, prompt : Prompt,
            turn : Turn, live : BOOLEAN]
\* A late reply answers a request that the worker has given up; it is read and
\* ignored, and left out when it was not yet written then.
Reply   == [kind : {"reply", "late"}, ok : BOOLEAN, turn : Turn]
Owed    == [ok : BOOLEAN, turn : Turn, live : BOOLEAN]

Late == [kind |-> "late", ok |-> FALSE, turn |-> 0]

Answer(owed) == [kind |-> "reply", ok |-> owed.ok, turn |-> owed.turn]

Provider ==
  [ alive     : BOOLEAN,
    turn      : Turn,           \* the turn it runs
    announced : BOOLEAN,        \* whether turn/started was written for it
    stopping  : BOOLEAN,        \* whether turn/interrupt was accepted for it
    last      : Turn,           \* the last turn of the conversation
    history   : SUBSET Prompt,  \* the prompts of the conversation
    echoes    : SUBSET Msg,     \* accepted prompts not yet echoed
    owed      : Seq(Owed) ]     \* the reply it has yet to write

\* The conversation outlives the process that served it.
NewProcess(p) ==
  [p EXCEPT !.alive = TRUE, !.turn = 0, !.announced = FALSE,
            !.stopping = FALSE, !.echoes = {}, !.owed = <<>>]

-----------------------------------------------------------------------------
(* Where the handler, the worker and the service can be *)

HandlerPc == {"free", "push", "prepare", "save", "dispatch", "reply",
              "reconnect", "start"}
WorkerPc  == {"none", "setup", "empty", "connect", "connected", "initial",
              "resume", "intent", "write", "call", "drain", "next", "popped",
              "house", "loop", "command", "sleep", "ending", "ended"}
Via       == {"initial", "command", "queue", "waiting", "drain", "interrupt"}

\* Its receiver of commands still exists.
Receiving == pc \notin {"none", "ending", "ended"}

\* The handler threads and the flush run until the workers are stopped.
Serving == svc \in {"up", "stopping", "marked"}

TypeOK ==
  /\ mem \in Session
  /\ disk \in Session
  /\ svc \in {"up", "stopping", "marked", "cancelling", "down"}
  /\ stops \in 0..MaxStops
  /\ crashes \in 0..MaxCrashes
  /\ resumer \in {"none", "due", "handle"}
  /\ hpc \in HandlerPc
  /\ hctl \in Control /\ (hpc = "push" => IsMessage(hctl))
  /\ seen \in Status
  /\ pc \in WorkerPc
  /\ via \in Via
  /\ hand \in Prompt
  /\ target \in Turn
  /\ initial \in InitialControl
  /\ resuming \in BOOLEAN
  /\ changed \in BOOLEAN
  /\ cancelled \in BOOLEAN
  /\ wake \in BOOLEAN
  /\ inbox \in Seq(Control)
  /\ pipe \in Seq(Request)
  /\ output \in Seq(Event \cup Reply)
  /\ provider \in Provider
  /\ submitted \in SUBSET Msg
  /\ controls \in 0..MaxControls
  /\ acked \in SUBSET Msg
  /\ sent \in [Prompt -> Nat]
  /\ halted \in BOOLEAN

(***************************************************************************)
(* A session is created empty, its worktree being prepared, or with a      *)
(* prompt that its first connection sends.                                 *)
(***************************************************************************)
InitRest ==
  /\ disk = mem
  /\ svc = "up" /\ stops = 0 /\ crashes = 0 /\ resumer = "none"
  /\ hpc = "free" /\ hctl = Plain("none") /\ seen = "Idle"
  /\ via = "initial" /\ hand = Continue /\ target = 0
  /\ resuming = FALSE /\ changed = FALSE /\ cancelled = FALSE
  /\ inbox = <<>> /\ wake = FALSE
  /\ pipe = <<>> /\ output = <<>>
  /\ provider = [alive |-> TRUE, turn |-> 0, announced |-> FALSE,
                 stopping |-> FALSE, last |-> 0, history |-> {},
                 echoes |-> {}, owed |-> <<>>]
  /\ controls = 0
  /\ sent = [p \in Prompt |-> 0]
  /\ halted = FALSE

InitEmpty ==
  /\ mem = NewSession
  /\ pc = "setup" /\ initial = Plain("none")
  /\ submitted = {} /\ acked = {}
  /\ InitRest

InitPrompt ==
  /\ \E m \in Msg :
       /\ mem = [NewSession EXCEPT !.marks[m] = {"launch"}]
       /\ initial = Launch(m)
       /\ submitted = {m} /\ acked = {m}
  /\ pc = "connect"
  /\ InitRest

Init == InitEmpty \/ InitPrompt

-----------------------------------------------------------------------------
(* The handler of Request::Control (Service::handle) *)

\* A message or Continue first moves the session's route to where it came from,
\* which saves the session; then the session is read again for its status.
Revives(c) == IsMessage(c) \/ c.kind = "resume"

Read(c) ==
  /\ hpc' = "dispatch" /\ hctl' = c /\ seen' = mem.status
  /\ disk' = IF Revives(c) THEN mem ELSE disk

\* A user issues control c; the handler takes the session's action lock and
\* reads the session.  What it read of turn_id decides where c goes next.
Accept(c) ==
  /\ Serving
  /\ hpc = "free"
  /\ IF c.kind \in {"message", "remove"}
       THEN /\ hpc' = IF IsMessage(c) /\ c.queue /\ mem.turn # 0
                        THEN "push" ELSE "prepare"
            /\ hctl' = c
            /\ UNCHANGED <<disk, seen>>
       ELSE Read(c)

\* The handler goes on to the given place; once it has answered, the control
\* is gone.
Proceed(place) ==
  /\ hpc' = place
  /\ seen' = "Idle"
  /\ hctl' = IF place = "free" THEN Plain("none") ELSE hctl

SubmitMessage ==
  \E m \in Msg \ submitted, queue \in BOOLEAN :
    /\ Accept(Message(m, queue))
    /\ submitted' = submitted \cup {m}
    /\ UNCHANGED <<mem, serviceVars, workerVars, channelVars, providerVars,
                   controls, acked, historyVars>>

\* The user removes the i-th queued message, as their screen shows it.
UserControl ==
     {Plain(kind) : kind \in {"interrupt", "sendWaiting", "resume"}}
  \cup {Withdraw(mem.queue[i], i) : i \in DOMAIN mem.queue}

SubmitControl ==
  /\ controls < MaxControls
  /\ \E c \in UserControl : Accept(c)
  /\ controls' = controls + 1
  /\ UNCHANGED <<mem, serviceVars, workerVars, channelVars, providerVars,
                 submitted, acked, historyVars>>

\* A message for the next turn, although the turn may be over by now.
PushQueued ==
  /\ Serving
  /\ hpc = "push"
  /\ mem' = [mem EXCEPT !.queue = Append(@, hctl.msg)]
  /\ Proceed("save")
  /\ halted' = FALSE
  /\ UNCHANGED <<disk, serviceVars, workerVars, channelVars, providerVars,
                 userVars, sent>>

Holds(q, i, m) == i \in DOMAIN q /\ q[i] = m

\* Store::queue_preparing: one check and change under the store's lock.
QueuePreparing ==
  /\ Serving
  /\ hpc = "prepare"
  /\ \/ /\ ~Preparing(mem)
        /\ Read(hctl)
        /\ UNCHANGED <<mem, acked, halted>>
     \/ /\ Preparing(mem)
        /\ IsMessage(hctl)
        /\ mem' = [mem EXCEPT !.queue = Append(@, hctl.msg)]
        /\ Proceed("save")
        /\ halted' = FALSE
        /\ UNCHANGED <<disk, acked>>
     \/ /\ Preparing(mem)
        /\ hctl.kind = "remove"
        /\ Holds(mem.queue, hctl.index, hctl.msg)
        /\ mem' = [mem EXCEPT !.queue = RemoveAt(@, hctl.index)]
        /\ Proceed("save")
        /\ acked' = acked \ {hctl.msg}
        /\ UNCHANGED <<disk, halted>>
     \/ /\ Preparing(mem)
        /\ hctl.kind = "remove"
        /\ ~Holds(mem.queue, hctl.index, hctl.msg)
        /\ Proceed("free")
        /\ UNCHANGED <<mem, disk, acked, halted>>
  /\ UNCHANGED <<serviceVars, workerVars, channelVars, providerVars, submitted,
                 controls, sent>>

\* The change is saved and the request answered with Ok.
SaveAndAnswer ==
  /\ Serving
  /\ hpc = "save"
  /\ disk' = mem
  /\ Proceed("free")
  /\ acked' = IF IsMessage(hctl) THEN acked \cup {hctl.msg} ELSE acked
  /\ UNCHANGED <<mem, serviceVars, workerVars, channelVars, providerVars,
                 submitted, controls, historyVars>>

\* The control goes to the worker.  Without a worker that still receives, a
\* message or Continue reconnects.
MayReconnect ==
  \/ hctl.kind = "resume"
  \/ IsMessage(hctl) /\ seen \in {"Interrupted", "Failed", "Idle"}

Refused == seen \in {"Interrupted", "Failed"} /\ ~Revives(hctl)

CancelsStart == seen = "Starting" /\ hctl.kind = "interrupt"

Dispatch ==
  /\ Serving
  /\ hpc = "dispatch"
  /\ \/ /\ Refused
        /\ Proceed("free")
        /\ UNCHANGED <<cancelled, channelVars>>
     \/ /\ ~Refused /\ CancelsStart
        /\ cancelled' = (cancelled \/ pc # "none")
        /\ wake' = TRUE
        /\ Proceed("free")
        /\ UNCHANGED inbox
     \/ /\ ~Refused /\ ~CancelsStart /\ Receiving
        /\ inbox' = Append(inbox, hctl)
        /\ wake' = TRUE
        /\ Proceed("reply")
        /\ UNCHANGED cancelled
     \/ /\ ~Refused /\ ~CancelsStart /\ ~Receiving
        /\ Proceed(IF MayReconnect THEN "reconnect" ELSE "free")
        /\ UNCHANGED <<cancelled, channelVars>>
  /\ UNCHANGED <<mem, disk, serviceVars, pc, sendVars, initial, resuming,
                 changed, providerVars, userVars, historyVars>>

\* The worker replied, dropped the command, or 60 seconds have passed.
StopWaiting ==
  /\ Serving
  /\ hpc = "reply"
  /\ Proceed("free")
  /\ UNCHANGED <<mem, disk, serviceVars, workerVars, channelVars, providerVars,
                 userVars, historyVars>>

Reconnect ==
  /\ Serving
  /\ hpc = "reconnect"
  /\ mem' = [mem EXCEPT
               !.status = "Starting",
               !.marks  = IF IsMessage(hctl) THEN Noted(@, {hctl.msg}, "awaiting")
                          ELSE @]
  /\ Proceed("start")
  /\ halted' = FALSE
  /\ UNCHANGED <<disk, serviceVars, workerVars, channelVars, providerVars,
                 userVars, sent>>

\* Service::start: a new worker, unless the old thread has not quite finished;
\* that one no longer receives, so the request fails.
StartWorker ==
  /\ Serving
  /\ hpc = "start"
  /\ disk' = mem
  /\ Proceed("free")
  /\ \/ /\ pc = "none"
        /\ pc' = "connect"
        /\ initial' = hctl
        /\ cancelled' = FALSE
        /\ inbox' = <<>> /\ wake' = FALSE
        /\ acked' = IF IsMessage(hctl) THEN acked \cup {hctl.msg} ELSE acked
     \/ /\ pc # "none"
        /\ UNCHANGED <<pc, initial, cancelled, channelVars, acked>>
  /\ UNCHANGED <<mem, serviceVars, sendVars, resuming, changed, providerVars,
                 submitted, controls, historyVars>>

Handler ==
  \/ PushQueued \/ QueuePreparing \/ SaveAndAnswer \/ Dispatch
  \/ StopWaiting \/ Reconnect \/ StartWorker

-----------------------------------------------------------------------------
(* The worker: setting up and connecting *)

\* The queue of a new session may be filled before there is a provider
\* (startup::prepare): the worktree, then the first message.
SetUp ==
  /\ pc = "setup"
  /\ mem' = [mem EXCEPT !.status = "Idle"]
  /\ disk' = mem'
  /\ pc' = "empty"
  /\ UNCHANGED <<serviceVars, handlerVars, sendVars, connVars, channelVars,
                 providerVars, userVars, historyVars>>

LeaveEmpty(control) ==
  /\ mem' = [mem EXCEPT !.status = "Starting"]
  /\ disk' = mem'
  /\ initial' = control
  /\ pc' = "connect"

FirstQueued ==
  /\ pc = "empty"
  /\ mem.queue # <<>>
  /\ LeaveEmpty(Plain("none"))
  /\ UNCHANGED <<serviceVars, handlerVars, sendVars, resuming, changed,
                 cancelled, channelVars, providerVars, userVars, historyVars>>

FirstCommand ==
  /\ pc = "empty"
  /\ mem.queue = <<>>
  /\ inbox # <<>>
  /\ inbox' = Tail(inbox)
  /\ LET c == Head(inbox) IN
       \/ /\ c.kind = "interrupt"
          /\ cancelled' = TRUE
          /\ UNCHANGED <<mem, disk, pc, initial, halted>>
       \/ /\ c.kind = "resume"
          /\ LeaveEmpty(c)
          /\ halted' = FALSE
          /\ UNCHANGED cancelled
       \/ /\ c.kind = "message"
          /\ mem' = [mem EXCEPT !.queue = Append(@, c.msg)]
          /\ disk' = mem'
          /\ halted' = FALSE
          /\ UNCHANGED <<pc, initial, cancelled>>
       \/ /\ c.kind \in {"remove", "sendWaiting"}
          /\ UNCHANGED <<mem, disk, pc, initial, cancelled, halted>>
  /\ UNCHANGED <<serviceVars, handlerVars, sendVars, resuming, changed, wake,
                 providerVars, userVars, sent>>

\* Setup, guidance, the environment or the connection failed, or the worker
\* was told to stop.
StartFails ==
  /\ \/ pc \in {"setup", "connect", "connected"}
     \/ pc = "empty" /\ cancelled
  /\ pc' = "ending"
  /\ initial' = Plain("none") /\ resuming' = FALSE
  /\ UNCHANGED <<mem, disk, serviceVars, handlerVars, sendVars, changed,
                 cancelled, channelVars, providerVars, userVars, historyVars>>

\* thread/start or thread/resume was answered (engine::connect).
Connect ==
  /\ pc = "connect"
  /\ resuming' = (mem.thread /\ mem.attempted)
  /\ mem' = LET open == [mem EXCEPT !.thread = TRUE, !.status = "Idle"]
            IN  IF resuming' THEN Restored(open, provider.history \cap Msg)
                             ELSE open
  /\ pc' = "connected"
  /\ UNCHANGED <<disk, serviceVars, handlerVars, sendVars, initial, changed,
                 cancelled, channelVars, providerVars, userVars, historyVars>>

\* Permissions and mode are confirmed; the connection is saved.
ConnectDone ==
  /\ pc = "connected"
  /\ disk' = mem
  /\ pc' = "initial"
  /\ UNCHANGED <<mem, serviceVars, handlerVars, sendVars, connVars,
                 channelVars, providerVars, userVars, historyVars>>

\* The worker turns to prompt p, or is done with one.
Take(p, purpose, turn) ==
  hand' = p /\ via' = purpose /\ target' = turn

PutDown == Take(Continue, "initial", 0)

\* The control the worker was started with.  Continue means nothing to a
\* conversation that has only just been created.  The first pass of the loop
\* ends with housekeeping (housekeeping_due).
Initial ==
  /\ pc = "initial"
  /\ \/ /\ initial.kind \in {"message", "launch"}
        /\ initial.kind = "message" \/ ~resuming
        /\ Take(initial.msg, "initial", 0)
        /\ disk' = IF initial.kind = "message" THEN mem ELSE disk
        /\ pc' = "intent"
     \/ /\ initial.kind = "resume" /\ resuming
        /\ Take(Continue, "initial", 0)
        /\ pc' = "resume"
        /\ UNCHANGED disk
     \/ /\ \/ initial.kind = "none"
           \/ initial.kind = "resume" /\ ~resuming
           \/ initial.kind = "launch" /\ resuming
        /\ PutDown
        /\ pc' = "house"
        /\ UNCHANGED disk
  /\ initial' = Plain("none") /\ resuming' = FALSE
  /\ changed' = TRUE
  /\ UNCHANGED <<mem, serviceVars, handlerVars, cancelled, channelVars,
                 providerVars, userVars, historyVars>>

-----------------------------------------------------------------------------
(* The worker: sending a prompt (engine::send_turn and its callers) *)

\* thread/resume before the prompt that continues a stopped session.
Resumed ==
  /\ pc = "resume"
  /\ pc' = "intent"
  /\ UNCHANGED <<mem, disk, serviceVars, handlerVars, sendVars, connVars,
                 channelVars, providerVars, userVars, historyVars>>

\* Where the worker goes on when the prompt in hand could not be sent; an
\* error of the first prompt or of a queued one ends the worker.
AfterFailure == IF via \in {"initial", "queue"} THEN "ending" ELSE "house"

\* The prompt is refused before anything was recorded: an attachment is gone,
\* the resume was not acknowledged, there is no turn to steer any more.  A
\* prompt taken from the queue is shown as unsent.
NotAttempted ==
  /\ pc \in {"resume", "intent"}
  /\ IF via \in {"queue", "waiting"}
       THEN /\ mem' = [mem EXCEPT !.marks = Noted(@, {hand}, "unsent")]
            /\ disk' = mem'
       ELSE UNCHANGED <<mem, disk>>
  /\ pc' = AfterFailure
  /\ PutDown
  /\ UNCHANGED <<serviceVars, handlerVars, connVars, channelVars, providerVars,
                 userVars, historyVars>>

Intend ==
  /\ pc = "intent"
  /\ target # 0 => mem.turn # 0
  /\ target' = IF target = 0 THEN 0 ELSE mem.turn
  /\ mem' = SendIntent(mem, hand, target # 0)
  /\ pc' = "write"
  /\ UNCHANGED <<disk, serviceVars, handlerVars, via, hand, connVars,
                 channelVars, providerVars, userVars, historyVars>>

\* The intent is saved, and then the request is written to the provider.
Write ==
  /\ pc = "write"
  /\ disk' = mem
  /\ pipe' = Append(pipe, [kind   |-> IF target = 0 THEN "start" ELSE "steer",
                           prompt |-> hand, turn |-> target, live |-> TRUE])
  /\ sent' = [sent EXCEPT ![hand] = @ + 1]
  /\ pc' = "call"
  /\ UNCHANGED <<mem, serviceVars, handlerVars, sendVars, connVars,
                 channelVars, output, provider, userVars, halted>>

Sends == via \notin {"drain", "interrupt"}

\* Events that come while the worker waits for a reply, or for the end of the
\* turn it interrupts, are handled at once.
EventWhileWaiting ==
  /\ pc \in {"resume", "call", "drain"}
  /\ output # <<>> /\ Head(output).kind # "reply"
  /\ output' = Tail(output)
  /\ mem' = IF via = "drain" THEN ApplyKeepingQueue(mem, Head(output))
                             ELSE ApplyEvent(mem, Head(output))
  /\ UNCHANGED <<disk, serviceVars, handlerVars, workerVars, channelVars, pipe,
                 provider, userVars, historyVars>>

\* Where the worker goes on after an acknowledged call: a queued prompt was
\* the last thing of its pass, other calls come before send_queued.
AfterReply == CASE via = "waiting" -> "next"
                [] via = "drain"   -> "drain"
                [] via = "queue"   -> "loop"
                [] OTHER           -> "house"

Acknowledged ==
  /\ pc = "call"
  /\ output # <<>> /\ Head(output).kind = "reply" /\ Head(output).ok
  /\ output' = Tail(output)
  /\ IF Sends
       THEN /\ mem' = SendAccepted(mem, hand, Head(output).turn)
            /\ disk' = mem'
       ELSE /\ mem' = IF via = "interrupt"
                        THEN QueueUnsent([mem EXCEPT !.status = "Interrupted"])
                        ELSE mem
            /\ UNCHANGED disk
  /\ halted' = IF via = "interrupt" THEN TRUE ELSE halted
  /\ pc' = AfterReply
  /\ IF via = "drain" THEN UNCHANGED sendVars ELSE PutDown
  /\ UNCHANGED <<serviceVars, handlerVars, connVars, channelVars, pipe,
                 provider, userVars, sent>>

\* Mutant: InterruptAndSend does not look whether the prompt was recorded.
SendFailedUnsent(s) ==
  LET refused == SendRefused(s, hand)
  IN  IF via = "waiting"
        THEN [refused EXCEPT !.marks = Noted(@, {hand}, "unsent")]
        ELSE refused

\* InterruptAndSend looks for the entry of the prompt it could not send; the
\* provider's echo has taken the prompt out of that entry.
SendFailed(s) ==
  LET refused == SendRefused(s, hand)
  IN  IF via = "waiting" /\ hand \in Msg /\ "sending" \notin s.marks[hand]
        THEN [refused EXCEPT !.marks = Noted(@, {hand}, "unsent")]
        ELSE refused

\* Mutant: a reply is taken for that of whichever call is waiting.
AbandonNothing == UNCHANGED providerVars

\* Nobody waits for the reply to the last call any more: it carries the
\* identifier of that call, so that a later call ignores it.
Abandon ==
  /\ output' = [i \in DOMAIN output |->
                  IF output[i].kind = "reply" THEN Late ELSE output[i]]
  /\ pipe' = [i \in DOMAIN pipe |-> [pipe[i] EXCEPT !.live = FALSE]]
  /\ provider' = [provider EXCEPT
                    !.owed = [i \in DOMAIN @ |->
                                [ok |-> FALSE, turn |-> 0, live |-> FALSE]]]

\* The reply is an error, or does not come: 45 seconds have passed, the worker
\* was cancelled, or the provider is gone.
CallFails ==
  /\ pc = "call"
  /\ Abandon
  /\ mem' = IF Sends THEN SendFailed(mem) ELSE mem
  /\ disk' = IF via \in {"queue", "waiting"} THEN mem' ELSE disk
  /\ pc' = IF Sends THEN AfterFailure ELSE "house"
  /\ PutDown
  /\ UNCHANGED <<serviceVars, handlerVars, connVars, channelVars, userVars,
                 historyVars>>

-----------------------------------------------------------------------------
(* The worker: its loop (engine::run) and the commands of users *)

\* send_queued takes the first message of an idle session's queue...
TakeQueued ==
  /\ pc = "house"
  /\ mem.status = "Idle" /\ mem.queue # <<>>
  /\ mem' = [mem EXCEPT !.queue = Tail(@)]
  /\ Take(Head(mem.queue), "queue", 0)
  /\ pc' = "popped"
  /\ UNCHANGED <<disk, serviceVars, handlerVars, connVars, channelVars,
                 providerVars, userVars, historyVars>>

\* ...and saves the shorter queue before the prompt is recorded anywhere else.
SaveTaken ==
  /\ pc = "popped"
  /\ disk' = mem
  /\ pc' = "intent"
  /\ UNCHANGED <<mem, serviceVars, handlerVars, sendVars, connVars,
                 channelVars, providerVars, userVars, historyVars>>

NothingQueued ==
  /\ pc = "house"
  /\ mem.status # "Idle" \/ mem.queue = <<>>
  /\ pc' = "loop"
  /\ UNCHANGED <<mem, disk, serviceVars, handlerVars, sendVars, connVars,
                 channelVars, providerVars, userVars, historyVars>>

LoopEvent ==
  /\ pc = "loop"
  /\ output # <<>>
  /\ output' = Tail(output)
  /\ mem' = ApplyEvent(mem, Head(output))
  /\ changed' = TRUE
  /\ UNCHANGED <<disk, serviceVars, handlerVars, pc, sendVars, initial,
                 resuming, cancelled, channelVars, pipe, provider, userVars,
                 historyVars>>

LoopDrained ==
  /\ pc = "loop"
  /\ output = <<>> /\ provider.alive
  /\ pc' = "command"
  /\ UNCHANGED <<mem, disk, serviceVars, handlerVars, sendVars, connVars,
                 channelVars, providerVars, userVars, historyVars>>

\* No command either.  If something happened in this pass, housekeeping
\* follows, with send_queued at its end; otherwise the worker goes to sleep.
NoCommand ==
  /\ pc = "command"
  /\ inbox = <<>>
  /\ changed \/ ~cancelled
  /\ pc' = IF changed THEN "house" ELSE "sleep"
  /\ changed' = FALSE
  /\ UNCHANGED <<mem, disk, serviceVars, handlerVars, sendVars, initial,
                 resuming, cancelled, channelVars, providerVars, userVars,
                 historyVars>>

\* The signal is kept from before the sleep, so nothing that came between the
\* last look and the sleep is missed.
LoopWake ==
  /\ pc = "sleep"
  /\ wake
  /\ wake' = FALSE
  /\ changed' = TRUE
  /\ pc' = "loop"
  /\ UNCHANGED <<mem, disk, serviceVars, handlerVars, sendVars, initial,
                 resuming, cancelled, inbox, providerVars, userVars,
                 historyVars>>

\* The loop ends with an error: cancelled, or the provider's output has ended.
LoopEnds ==
  /\ \/ pc \in {"loop", "command"} /\ cancelled
     \/ pc = "loop" /\ ~provider.alive /\ output = <<>>
  /\ pc' = "ending"
  /\ UNCHANGED <<mem, disk, serviceVars, handlerVars, sendVars, connVars,
                 channelVars, providerVars, userVars, historyVars>>

\* A request other than a prompt.
Interrupting(purpose) ==
  /\ pipe' = Append(pipe, [kind |-> "interrupt", prompt |-> Continue,
                           turn |-> mem.turn, live |-> TRUE])
  /\ Take(Continue, purpose, mem.turn)
  /\ pc' = "call"

\* Control::Message
CommandMessage(m, queue) ==
  /\ \/ /\ Stopped(mem) /\ mem.turn = 0
        /\ Take(m, "command", 0)
        /\ pc' = "resume" /\ halted' = FALSE
        /\ UNCHANGED mem
     \/ /\ Stopped(mem) /\ mem.turn # 0
        /\ pc' = "house"
        /\ UNCHANGED <<mem, sendVars, halted>>
     \/ /\ ~Stopped(mem) /\ queue /\ mem.turn # 0
        /\ mem' = [mem EXCEPT !.queue = Append(@, m)]
        /\ pc' = "house" /\ halted' = FALSE
        /\ UNCHANGED sendVars
     \/ /\ ~Stopped(mem) /\ ~(queue /\ mem.turn # 0)
        /\ Take(m, "command", mem.turn)
        /\ pc' = "intent" /\ halted' = FALSE
        /\ UNCHANGED mem
  /\ disk' = mem'
  /\ UNCHANGED pipe

\* Control::ReplaceQueued, with no replacement
CommandRemove(m, i) ==
  /\ IF Holds(mem.queue, i, m)
       THEN /\ mem' = [mem EXCEPT !.queue = RemoveAt(@, i)]
            /\ disk' = mem'
       ELSE UNCHANGED <<mem, disk>>
  /\ pc' = "house"
  /\ UNCHANGED <<sendVars, pipe, halted>>

\* Control::InterruptAndSend.  Nothing waiting means the screen was behind.
CommandSendWaiting ==
  /\ \/ /\ mem.queue = <<>>
        /\ pc' = "house"
        /\ UNCHANGED <<sendVars, pipe>>
     \/ /\ mem.queue # <<>> /\ mem.turn # 0
        /\ Interrupting("drain")
     \/ /\ mem.queue # <<>> /\ mem.turn = 0
        /\ pc' = "next"
        /\ UNCHANGED <<sendVars, pipe>>
  /\ UNCHANGED <<mem, disk, halted>>

\* Control::Interrupt
CommandInterrupt ==
  \/ /\ mem.turn # 0
     /\ Interrupting("interrupt")
     /\ UNCHANGED <<mem, disk, halted>>
  \/ /\ mem.turn = 0
     /\ mem' = QueueUnsent([mem EXCEPT !.status = "Interrupted"])
     /\ pc' = "house" /\ halted' = TRUE
     /\ UNCHANGED <<disk, sendVars, pipe>>

\* Control::Resume
CommandResume ==
  \/ /\ mem.turn = 0
     /\ Take(Continue, "command", 0)
     /\ pc' = "resume" /\ halted' = FALSE
     /\ UNCHANGED <<mem, disk, pipe>>
  \/ /\ mem.turn # 0
     /\ pc' = "house"
     /\ UNCHANGED <<mem, disk, sendVars, pipe, halted>>

Withdrawn(c) ==
  IF c.kind = "remove" /\ Holds(mem.queue, c.index, c.msg) THEN {c.msg} ELSE {}

LoopCommand ==
  /\ pc = "command"
  /\ inbox # <<>>
  /\ inbox' = Tail(inbox)
  /\ LET c == Head(inbox) IN
       \/ c.kind = "message"     /\ CommandMessage(c.msg, c.queue)
       \/ c.kind = "remove"      /\ CommandRemove(c.msg, c.index)
       \/ c.kind = "sendWaiting" /\ CommandSendWaiting
       \/ c.kind = "interrupt"   /\ CommandInterrupt
       \/ c.kind = "resume"      /\ CommandResume
  /\ acked' = acked \ Withdrawn(Head(inbox))
  /\ changed' = FALSE
  /\ UNCHANGED <<serviceVars, handlerVars, initial, resuming, cancelled, wake,
                 output, provider, submitted, controls, sent>>

\* InterruptAndSend: the interrupted turn is over, or does not end in time.
Drained ==
  /\ pc = "drain"
  /\ mem.turn # target
  /\ pc' = "next"
  /\ PutDown
  /\ UNCHANGED <<mem, disk, serviceVars, handlerVars, connVars, channelVars,
                 providerVars, userVars, historyVars>>

DrainFails ==
  /\ pc = "drain"
  /\ mem.turn = target
  /\ pc' = "house"
  /\ PutDown
  /\ UNCHANGED <<mem, disk, serviceVars, handlerVars, connVars, channelVars,
                 providerVars, userVars, historyVars>>

\* InterruptAndSend: the waiting messages are sent one after the other, the
\* later ones into the turn of the first.
TakeWaiting ==
  /\ pc = "next"
  /\ mem.queue # <<>>
  /\ mem' = [mem EXCEPT !.queue = Tail(@)]
  /\ Take(Head(mem.queue), "waiting", mem.turn)
  /\ pc' = "intent"
  /\ halted' = FALSE
  /\ UNCHANGED <<disk, serviceVars, handlerVars, connVars, channelVars,
                 providerVars, userVars, sent>>

WaitingSent ==
  /\ pc = "next"
  /\ mem.queue = <<>>
  /\ disk' = mem
  /\ pc' = "house"
  /\ UNCHANGED <<mem, serviceVars, handlerVars, sendVars, connVars,
                 channelVars, providerVars, userVars, historyVars>>

\* engine::run has returned: the commands are dropped, the provider is killed
\* and the session is told (worker_ended).
WorkerEnds ==
  /\ pc = "ending"
  /\ mem' = WorkerEnded(mem, cancelled, svc # "up")
  /\ inbox' = <<>>
  /\ pipe' = <<>> /\ output' = <<>>
  /\ provider' = NewProcess(provider)
  /\ pc' = "ended" /\ changed' = FALSE
  /\ UNCHANGED <<disk, serviceVars, handlerVars, sendVars, initial, resuming,
                 cancelled, wake, userVars, historyVars>>

WorkerExits ==
  /\ pc = "ended"
  /\ disk' = mem
  /\ pc' = "none"
  /\ cancelled' = FALSE /\ wake' = FALSE
  /\ UNCHANGED <<mem, serviceVars, handlerVars, sendVars, initial, resuming,
                 changed, inbox, providerVars, userVars, historyVars>>

Worker ==
  \/ SetUp \/ FirstQueued \/ FirstCommand \/ StartFails \/ Connect
  \/ ConnectDone \/ Initial \/ Resumed \/ NotAttempted \/ Intend \/ Write
  \/ EventWhileWaiting \/ Acknowledged \/ CallFails \/ TakeQueued \/ SaveTaken
  \/ NothingQueued \/ LoopEvent \/ LoopDrained \/ NoCommand \/ LoopWake \/ LoopEnds
  \/ LoopCommand \/ Drained \/ DrainFails \/ TakeWaiting \/ WaitingSent
  \/ WorkerEnds \/ WorkerExits

-----------------------------------------------------------------------------
(* The provider: codex app-server, modelled from what the worker expects *)

\* Mutant: the reader of the provider's output does not set the signal.
SpeakSilently(message) == output' = Append(output, message) /\ UNCHANGED wake

Speak(message) == output' = Append(output, message) /\ wake' = TRUE

\* A request is answered in its turn; the provider may refuse any of them.
ProviderReads ==
  /\ provider.alive /\ provider.owed = <<>>
  /\ pipe # <<>>
  /\ pipe' = Tail(pipe)
  /\ LET r         == Head(pipe)
         owe(ok, t) == <<[ok |-> ok, turn |-> t, live |-> r.live]>>
     IN
       \/ /\ r.kind = "start" /\ provider.turn = 0 /\ provider.last < MaxTurn
          /\ provider' = [provider EXCEPT
               !.turn = provider.last + 1, !.last = @ + 1,
               !.announced = FALSE, !.stopping = FALSE,
               !.history = @ \cup {r.prompt},
               !.echoes = @ \cup ({r.prompt} \cap Msg),
               !.owed = owe(TRUE, provider.last + 1)]
       \/ /\ r.kind = "steer" /\ provider.turn = r.turn
          /\ provider' = [provider EXCEPT
               !.history = @ \cup {r.prompt},
               !.echoes = @ \cup ({r.prompt} \cap Msg),
               !.owed = owe(TRUE, 0)]
       \/ /\ r.kind = "interrupt" /\ provider.turn = r.turn
          /\ provider' = [provider EXCEPT !.stopping = TRUE, !.owed = owe(TRUE, 0)]
       \/ provider' = [provider EXCEPT !.owed = owe(FALSE, 0)]
  /\ UNCHANGED <<mem, disk, serviceVars, handlerVars, workerVars, channelVars,
                 output, userVars, historyVars>>

ProviderReplies ==
  /\ provider.alive /\ provider.owed # <<>>
  /\ provider' = [provider EXCEPT !.owed = <<>>]
  /\ IF Head(provider.owed).live THEN Speak(Answer(Head(provider.owed)))
                                 ELSE UNCHANGED <<wake, output>>
  /\ UNCHANGED <<mem, disk, serviceVars, handlerVars, workerVars, inbox, pipe,
                 userVars, historyVars>>

ProviderStartsTurn ==
  /\ provider.alive /\ provider.turn # 0 /\ ~provider.announced
  /\ provider' = [provider EXCEPT !.announced = TRUE]
  /\ Speak(Started(provider.turn))
  /\ UNCHANGED <<mem, disk, serviceVars, handlerVars, workerVars, inbox, pipe,
                 userVars, historyVars>>

ProviderEchoes ==
  \E m \in provider.echoes :
    /\ provider.alive
    /\ provider' = [provider EXCEPT !.echoes = @ \ {m}]
    /\ Speak(Echo(m))
    /\ UNCHANGED <<mem, disk, serviceVars, handlerVars, workerVars, inbox,
                   pipe, userVars, historyVars>>

\* A turn may complete although its interruption was accepted.
ProviderEndsTurn ==
  /\ provider.alive /\ provider.turn # 0 /\ provider.announced
  /\ provider' = [provider EXCEPT !.turn = 0, !.announced = FALSE,
                                   !.stopping = FALSE]
  /\ \E o \in IF provider.stopping THEN {"completed", "interrupted"}
                                   ELSE {"completed", "failed"} :
       Speak(Finished(provider.turn, o))
  /\ UNCHANGED <<mem, disk, serviceVars, handlerVars, workerVars, inbox, pipe,
                 userVars, historyVars>>

ProviderDies ==
  /\ pc \in {"initial", "resume", "intent", "write", "call", "drain", "next",
             "popped", "house", "loop", "command", "sleep"}
  /\ provider.alive
  /\ provider' = [NewProcess(provider) EXCEPT !.alive = FALSE]
  /\ pipe' = <<>>
  /\ wake' = TRUE
  /\ UNCHANGED <<mem, disk, serviceVars, handlerVars, workerVars, inbox,
                 output, userVars, historyVars>>

CodexProvider ==
  \/ ProviderReads \/ ProviderReplies \/ ProviderStartsTurn \/ ProviderEchoes
  \/ ProviderEndsTurn \/ ProviderDies

-----------------------------------------------------------------------------
(* The service process: flush, shutdown, crash and restart (server::run) *)

Flush ==
  /\ svc = "up"
  /\ disk # mem
  /\ disk' = mem
  /\ UNCHANGED <<mem, serviceVars, handlerVars, workerVars, channelVars,
                 providerVars, userVars, historyVars>>

\* SIGTERM, SIGINT or a newer version: Store.stopping is set.
StopSignal ==
  /\ svc = "up"
  /\ stops < MaxStops
  /\ svc' = "stopping"
  /\ stops' = stops + 1
  /\ UNCHANGED <<mem, disk, crashes, resumer, handlerVars, workerVars,
                 channelVars, providerVars, userVars, historyVars>>

MarkActive ==
  /\ svc = "stopping"
  /\ svc' = "marked"
  /\ mem' = MarkedForResume(mem)
  /\ disk' = IF Active(mem) THEN mem' ELSE disk
  /\ UNCHANGED <<stops, crashes, resumer, handlerVars, workerVars, channelVars,
                 providerVars, userVars, historyVars>>

\* Mutant: the token is set and the sleeping worker not woken.
CancelSleepers ==
  /\ svc = "marked"
  /\ svc' = "cancelling"
  /\ cancelled' = TRUE
  /\ UNCHANGED <<mem, disk, stops, crashes, resumer, handlerVars, pc, sendVars,
                 initial, resuming, changed, channelVars, providerVars,
                 userVars, historyVars>>

CancelWorkers ==
  /\ svc = "marked"
  /\ svc' = "cancelling"
  /\ cancelled' = TRUE
  /\ wake' = TRUE
  /\ UNCHANGED <<mem, disk, stops, crashes, resumer, handlerVars, pc, sendVars,
                 initial, resuming, changed, inbox, providerVars, userVars,
                 historyVars>>

\* What a process that is gone leaves behind: the file.
Gone ==
  /\ svc' = "down"
  /\ mem' = disk'
  /\ resumer' = "none"
  /\ hpc' = "free" /\ hctl' = Plain("none") /\ seen' = "Idle"
  /\ pc' = "none" /\ changed' = FALSE /\ cancelled' = FALSE
  /\ via' = "initial" /\ hand' = Continue /\ target' = 0
  /\ initial' = Plain("none") /\ resuming' = FALSE
  /\ inbox' = <<>> /\ wake' = FALSE
  /\ pipe' = <<>> /\ output' = <<>>
  /\ provider' = NewProcess(provider)
  /\ UNCHANGED <<userVars, historyVars>>

\* The workers have been joined; what is still active is interrupted.
Exit ==
  /\ svc = "cancelling"
  /\ pc = "none"
  /\ disk' = InterruptedForExit(mem)
  /\ UNCHANGED <<stops, crashes>>
  /\ Gone

Crash ==
  /\ svc # "down"
  /\ crashes < MaxCrashes
  /\ crashes' = crashes + 1
  /\ UNCHANGED <<disk, stops>>
  /\ Gone

\* The window of restart_resumes may have passed for any number of them.
Restart ==
  /\ svc = "down"
  /\ svc' = "up"
  /\ \E recent \in 0..disk.resumes : mem' = AfterRestart(disk, recent)
  /\ disk' = mem'
  /\ resumer' = IF mem'.resume THEN "due" ELSE "none"
  /\ UNCHANGED <<stops, crashes, handlerVars, workerVars, channelVars,
                 providerVars, userVars, historyVars>>

\* resume_session reads the session and clears its mark...
ResumeDue ==
  /\ svc = "up"
  /\ resumer = "due"
  /\ resumer' = IF mem.status = "Interrupted" THEN "handle" ELSE "none"
  /\ mem' = [mem EXCEPT !.resume = FALSE]
  /\ UNCHANGED <<disk, svc, stops, crashes, handlerVars, workerVars,
                 channelVars, providerVars, userVars, historyVars>>

\* ...and then asks for Control::Resume like a user.
ResumeHandled ==
  /\ resumer = "handle"
  /\ Accept(Plain("resume"))
  /\ resumer' = "none"
  /\ UNCHANGED <<mem, svc, stops, crashes, workerVars, channelVars,
                 providerVars, userVars, historyVars>>

Service ==
  \/ Flush \/ MarkActive \/ CancelWorkers \/ Exit \/ Restart
  \/ ResumeDue \/ ResumeHandled

Next ==
  \/ SubmitMessage \/ SubmitControl \/ Handler \/ Worker \/ CodexProvider
  \/ Service \/ StopSignal \/ Crash

Spec == Init /\ [][Next]_vars

(***************************************************************************)
(* Threads of a live process run: a worker does not stay in a step (a call *)
(* to the provider is given up after 45 seconds), a handler stops waiting  *)
(* after 60, the service loop comes round.  Nothing is assumed of users or *)
(* of the provider, and nobody has to crash or stop the service.           *)
(***************************************************************************)
Fairness ==
  /\ WF_vars(Worker)
  /\ WF_vars(Handler)
  /\ WF_vars(Service)

FairSpec == Spec /\ Fairness

-----------------------------------------------------------------------------
(* What the session service promises *)

\* Where a message that may still be written to the provider can be: besides
\* the queue with the handler, with a worker that connects, on its way to one,
\* or in the worker's hands.
WithHandler(m) ==
  /\ hpc \in {"push", "prepare", "dispatch", "reconnect", "start"}
  /\ IsMessage(hctl) /\ hctl.msg = m

ForConnection(m) == initial.kind \in {"message", "launch"} /\ initial.msg = m

InInbox(m) == \E i \in DOMAIN inbox : IsMessage(inbox[i]) /\ inbox[i].msg = m

InHand(m) == pc \in {"popped", "resume", "intent", "write"} /\ hand = m

InPassing(m) == WithHandler(m) \/ ForConnection(m) \/ InInbox(m) \/ InHand(m)

Live(m) == m \in Range(mem.queue) \cup Range(disk.queue) \/ InPassing(m)

FateOf(m) == IF sent[m] > 0 THEN "sent"
             ELSE IF Live(m) THEN "held"
             ELSE IF m \in submitted THEN "dropped" ELSE "new"

\* The session keeps what MessageDelivery promises: no second copy of a prompt
\* is left, in the file or in a channel, when it is written to the provider
\* ("Store intent before sending: a lost reply must never trigger automatic
\* replay", send_turn) or shown as unsent.
Delivery == INSTANCE MessageDelivery
              WITH fate <- [m \in Msg |-> FateOf(m)],
                   sent <- [m \in Msg |-> sent[m]]

DeliversOnce == Delivery!Spec

DistinctMessages(q) ==
  \A i, j \in DOMAIN q :
    IsMessage(q[i]) /\ IsMessage(q[j]) /\ q[i].msg = q[j].msg => i = j

OnePlace(m) ==
  /\ m \in Range(mem.queue) => ~InPassing(m)
  /\ WithHandler(m) => ~ForConnection(m) /\ ~InInbox(m) /\ ~InHand(m)
  /\ ForConnection(m) => ~InInbox(m) /\ ~InHand(m)
  /\ InInbox(m) => ~InHand(m)
  /\ Live(m) => sent[m] = 0
  /\ m \notin submitted => ~Live(m) /\ sent[m] = 0

\* Every message that may still be sent exists once in memory, and not in the
\* file either when it has been written to the provider (send_turn, send_queued,
\* Service::start: each hands the message on and keeps no copy).
OneCopy ==
  /\ IsInjective(mem.queue) /\ IsInjective(disk.queue)
  /\ DistinctMessages(inbox)
  /\ \A m \in Msg : OnePlace(m)

\* A prompt of a user is written to the provider at most once, whatever
\* fails, crashes or is restarted (send_turn, after_restart).
AtMostOnce == \A m \in Msg : sent[m] <= 1

\* A message shown only as unsent can be sent again safely: it was never
\* written to the provider (Session::unsent, worker_ended, after_restart).
UnsentWasNotSent ==
  \A m \in Msg :
    "unsent" \in mem.marks[m] /\ "delivered" \notin mem.marks[m] => sent[m] = 0

\* A message shown as delivered is part of the provider's conversation: no
\* reply or echo is taken for that of another prompt (send_turn, apply_event).
DeliveredWasAccepted ==
  \A m \in Msg : "delivered" \in mem.marks[m] => m \in provider.history

\* A turn the session shows as running runs, or the news of its end is on the
\* way: neither a late reply nor a reconnect leaves a turn that never ends
\* (send_turn's completed_turn check, worker_ended).
RunningTurnIsReal ==
  mem.turn # 0 /\ svc # "down" =>
    /\ pc \notin {"none", "ended"}
    /\ \/ ~provider.alive
       \/ provider.turn = mem.turn
       \/ \E i \in DOMAIN output :
            output[i].kind = "finished" /\ output[i].turn = mem.turn

\* Once a user's Interrupt is carried out, nothing is written to the provider
\* until somebody asks for it again (Control::Interrupt in engine::command).
InterruptHolds == [][halted => sent' = sent]_vars

\* A message the service took is in the transcript, in the queue, or with
\* someone who is about to send it (SaveAndAnswer and StartWorker answer Ok
\* before the worker has seen it).
NothingLost ==
  svc # "down" =>
    \A m \in acked :
      mem.marks[m] # {} \/ m \in Range(mem.queue) \/ InPassing(m)

-----------------------------------------------------------------------------
(* What must eventually happen *)

\* The worker reads every command and every event: the wake signal set
\* between its last look and its sleep is not lost (wake::Signal).
WorkerReadsAll == inbox # <<>> \/ output # <<>> ~> inbox = <<>> /\ output = <<>>

\* A service told to stop stops: every worker notices its cancelled token,
\* whatever call or wait it is in, so the join in server::run returns.
ShutdownEnds == svc = "stopping" ~> svc = "down"

-----------------------------------------------------------------------------
(* What the documentation and messages say, and the code does not keep *)

\* "A session the user interrupted is not working, so it stays interrupted
\* too": a restart does not continue it (cloud-agents.md).
InterruptSurvivesRestart == halted => resumer = "none"

\* A message "explicitly queues ... for the next turn" (README): an idle
\* session does not leave one in its queue.
QueueMovesOn ==
  svc = "up" /\ mem.status = "Idle" /\ mem.queue # <<>>
    ~> svc # "up" \/ mem.status # "Idle" \/ mem.queue = <<>>

\* "Session is disconnected; send a message or choose Continue to reconnect":
\* a session without a worker does not refuse messages for good.
DisconnectedTakesMessages ==
  svc = "up" /\ pc = "none" /\ hpc = "free" => ~Active(mem)

\* "Delivery failures ... retain the message in the chat; click it to copy the
\* text to the draft and retry" (README): a session that has stopped does not
\* go on showing a message as awaiting its connection.
AwaitingEnds ==
  Stopped(mem) => \A m \in Msg : "awaiting" \notin mem.marks[m]
=============================================================================
