------------------------------ MODULE Session ------------------------------
(***************************************************************************)
(* The record the agent service keeps for one Codex coding session, and    *)
(* the whole-record changes made to it: by an event of the provider, by a  *)
(* worker that sends a prompt or ends, and by a restart of the service.    *)
(* Each operator is the body of one closure given to Store::update, so a   *)
(* change made with it is atomic: the store holds its lock meanwhile.      *)
(*                                                                         *)
(* The record lives twice, in memory and in <id>.json; AgentService says   *)
(* when the one is copied to the other.                                    *)
(***************************************************************************)
EXTENDS Naturals, SequencesExt

CONSTANTS
  Msg,          \* the prompts a user submits; each is submitted once
  Continue,     \* the prompt of Control::Resume (provider::CONTINUE)
  MaxTurn,      \* bound: turns the provider runs, numbered 1..MaxTurn
  ResumeLimit   \* automatic continuations within one window

ASSUME SessionAssumption ==
  /\ IsFiniteSet(Msg)
  /\ Continue \notin Msg
  /\ MaxTurn \in Nat
  /\ ResumeLimit \in Nat \ {0}

Prompt == Msg \cup {Continue}

\* Turn 0 stands for None.
Turn == 0..MaxTurn

(***************************************************************************)
(* Waiting (a turn that waits for the user's approval) is Running here:    *)
(* both are active, and no rule of this module tells them apart.           *)
(* Completed belongs to review jobs only.                                  *)
(***************************************************************************)
Status == {"Starting", "Running", "Idle", "Interrupted", "Failed"}

Outcome == {"completed", "interrupted", "failed"}

(***************************************************************************)
(* How the transcript shows a prompt.  "launch" is the prompt a session    *)
(* was created with, kept in its job; "delivered" is the kind userMessage, *)
(* "unacked" the kind "unsent or unacknowledged", "awaiting" the kind      *)
(* "awaiting connection".  A prompt may have entries of several kinds.     *)
(***************************************************************************)
Kind == {"launch", "awaiting", "sending", "delivered", "unsent", "unacked"}

Session ==
  [ status    : Status,
    turn      : Turn,             \* turn_id
    completed : Turn,             \* completed_turn
    thread    : BOOLEAN,          \* thread_id.is_some()
    attempted : BOOLEAN,          \* permission_state.codex_turn_attempted
    queue     : Seq(Msg),
    marks     : [Msg -> SUBSET Kind],
    resume    : BOOLEAN,          \* resume_on_start
    resumes   : 0..ResumeLimit ]  \* restart_resumes.len()

NewSession ==
  [ status |-> "Starting", turn |-> 0, completed |-> 0,
    thread |-> FALSE, attempted |-> FALSE,
    queue |-> <<>>, marks |-> [m \in Msg |-> {}],
    resume |-> FALSE, resumes |-> 0 ]

Active(s) == s.status \in {"Starting", "Running"}

Stopped(s) == s.status \in {"Interrupted", "Failed"}

\* Messages that arrive now wait in the queue for the first connection.
Preparing(s) == s.status = "Starting" /\ ~s.thread

-----------------------------------------------------------------------------
(* The transcript *)

\* An entry of the given kind for every message of M.
Noted(marks, M, kind) ==
  [m \in Msg |-> IF m \in M THEN marks[m] \cup {kind} ELSE marks[m]]

\* The "sending" entries of the messages of M become entries of another kind.
Settled(marks, M, kind) ==
  [m \in Msg |-> IF m \in M /\ "sending" \in marks[m]
                   THEN (marks[m] \ {"sending"}) \cup {kind}
                   ELSE marks[m]]

\* Mutants: the queue is emptied without a trace, and it is shown as unsent
\* but kept.
QueueForgotten(s) == [s EXCEPT !.queue = <<>>]

QueueKept(s) == [s EXCEPT !.marks = Noted(@, Range(s.queue), "unsent")]

\* The queue is given up: each of its messages is shown as unsent.
QueueUnsent(s) ==
  [s EXCEPT !.queue = <<>>, !.marks = Noted(@, Range(s.queue), "unsent")]

\* Nobody waits for the acknowledgement of a prompt any more.
SendingUnacked(s) == [s EXCEPT !.marks = Settled(@, Msg, "unacked")]

-----------------------------------------------------------------------------
(* Sending a prompt (engine::send_turn) *)

\* What is recorded before the request: a lost reply must never replay it.
SendIntent(s, p, steer) ==
  [s EXCEPT
     !.status    = IF steer THEN @ ELSE "Starting",
     !.attempted = @ \/ ~steer,
     !.marks     = [m \in Msg |-> IF m = p
                                    THEN (@[m] \ {"awaiting"}) \cup {"sending"}
                                    ELSE @[m]]]

\* Mutant: the turn is taken up although its end has been seen.
SendAcceptedLate(s, p, t) ==
  LET turn == IF t # 0 THEN t ELSE s.turn
  IN  [s EXCEPT !.turn   = turn,
                !.status = IF turn # 0 THEN "Running" ELSE @,
                !.marks  = Settled(@, {p}, "delivered")]

\* The acknowledgement; t is the turn it names, 0 when it names none.
SendAccepted(s, p, t) ==
  LET turn == IF t # 0 /\ s.completed # t THEN t ELSE s.turn
  IN  [s EXCEPT !.turn   = turn,
                !.status = IF turn # 0 THEN "Running" ELSE @,
                !.marks  = Settled(@, {p}, "delivered")]

\* Mutant: a prompt without an answer returns to the queue, to be tried again.
SendRetried(s, p) ==
  IF p = Continue THEN s
  ELSE [s EXCEPT !.queue = <<p>> \o @, !.marks[p] = @ \ {"sending"}]

\* An error or no answer.  The entry may already carry the provider's own
\* identifier (an echo came first); then another entry is added.
SendRefused(s, p) ==
  [s EXCEPT !.marks = [m \in Msg |-> IF m = p
                                       THEN (@[m] \ {"sending"}) \cup {"unacked"}
                                       ELSE @[m]]]

-----------------------------------------------------------------------------
(* Events of the provider (engine::apply_event) *)

Started(t)      == [kind |-> "started", turn |-> t]
Finished(t, o)  == [kind |-> "finished", turn |-> t, outcome |-> o]
Echo(m)         == [kind |-> "echo", prompt |-> m]

Event ==
       [kind : {"started"}, turn : Turn]
  \cup [kind : {"finished"}, turn : Turn, outcome : Outcome]
  \cup [kind : {"echo"}, prompt : Msg]

TurnStarted(s, t) == [s EXCEPT !.turn = t, !.status = "Running"]

StatusAfter(o) == CASE o = "completed"   -> "Idle"
                    [] o = "interrupted" -> "Interrupted"
                    [] o = "failed"      -> "Failed"

TurnFinished(s, t, o) ==
  LET ended == [s EXCEPT !.completed = t, !.turn = 0, !.status = StatusAfter(o)]
  IN  IF o = "completed" THEN ended ELSE QueueUnsent(ended)

\* The provider's own copy of a prompt: the waiting entry takes its identity,
\* and without one it becomes an entry of its own.
Echoed(s, m) ==
  [s EXCEPT !.marks[m] = (@ \ {"sending"}) \cup {"delivered"}]

\* A reply that comes too late for its call is no event and changes nothing.
ApplyEvent(s, e) ==
  CASE e.kind = "started"  -> TurnStarted(s, e.turn)
    [] e.kind = "finished" -> TurnFinished(s, e.turn, e.outcome)
    [] e.kind = "echo"     -> Echoed(s, e.prompt)
    [] OTHER               -> s

\* The same, with the queue taken aside (InterruptAndSend's preserve_queue).
ApplyKeepingQueue(s, e) ==
  [ApplyEvent([s EXCEPT !.queue = <<>>], e) EXCEPT !.queue = s.queue]

\* A resumed conversation lists what it holds.
Restored(s, H) == [s EXCEPT !.marks = Noted(@, H, "delivered")]

-----------------------------------------------------------------------------
(* The end of a worker and of the service *)

\* server::worker_ended: the worker stopped with an error.  It was told to
\* stop (cancelled), or the service is stopping, or the error is its own.
WorkerEnded(s, cancelled, stopping) ==
  LET halted == IF ~(cancelled \/ stopping) THEN [s EXCEPT !.status = "Failed"]
                ELSE IF Active(s)
                  THEN [s EXCEPT !.status = "Interrupted", !.resume = @ \/ stopping]
                ELSE s
      emptied == IF halted.resume THEN halted ELSE QueueUnsent(halted)
  IN  [SendingUnacked(emptied) EXCEPT !.turn = 0]

\* server::run on SIGTERM, before the workers stop.
MarkedForResume(s) == IF Active(s) THEN [s EXCEPT !.resume = TRUE] ELSE s

\* server::run on SIGTERM, after the workers have stopped.
InterruptedForExit(s) ==
  IF Active(s) THEN [s EXCEPT !.status = "Interrupted", !.turn = 0] ELSE s

\* Mutant: one continuation too many.
MayContinueOnceMore(s, recent) == s.thread /\ recent <= ResumeLimit

\* recent is the number of restart_resumes still within RESUME_WINDOW.
MayContinue(s, recent) == s.thread /\ recent < ResumeLimit

\* Mutant: a session that continues sends again what had no answer.
AfterRestartReplaying(s, recent) ==
  LET unanswered == {m \in Msg : "sending" \in s.marks[m]}
  IN  SendingUnacked(
        [s EXCEPT !.status = "Interrupted", !.turn = 0, !.resume = s.thread,
                  !.queue = SetToSeq(unanswered) \o @])

\* server::after_restart, and the "sending" entries server::run then settles.
AfterRestart(s, recent) ==
  LET working == Active(s) \/ s.resume
      resumes == working /\ MayContinue(s, recent)
      marked  == [s EXCEPT
                    !.status  = IF working THEN "Interrupted" ELSE @,
                    !.turn    = IF working THEN 0 ELSE @,
                    !.resumes = IF resumes THEN recent + 1
                                ELSE IF working THEN recent ELSE @,
                    !.resume  = resumes]
  IN  SendingUnacked(IF resumes THEN marked ELSE QueueUnsent(marked))
=============================================================================
