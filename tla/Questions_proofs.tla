---------------------------- MODULE Questions_proofs ----------------------------
(***************************************************************************)
(* The question panel, for any number of notes, requests, questions,       *)
(* turns, restarts and failures: a request gets one response, what its     *)
(* user was told is settled is never asked again, an answer counts only    *)
(* when it was delivered or queued, and reaches the provider twice only    *)
(* after a lost reply.                                                     *)
(*                                                                         *)
(* The argument has three layers.  Good says what one record says of       *)
(* itself, and Sound what is in the queues between the parties; they       *)
(* hold whatever the others do.  Told and Blocking relate the records in   *)
(* memory and on disk, the copies that the handler and the worker took     *)
(* earlier, and what is on the wire.  Delivery follows one message from    *)
(* the record to the provider and back.                                    *)
(***************************************************************************)
EXTENDS Questions, TLAPS

-----------------------------------------------------------------------------
(* What the parties hand each other *)

Cmds ==
  [kind : {"none", "resume", "chat", "answer", "skip", "respond"},
   item : Items \cup {NoItem}, part : Nat, id : Nat]

GoodCommand(c) ==
  /\ c \in Cmds
  /\ c.kind \in {"answer", "skip"} => c.item \in Items /\ c.part \in Parts[c.item]
  /\ c.kind = "respond" => c.item \in Items

\* A worker is never told to skip a question of a note.
WorkerCommand(c) == GoodCommand(c) /\ (c.kind = "skip" => c.item \in Requests)

Events ==
  [kind : {"started", "request", "resolved", "note", "remove", "move",
           "completed", "reply"},
   turn : 0..MaxTurns, item : Items \cup {NoItem}, parts : SUBSET Asked,
   outcome : {"Idle", "Failed", "ok", "error"}]

GoodEvent(e) ==
  /\ e \in Events
  /\ e.kind \in {"request", "resolved"} => e.item \in Requests
  /\ e.kind = "note" => e.item \in Notes
  /\ e.kind = "started" => e.turn # 0
  /\ e.kind = "completed" => e.outcome \in {"Idle", "Failed"}
  /\ e.kind = "reply" => e.outcome = "error" \/ e.turn # 0

-----------------------------------------------------------------------------
(* What one record says of itself *)

\* A note that was asked is in the panel until it is finished.  A session that
\* is not active blocks nothing.  An answer in the queue is settled, and is
\* there once.
Good(s) ==
  /\ s \in Session
  /\ \A i \in Items : s.answers[i] \subseteq Parts[i]
  /\ s.notes = (s.panel \cap Notes) \cup s.finished
  /\ s.panel \cap s.finished = {}
  /\ ~Active(s) => s.panel \cap Requests = {}
  /\ \A j \in DOMAIN s.queue : s.queue[j] \in Asked => s.queue[j] \in Settled(s)
  /\ \A j, k \in DOMAIN s.queue :
       s.queue[j] \in Asked /\ s.queue[j] = s.queue[k] => j = k

-----------------------------------------------------------------------------
(* What the parties hold *)

Handlers == [step : {"idle", "read", "waiting"}, cmd : Cmds, read : Session]

HandlerOK ==
  /\ handler \in Handlers
  /\ Good(handler.read) /\ GoodCommand(handler.cmd)
  /\ handler.step = "read" => handler.cmd.kind # "none"
  /\ handler.step = "read" /\ handler.cmd.kind = "skip"
       => handler.cmd.item \in Requests \cup handler.read.panel

InboxOK ==
  /\ inbox \in Seq(Cmds)
  /\ \A k \in DOMAIN inbox : /\ WorkerCommand(inbox[k])
                             /\ inbox[k].kind # "none"

Workers ==
  [step : WorkerSteps, cmd : Cmds, answers : SUBSET Nat, changed : BOOLEAN,
   after : {"none", "command", "initial", "switched", "queued"},
   prompt : Prompts]

Flying == worker.step \in {"calling", "record"}

\* A command the worker remembers is one it has not started on or one it
\* waits for a reply to.
WorkerOK ==
  /\ worker \in Workers /\ WorkerCommand(worker.cmd)
  /\ worker.step \in {"off", "loop", "tidy", "queue", "stopping"}
       => worker.cmd.kind = "none"
  /\ worker.step \in {"guide", "asking", "connect"} /\ worker.after = "switched"
       => worker.cmd.kind = "none"
  /\ Flying =>
       /\ worker.after # "none"
       /\ worker.cmd.kind = "answer" =>
            /\ worker.cmd.item \in Notes
            /\ worker.prompt = <<worker.cmd.item, worker.cmd.part>>
            /\ worker.cmd.part \in worker.answers
            /\ worker.answers \subseteq Parts[worker.cmd.item]
       /\ worker.cmd.kind = "respond" =>
            worker.cmd.item \in Notes /\ worker.prompt = Batch(worker.cmd.item)
  /\ worker.step = "record" => worker.cmd.kind \in {"answer", "respond"}

Providers ==
  [turn : 0..MaxTurns, last : 0..MaxTurns, open : SUBSET Requests,
   asked : SUBSET Requests, call : {"none", "start", "steer", "taken"}]

WireOK == wire \in Seq(Events) /\ \A k \in DOMAIN wire : GoodEvent(wire[k])

Histories ==
  [sent : [Asked -> Nat], doubt : SUBSET Prompts, batch : SUBSET Notes,
   declined : SUBSET Asked, queued : SUBSET Asked, told : SUBSET Asked,
   responses : [Requests -> Nat]]

\* A note the handler has read of, or whose answer is in flight, was asked.
Known ==
  /\ handler.read.notes \subseteq mem.notes
  /\ Flying /\ worker.cmd.kind \in {"answer", "respond"}
       => worker.cmd.item \in mem.notes

Sound ==
  /\ Good(mem) /\ Good(disk)
  /\ HandlerOK /\ InboxOK /\ WorkerOK /\ WireOK /\ Known
  /\ provider \in Providers /\ history \in Histories
  /\ left \in [asks : Nat, says : Nat, faults : Nat]

-----------------------------------------------------------------------------
(* Requests *)

\* A request that can still be responded to has no response, and was asked.
Blocking ==
  /\ provider.open \subseteq provider.asked
  /\ \A r \in Requests : history.responses[r] <= 1
  /\ \A r \in Requests \ provider.asked : history.responses[r] = 0
  /\ \A r \in mem.panel \cap Requests :
       /\ r \in provider.asked
       /\ r \notin mem.responded => history.responses[r] = 0
  /\ \A k \in DOMAIN wire : wire[k].kind = "request" =>
       /\ wire[k].item \in provider.asked /\ wire[k].item \notin mem.panel
       /\ history.responses[wire[k].item] = 0
  /\ \A j, k \in DOMAIN wire :
       wire[j].kind = "request" /\ wire[k].kind = "request"
         /\ wire[j].item = wire[k].item => j = k

\* What the worker has read by the time it reads event k says that a turn runs.
InTurn(k) ==
  \/ mem.turn # 0 /\ \A i \in DOMAIN wire : i < k => wire[i].kind # "completed"
  \/ \E j \in DOMAIN wire :
       /\ j < k /\ wire[j].kind = "started"
       /\ \A i \in DOMAIN wire : j < i /\ i < k => wire[i].kind # "completed"

Ends(e, r) == e.kind = "completed" \/ (e.kind = "resolved" /\ e.item = r)

\* The provider waits for request r, or its end is on the wire after k.
EndsAfter(k, r) ==
  \/ r \in provider.open
  \/ \E j \in DOMAIN wire : k < j /\ Ends(wire[j], r)

\* A request is read in the turn that asked it, and before its end.
Turns ==
  /\ \A r \in mem.panel \cap Requests : EndsAfter(0, r)
  /\ mem.panel \cap Requests # {} => mem.turn # 0
  /\ provider.turn # 0 => InTurn(Len(wire) + 1)
  /\ \A k \in DOMAIN wire : wire[k].kind = "request" =>
       InTurn(k) /\ EndsAfter(k, wire[k].item)

-----------------------------------------------------------------------------
(* Answers *)

\* Older copies know less: the file, the handler's, and the answers a worker
\* kept while it waits for a reply.
Told ==
  /\ history.told \subseteq Settled(mem) \cap Settled(disk)
  /\ Settled(handler.read) \subseteq Settled(mem)
  /\ Flying /\ worker.cmd.kind = "answer" =>
       {worker.cmd.item} \X (worker.answers \ {worker.cmd.part})
         \subseteq Settled(mem)

Delivered(p) ==
  /\ p \in Asked => history.sent[p] > 0
  /\ \A n \in Notes : p = Batch(n) => n \in history.batch

SentBy(h, a) == h.sent[a] > 0 \/ a[1] \in h.batch

KeptBy(h, s) ==
  \A a \in Settled(s) \ h.declined :
    SentBy(h, a) \/ (a \in h.queued /\ a \in Range(s.queue) \cup s.unsent)

Kept(s) == KeptBy(history, s)

InFlight(a) == Flying /\ worker.prompt = a

IsReply(k) == wire[k].kind = "reply"

\* The reply on the wire is the one to the message in flight.
Replies ==
  /\ provider.call # "none" <=> worker.step = "calling"
  /\ provider.call # "taken" => \A k \in DOMAIN wire : ~IsReply(k)
  /\ \A j, k \in DOMAIN wire : IsReply(j) /\ IsReply(k) => j = k
  /\ \A k \in DOMAIN wire : IsReply(k) /\ wire[k].outcome = "ok"
       => Delivered(worker.prompt)
  /\ worker.step = "record" => Delivered(worker.prompt)

Unqueued(a) == a \notin Range(mem.queue) \cup Range(disk.queue)
Secure(a)   == a \in Settled(mem) \cap Settled(disk)

\* The message in flight has not reached the provider, or was refused.
Untaken ==
  \/ provider.call # "taken"
  \/ \E k \in DOMAIN wire : IsReply(k) /\ wire[k].outcome = "error"

\* An answer that was sent is in flight, or settled for good and not queued.
Once ==
  /\ \A a \in Asked \ history.doubt : history.sent[a] <= 1
  /\ \A a \in Asked \ history.doubt : history.sent[a] > 0 =>
       InFlight(a) \/ (Secure(a) /\ Unqueued(a))
  /\ \A a \in Asked : InFlight(a) =>
       /\ Unqueued(a)
       /\ worker.cmd.kind # "answer" => Secure(a)
       /\ worker.step = "calling" /\ a \notin history.doubt /\ Untaken
            => history.sent[a] = 0

Delivery == Kept(mem) /\ Kept(disk) /\ Replies /\ Once

Inv == Sound /\ Blocking /\ Turns /\ Told /\ Delivery

-----------------------------------------------------------------------------
(* Prompts, and what is settled *)

LEMMA AskedIs ==
  \A a : a \in Asked <=> \E n \in Notes : \E q \in Parts[n] : a = <<n, q>>
BY DEF Asked

LEMMA PartsAreNumbers == \A i \in Items : Parts[i] \subseteq Nat \ {0}
BY QuestionsAssumption

LEMMA PromptKinds ==
  /\ Asked \subseteq Prompts /\ Chat \in Prompts /\ Chat \notin Asked
  /\ \A n \in Notes : /\ Batch(n) \in Prompts /\ Batch(n) \notin Asked
                      /\ Batch(n) # Chat
                      /\ \A m \in Notes : Batch(m) = Batch(n) => m = n
<1>1. \A n \in Notes : 0 \notin Parts[n] /\ n # NoItem
  BY PartsAreNumbers, QuestionsAssumption DEF Items
<1>2. Chat \notin Asked /\ \A n \in Notes : Batch(n) \notin Asked
  BY <1>1, AskedIs DEF Chat, Batch
<1> QED BY <1>1, <1>2 DEF Prompts, Chat, Batch

\* A question is settled in a record when its note is finished or it is among
\* the answers.
LEMMA SettledIs ==
  ASSUME NEW s, NEW n \in Notes, NEW q \in Parts[n]
  PROVE  /\ <<n, q>> \in Asked
         /\ <<n, q>> \in Settled(s) <=> n \in s.finished \/ q \in s.answers[n]
BY DEF Asked, Settled

LEMMA SettledOf ==
  ASSUME NEW s, NEW t, t.finished = s.finished,
         \A n \in Notes : t.answers[n] = s.answers[n]
  PROVE  Settled(t) = Settled(s)
BY AskedIs DEF Settled

-----------------------------------------------------------------------------
(* Changes of a record that the panel does not see *)

LEMMA GoodIsSession == ASSUME NEW s, Good(s) PROVE s \in Session
BY DEF Good

\* The queue, and what is settled, in a step that adds no answer to either.
Alike(s, t) ==
  /\ Settled(t) = Settled(s)
  /\ Range(s.queue) \cup s.unsent \subseteq Range(t.queue) \cup t.unsent
  /\ Range(t.queue) \cap Asked \subseteq Range(s.queue)

SameRequests(s, t) ==
  /\ t.panel \cap Requests = s.panel \cap Requests
  /\ t.responded = s.responded
  /\ t.turn = s.turn

NoRequests(t) == t.panel \cap Requests = {}

\* Only the status and what goes with it is different.
LEMMA StatusOnly ==
  ASSUME NEW s, Good(s), NEW t \in Session,
         t.panel = s.panel, t.answers = s.answers, t.finished = s.finished,
         t.queue = s.queue, t.notes = s.notes, s.unsent \subseteq t.unsent,
         Active(t) \/ (Active(s) => Active(t))
  PROVE  Good(t) /\ Alike(s, t)
<1>1. Settled(t) = Settled(s)
  BY SettledOf
<1>2. Alike(s, t)
  BY <1>1 DEF Alike
<1>3. Good(t)
  BY <1>1 DEF Good
<1> QED BY <1>2, <1>3

LEMMA SetStatus ==
  ASSUME NEW s \in Session,
         NEW v \in {"Starting", "Running", "Waiting", "Idle", "Failed"}
  PROVE  [s EXCEPT !.status = v] \in Session
BY Zenon DEF Session

LEMMA SetTurn ==
  ASSUME NEW s \in Session, NEW n \in 0..MaxTurns
  PROVE  [s EXCEPT !.turn = n] \in Session
BY Zenon DEF Session

LEMMA SetFlags ==
  ASSUME NEW s \in Session, NEW b \in BOOLEAN
  PROVE  /\ [s EXCEPT !.switching = b] \in Session
         /\ [s EXCEPT !.ready = b] \in Session
         /\ [s EXCEPT !.checked = b] \in Session
         /\ [s EXCEPT !.moving = b] \in Session
BY Zenon DEF Session

LEMMA SavedGood ==
  ASSUME NEW s, Good(s)
  PROVE  /\ Good(Saved(s)) /\ Alike(s, Saved(s)) /\ Alike(Saved(s), s)
         /\ Saved(s).queue = s.queue /\ Saved(s).unsent = s.unsent
         /\ Saved(s).notes = s.notes
<1> DEFINE t == Saved(s)
<1>1. s \in Session /\ NoRemoval \in [turn : 0..MaxTurns, parts : SUBSET Asked]
  BY QuestionsAssumption, GoodIsSession DEF NoRemoval
<1>2. t \in Session
  BY <1>1, Zenon DEF Saved, Session
<1>3. /\ t.panel = s.panel /\ t.answers = s.answers /\ t.finished = s.finished
      /\ t.notes = s.notes
      /\ t.queue = s.queue /\ t.unsent = s.unsent /\ t.status = s.status
  BY <1>1 DEF Saved, Session
<1>4. Good(t) /\ Alike(s, t)
  BY <1>2, <1>3, StatusOnly DEF Active
<1>5. Alike(t, s)
  BY <1>3, <1>4, StatusOnly, <1>1 DEF Active
<1> QED BY <1>3, <1>4, <1>5

\* What is queued becomes unsent.
LEMMA QueueUnsentGood ==
  ASSUME NEW s, Good(s)
  PROVE  /\ Good(QueueUnsent(s)) /\ Alike(s, QueueUnsent(s))
         /\ SameRequests(s, QueueUnsent(s))
         /\ QueueUnsent(s).panel = s.panel
         /\ QueueUnsent(s).status = s.status /\ QueueUnsent(s).notes = s.notes
<1> DEFINE t == QueueUnsent(s)
<1>1. s \in Session /\ Range(s.queue) \subseteq Prompts
  BY GoodIsSession DEF Session, Range
<1>2. <<>> \in Seq(Prompts) /\ s.unsent \cup Range(s.queue) \in SUBSET Prompts
  BY <1>1 DEF Session
<1>3. t \in Session
  BY <1>1, <1>2, Zenon DEF QueueUnsent, Session
<1>4. /\ t.panel = s.panel /\ t.answers = s.answers /\ t.finished = s.finished
      /\ t.notes = s.notes
      /\ t.queue = <<>> /\ t.unsent = s.unsent \cup Range(s.queue)
      /\ t.status = s.status /\ t.turn = s.turn /\ t.responded = s.responded
  BY <1>1 DEF QueueUnsent, Session
<1>5. Settled(t) = Settled(s)
  BY <1>4, SettledOf
<1>6. Range(t.queue) = {}
  BY <1>4 DEF Range
<1>7. Good(t)
  BY <1>3, <1>4, <1>5 DEF Good, Active
<1> QED BY <1>4, <1>5, <1>6, <1>7 DEF Alike, SameRequests

\* A message that answers nothing is queued, or an answer that is settled and
\* was not queued yet.
LEMMA AppendGood ==
  ASSUME NEW s, Good(s), NEW p \in Prompts,
         p \in Asked => p \in Settled(s) /\ p \notin Range(s.queue)
  PROVE  LET t == [s EXCEPT !.queue = Append(@, p)]
         IN  /\ Good(t) /\ Settled(t) = Settled(s) /\ SameRequests(s, t)
             /\ Range(t.queue) = Range(s.queue) \cup {p} /\ t.unsent = s.unsent
             /\ t.status = s.status /\ t.notes = s.notes
<1> DEFINE t == [s EXCEPT !.queue = Append(@, p)]
<1>1. s \in Session /\ s.queue \in Seq(Prompts)
  BY GoodIsSession DEF Session
<1>2. Append(s.queue, p) \in Seq(Prompts)
  BY <1>1
<1>3. t \in Session
  BY <1>1, <1>2, Zenon DEF Session
<1>4. /\ t.panel = s.panel /\ t.answers = s.answers /\ t.finished = s.finished
      /\ t.notes = s.notes
      /\ t.queue = Append(s.queue, p) /\ t.unsent = s.unsent
      /\ t.status = s.status /\ t.turn = s.turn /\ t.responded = s.responded
  BY <1>1 DEF Session
<1>5. Settled(t) = Settled(s)
  BY <1>4, SettledOf
<1>6. Range(t.queue) = Range(s.queue) \cup {p}
  BY <1>1, <1>4 DEF Range
<1>7. \A j \in DOMAIN s.queue : s.queue[j] \in Range(s.queue)
  BY DEF Range
<1>8. Good(t)
  <2>1. \A j \in DOMAIN t.queue : t.queue[j] \in Asked => t.queue[j] \in Settled(t)
    BY <1>1, <1>4, <1>5 DEF Good
  <2>2. \A j, k \in DOMAIN t.queue :
          t.queue[j] \in Asked /\ t.queue[j] = t.queue[k] => j = k
    BY <1>1, <1>4, <1>7 DEF Good
  <2> QED BY <1>3, <1>4, <1>5, <2>1, <2>2 DEF Good, Active
<1> QED BY <1>4, <1>5, <1>6, <1>8 DEF SameRequests

\* The first message leaves the queue; an answer is not in it any more.
LEMMA TailGood ==
  ASSUME NEW s, Good(s), s.queue # <<>>
  PROVE  LET t == [s EXCEPT !.queue = Tail(@)]
         IN  /\ Good(t) /\ Settled(t) = Settled(s) /\ SameRequests(s, t)
             /\ Head(s.queue) \in Prompts
             /\ Range(s.queue) = Range(t.queue) \cup {Head(s.queue)}
             /\ Head(s.queue) \in Asked => /\ Head(s.queue) \in Settled(s)
                                           /\ Head(s.queue) \notin Range(t.queue)
             /\ t.unsent = s.unsent /\ t.status = s.status /\ t.notes = s.notes
<1> DEFINE t == [s EXCEPT !.queue = Tail(@)]
           h == Head(s.queue)
<1>1. s \in Session /\ s.queue \in Seq(Prompts)
  BY GoodIsSession DEF Session
<1>2. Tail(s.queue) \in Seq(Prompts) /\ h \in Prompts /\ h = s.queue[1]
      /\ 1 \in DOMAIN s.queue
  BY <1>1
<1>3. t \in Session
  BY <1>1, <1>2, Zenon DEF Session
<1>4. /\ t.panel = s.panel /\ t.answers = s.answers /\ t.finished = s.finished
      /\ t.notes = s.notes
      /\ t.queue = Tail(s.queue) /\ t.unsent = s.unsent
      /\ t.status = s.status /\ t.turn = s.turn /\ t.responded = s.responded
  BY <1>1 DEF Session
<1>5. Settled(t) = Settled(s)
  BY <1>4, SettledOf
<1>6. /\ \A j \in DOMAIN t.queue : j + 1 \in DOMAIN s.queue
                                   /\ t.queue[j] = s.queue[j + 1]
      /\ \A j \in DOMAIN s.queue : j # 1 => j - 1 \in DOMAIN t.queue
                                            /\ t.queue[j - 1] = s.queue[j]
      /\ DOMAIN t.queue \subseteq Nat \ {0} /\ DOMAIN s.queue \subseteq Nat \ {0}
  BY <1>1, <1>4
<1>7. Range(s.queue) = Range(t.queue) \cup {h}
  <2>1. ASSUME NEW j \in DOMAIN s.queue
        PROVE  s.queue[j] \in Range(t.queue) \cup {h}
    <3>1. CASE j = 1
      BY <1>2, <3>1
    <3>2. CASE j # 1
      BY <1>6, <3>2 DEF Range
    <3> QED BY <3>1, <3>2
  <2>2. Range(t.queue) \cup {h} \subseteq Range(s.queue)
    BY <1>2, <1>6 DEF Range
  <2> QED BY <2>1, <2>2 DEF Range
<1>8. h \in Asked => h \in Settled(s) /\ h \notin Range(t.queue)
  <2> SUFFICES ASSUME h \in Asked PROVE h \in Settled(s) /\ h \notin Range(t.queue)
    OBVIOUS
  <2>1. h \in Settled(s)
    BY <1>2 DEF Good
  <2>2. ASSUME NEW j \in DOMAIN t.queue, t.queue[j] = h PROVE FALSE
    <3>1. s.queue[j + 1] = s.queue[1] /\ j + 1 \in DOMAIN s.queue /\ j \in Nat \ {0}
      BY <1>2, <1>6, <2>2
    <3>2. j + 1 = 1
      BY <1>2, <3>1 DEF Good
    <3> QED BY <3>1, <3>2
  <2> QED BY <2>1, <2>2 DEF Range
<1>9. Good(t)
  <2>1. \A j \in DOMAIN t.queue : t.queue[j] \in Asked => t.queue[j] \in Settled(t)
    BY <1>5, <1>6 DEF Good
  <2>2. \A j, k \in DOMAIN t.queue :
          t.queue[j] \in Asked /\ t.queue[j] = t.queue[k] => j = k
    <3> SUFFICES ASSUME NEW j \in DOMAIN t.queue, NEW k \in DOMAIN t.queue,
                        t.queue[j] \in Asked, t.queue[j] = t.queue[k]
                 PROVE  j = k
      OBVIOUS
    <3>1. j + 1 = k + 1
      BY <1>6 DEF Good
    <3> QED BY <3>1, <1>6
  <2> QED BY <1>3, <1>4, <1>5, <2>1, <2>2 DEF Good, Active
<1> QED BY <1>2, <1>4, <1>5, <1>7, <1>8, <1>9 DEF SameRequests

-----------------------------------------------------------------------------
(* Changes of the panel *)

\* Nothing but the panel, its answers and responses changed.
SameQueue(s, t) ==
  /\ t.queue = s.queue /\ t.unsent = s.unsent
  /\ t.status = s.status /\ t.turn = s.turn

LEMMA WithoutSession ==
  ASSUME NEW s, Good(s), NEW items
  PROVE  LET t == Without(s, items)
         IN  /\ t \in Session /\ SameQueue(s, t)
             /\ t.panel = s.panel \ items /\ t.responded = s.responded \ items
             /\ t.finished = s.finished /\ t.notes = s.notes
             /\ \A i \in Items :
                  t.answers[i] = IF i \in items THEN {} ELSE s.answers[i]
<1> DEFINE t == Without(s, items)
           now == [i \in Items |-> IF i \in items THEN {} ELSE s.answers[i]]
<1>1. s \in Session
  BY GoodIsSession
<1>2. /\ s.panel \ items \in SUBSET Items /\ s.responded \ items \in SUBSET Requests
      /\ now \in [Items -> SUBSET Nat]
  BY <1>1 DEF Session
<1>3. t \in Session
  BY <1>1, <1>2, Zenon DEF Session, Without
<1>4. /\ t.panel = s.panel \ items /\ t.responded = s.responded \ items
      /\ t.finished = s.finished /\ t.notes = s.notes /\ t.answers = now
      /\ SameQueue(s, t)
  BY <1>1 DEF Session, Without, SameQueue
<1> QED BY <1>3, <1>4

\* Requests leave the panel.
LEMMA WithoutRequests ==
  ASSUME NEW s, Good(s), NEW gone \in SUBSET Requests
  PROVE  LET t == Without(s, gone)
         IN  /\ Good(t) /\ Settled(t) = Settled(s) /\ SameQueue(s, t)
             /\ t.panel = s.panel \ gone /\ t.responded = s.responded \ gone
             /\ t.notes = s.notes
<1> DEFINE t == Without(s, gone)
<1>1. /\ t \in Session /\ SameQueue(s, t)
      /\ t.panel = s.panel \ gone /\ t.responded = s.responded \ gone
      /\ t.finished = s.finished /\ t.notes = s.notes
      /\ \A i \in Items : t.answers[i] = IF i \in gone THEN {} ELSE s.answers[i]
  BY WithoutSession
<1> HIDE DEF t
<1>2. Notes \cap gone = {} /\ Notes \subseteq Items
  BY QuestionsAssumption DEF Items
<1>3. Settled(t) = Settled(s)
  BY <1>1, <1>2, SettledOf
<1>4. Good(t)
  BY <1>1, <1>2, <1>3 DEF Good, SameQueue, Active
<1> QED BY <1>1, <1>3, <1>4 DEF t

\* A note leaves the panel for good.
LEMMA FinishGood ==
  ASSUME NEW s, Good(s), NEW n \in s.notes
  PROVE  LET t == [Without(s, {n}) EXCEPT !.finished = @ \cup {n}]
         IN  /\ Good(t) /\ SameQueue(s, t) /\ SameRequests(s, t)
             /\ Settled(t) = Settled(s) \cup ({n} \X Parts[n])
             /\ t.notes = s.notes
<1> DEFINE u == Without(s, {n})
           t == [u EXCEPT !.finished = @ \cup {n}]
<1>1. /\ u \in Session /\ SameQueue(s, u)
      /\ u.panel = s.panel \ {n} /\ u.responded = s.responded \ {n}
      /\ u.finished = s.finished /\ u.notes = s.notes
      /\ \A i \in Items : u.answers[i] = IF i = n THEN {} ELSE s.answers[i]
  BY WithoutSession
<1>0. s \in Session
  BY GoodIsSession
<1>2. n \in Notes /\ n \in Items /\ n \notin Requests /\ s.responded \subseteq Requests
  BY <1>0, QuestionsAssumption DEF Items, Session
<1> HIDE DEF u
<1>3. u.finished \cup {n} \in SUBSET Notes
  BY <1>1, <1>2 DEF Session
<1>4. t \in Session
  BY <1>1, <1>3, Zenon DEF Session
<1>5. /\ t.panel = s.panel \ {n} /\ t.responded = s.responded
      /\ t.finished = s.finished \cup {n} /\ t.notes = s.notes
      /\ t.answers = u.answers /\ SameQueue(s, t)
  <2>1. s.responded \ {n} = s.responded
    BY <1>2
  <2>2. /\ t.panel = u.panel /\ t.responded = u.responded /\ t.notes = u.notes
        /\ t.finished = u.finished \cup {n} /\ t.answers = u.answers
        /\ SameQueue(u, t)
    BY <1>1 DEF Session, SameQueue
  <2> QED BY <1>1, <2>1, <2>2 DEF SameQueue
<1> HIDE DEF t
<1>6. Settled(t) = Settled(s) \cup ({n} \X Parts[n])
  <2>1. ASSUME NEW m \in Notes, NEW q \in Parts[m]
        PROVE  <<m, q>> \in Settled(t)
                 <=> <<m, q>> \in Settled(s) \cup ({n} \X Parts[n])
    <3>1. m \in Items
      BY DEF Items
    <3> QED BY <1>1, <1>5, <3>1, SettledIs
  <2>2. {n} \X Parts[n] \subseteq Asked
    BY <1>2, AskedIs
  <2>3. \A a \in Asked : a \in Settled(t)
                           <=> a \in Settled(s) \cup ({n} \X Parts[n])
    BY <2>1, AskedIs
  <2> QED BY <2>2, <2>3 DEF Settled
<1>7. Good(t)
  <2>1. \A i \in Items : t.answers[i] \subseteq Parts[i]
    BY <1>1, <1>5 DEF Good
  <2>2. t.notes = (t.panel \cap Notes) \cup t.finished
    BY <1>2, <1>5 DEF Good
  <2>3. t.panel \cap t.finished = {}
    BY <1>5 DEF Good
  <2>4. ~Active(t) => t.panel \cap Requests = {}
    BY <1>5 DEF Good, Active, SameQueue
  <2>5. /\ \A j \in DOMAIN t.queue : t.queue[j] \in Asked => t.queue[j] \in Settled(t)
        /\ \A j, k \in DOMAIN t.queue :
             t.queue[j] \in Asked /\ t.queue[j] = t.queue[k] => j = k
    BY <1>5, <1>6 DEF Good, SameQueue
  <2> QED BY <1>4, <2>1, <2>2, <2>3, <2>4, <2>5 DEF Good
<1>8. SameRequests(s, t)
  BY <1>2, <1>5 DEF SameRequests, SameQueue
<1> QED BY <1>5, <1>6, <1>7, <1>8 DEF t, u

\* Some answers of one item are recorded, and whether it was responded to.
WithAnswers(s, i, now, all) ==
  [s EXCEPT !.answers[i] = now, !.responded = all]

LEMMA AnswerFields ==
  ASSUME NEW s, Good(s), NEW i \in s.panel, NEW now \in SUBSET Parts[i],
         NEW all \in SUBSET Requests,
         NEW t, t = WithAnswers(s, i, now, all)
  PROVE  /\ t \in Session /\ SameQueue(s, t) /\ t.panel = s.panel
         /\ t.responded = all /\ t.notes = s.notes /\ t.finished = s.finished
         /\ t.answers = [s.answers EXCEPT ![i] = now]
<1>1. s \in Session
  BY GoodIsSession
<1>2. i \in Items /\ now \subseteq Nat
  BY <1>1, PartsAreNumbers DEF Session
<1>3. [s.answers EXCEPT ![i] = now] \in [Items -> SUBSET Nat]
  BY <1>1, <1>2 DEF Session
<1>4. t \in Session
  BY <1>1, <1>3, Zenon DEF Session, WithAnswers
<1> QED BY <1>1, <1>4 DEF Session, SameQueue, WithAnswers

LEMMA AnswerGood ==
  ASSUME NEW s, Good(s), NEW i \in s.panel, NEW now \in SUBSET Parts[i],
         s.answers[i] \subseteq now,
         NEW t \in Session, SameQueue(s, t), t.panel = s.panel,
         t.notes = s.notes, t.finished = s.finished,
         t.answers = [s.answers EXCEPT ![i] = now]
  PROVE  /\ Good(t)
         /\ Settled(t) = Settled(s) \cup (({i} \X now) \cap Asked)
<1>1. s \in Session
  BY GoodIsSession
<1>2. i \in Items /\ now \subseteq Nat
  BY <1>1, PartsAreNumbers DEF Session
<1>3. \A j \in Items : t.answers[j] = IF j = i THEN now ELSE s.answers[j]
  BY <1>1, <1>2 DEF Session
<1>4. Settled(t) = Settled(s) \cup (({i} \X now) \cap Asked)
  <2>1. ASSUME NEW m \in Notes, NEW q \in Parts[m]
        PROVE  <<m, q>> \in Settled(t)
                 <=> <<m, q>> \in Settled(s) \cup (({i} \X now) \cap Asked)
    <3>1. m \in Items /\ t.finished = s.finished
          /\ t.answers[m] = IF m = i THEN now ELSE s.answers[m]
      BY <1>3 DEF Items
    <3>2. /\ <<m, q>> \in Settled(s) <=> m \in s.finished \/ q \in s.answers[m]
          /\ <<m, q>> \in Settled(t) <=> m \in t.finished \/ q \in t.answers[m]
          /\ <<m, q>> \in Asked
      BY SettledIs
    <3>3. <<m, q>> \in ({i} \X now) \cap Asked <=> m = i /\ q \in now
      BY <3>2
    <3> QED BY <3>1, <3>2, <3>3
  <2>2. \A a \in Asked : a \in Settled(t)
                           <=> a \in Settled(s) \cup (({i} \X now) \cap Asked)
    BY <2>1, AskedIs
  <2> QED BY <2>2 DEF Settled
<1>5. Good(t)
  <2>1. \A j \in Items : t.answers[j] \subseteq Parts[j]
    BY <1>3 DEF Good
  <2>2. /\ \A j \in DOMAIN t.queue : t.queue[j] \in Asked => t.queue[j] \in Settled(t)
        /\ \A j, k \in DOMAIN t.queue :
             t.queue[j] \in Asked /\ t.queue[j] = t.queue[k] => j = k
    BY <1>4 DEF Good, SameQueue
  <2> QED BY <2>1, <2>2 DEF Good, Active, SameQueue
<1> QED BY <1>4, <1>5

\* record_answer for a note: exactly what is given becomes settled.
LEMMA RecordNote ==
  ASSUME NEW s, Good(s), NEW n \in s.notes, NEW given \in SUBSET Parts[n]
  PROVE  LET t == RecordAnswer(s, n, given, FALSE)
         IN  /\ Good(t) /\ SameQueue(s, t) /\ SameRequests(s, t)
             /\ Settled(t) = Settled(s) \cup ({n} \X given)
             /\ t.notes = s.notes
<1> DEFINE t == RecordAnswer(s, n, given, FALSE)
           merged == given \cup s.answers[n]
<1>1. s \in Session
  BY GoodIsSession
<1>2. n \in Notes /\ n \in Items /\ n \notin Requests /\ s.responded \subseteq Requests
  BY <1>1, QuestionsAssumption DEF Items, Session
<1>3. merged \subseteq Parts[n] /\ {n} \X given \subseteq Asked
      /\ {n} \X Parts[n] \subseteq Asked
  BY <1>2, AskedIs DEF Good
<1>4. {n} \X s.answers[n] \subseteq Settled(s)
      /\ (n \in s.finished => {n} \X Parts[n] \subseteq Settled(s))
  <2>1. \A q \in s.answers[n] : q \in Parts[n]
    BY <1>2 DEF Good
  <2>2. \A q \in Parts[n] :
          <<n, q>> \in Settled(s) <=> n \in s.finished \/ q \in s.answers[n]
    BY <1>2, SettledIs
  <2> QED BY <2>1, <2>2
<1>5. CASE merged = Parts[n]
  <2>1. t = [Without(s, {n}) EXCEPT !.finished = @ \cup {n}]
    BY <1>2, <1>5 DEF RecordAnswer
  <2>2. {n} \X Parts[n] = ({n} \X given) \cup ({n} \X s.answers[n])
    BY <1>5
  <2>3. /\ Good(t) /\ SameQueue(s, t) /\ SameRequests(s, t)
        /\ Settled(t) = Settled(s) \cup ({n} \X Parts[n]) /\ t.notes = s.notes
    BY <2>1, FinishGood
  <2> QED BY <2>2, <2>3, <1>4
<1>6. CASE merged # Parts[n] /\ n \in s.panel
  <2>1. s.responded \ {n} = s.responded
    BY <1>2
  <2>2. t = WithAnswers(s, n, merged, s.responded \ {n})
    BY <1>6 DEF RecordAnswer, WithAnswers
  <2>3. ({n} \X merged) \cap Asked = ({n} \X given) \cup ({n} \X s.answers[n])
    BY <1>3
  <2>4. /\ Good(t) /\ SameQueue(s, t) /\ t.panel = s.panel
        /\ t.responded = s.responded \ {n} /\ t.notes = s.notes
        /\ Settled(t) = Settled(s) \cup (({n} \X merged) \cap Asked)
    <3>1. merged \in SUBSET Parts[n] /\ s.answers[n] \subseteq merged
          /\ s.responded \ {n} \in SUBSET Requests
      BY <1>2, <1>3
    <3> HIDE DEF merged, t
    <3>2. /\ t \in Session /\ SameQueue(s, t) /\ t.panel = s.panel
          /\ t.responded = s.responded \ {n} /\ t.notes = s.notes
          /\ t.finished = s.finished /\ t.answers = [s.answers EXCEPT ![n] = merged]
      BY <3>1, <1>6, <2>2, AnswerFields
    <3> QED BY <3>1, <3>2, <1>6, AnswerGood
  <2> QED BY <1>4, <2>1, <2>3, <2>4 DEF SameRequests, SameQueue
<1>7. CASE merged # Parts[n] /\ n \notin s.panel
  <2>1. t = s
    BY <1>7 DEF RecordAnswer
  <2>2. n \in s.finished
    BY <1>2, <1>7 DEF Good
  <2> QED BY <2>1, <2>2, <1>4 DEF SameQueue, SameRequests
<1> QED BY <1>5, <1>6, <1>7

\* record_answer for a request: no question of a note is touched.
LEMMA RecordRequest ==
  ASSUME NEW s, Good(s), NEW r \in Requests \cap s.panel,
         NEW given \in SUBSET Parts[r], NEW all \in BOOLEAN
  PROVE  LET t == RecordAnswer(s, r, given, all)
         IN  /\ Good(t) /\ SameQueue(s, t) /\ Settled(t) = Settled(s)
             /\ t.panel = s.panel /\ t.notes = s.notes
             /\ t.responded = IF all THEN s.responded \cup {r}
                              ELSE s.responded \ {r}
<1> DEFINE t == RecordAnswer(s, r, given, all)
           merged == given \cup s.answers[r]
           responded == IF all THEN s.responded \cup {r} ELSE s.responded \ {r}
<1>1. s \in Session
  BY GoodIsSession
<1>2. r \in Items /\ r \notin Notes /\ responded \in SUBSET Requests
  BY <1>1, QuestionsAssumption DEF Items, Session
<1>3. t = WithAnswers(s, r, merged, responded)
  BY <1>2 DEF RecordAnswer, WithAnswers
<1>4. merged \in SUBSET Parts[r] /\ ({r} \X merged) \cap Asked = {}
  BY <1>2, AskedIs DEF Good
<1>6. s.answers[r] \subseteq merged
  OBVIOUS
<1> HIDE DEF merged, responded, t
<1>5. /\ Good(t) /\ SameQueue(s, t) /\ t.panel = s.panel
      /\ t.responded = responded /\ t.notes = s.notes
      /\ Settled(t) = Settled(s) \cup (({r} \X merged) \cap Asked)
  <2>1. /\ t \in Session /\ SameQueue(s, t) /\ t.panel = s.panel
        /\ t.responded = responded /\ t.notes = s.notes
        /\ t.finished = s.finished /\ t.answers = [s.answers EXCEPT ![r] = merged]
    BY <1>2, <1>3, <1>4, AnswerFields
  <2> QED BY <2>1, <1>4, <1>6, AnswerGood
<1> QED BY <1>4, <1>5 DEF t, responded

LEMMA OnlyNotesGood ==
  ASSUME NEW s, Good(s)
  PROVE  /\ Good(OnlyNotes(s)) /\ Alike(s, OnlyNotes(s))
         /\ NoRequests(OnlyNotes(s)) /\ OnlyNotes(s).notes = s.notes
         /\ OnlyNotes(s).status = s.status
<1> DEFINE t == OnlyNotes(s)
<1>1. /\ Good(t) /\ Settled(t) = Settled(s) /\ SameQueue(s, t)
      /\ t.panel = s.panel \ Requests /\ t.notes = s.notes
  BY WithoutRequests DEF OnlyNotes
<1> QED BY <1>1 DEF Alike, SameQueue, NoRequests

\* The panel has every note that was asked and is not finished.
LEMMA NotesGood ==
  ASSUME NEW s, Good(s), NEW t \in Session,
         t.notes \in SUBSET Notes, s.notes \subseteq t.notes,
         t.panel = s.panel \cup (t.notes \ s.finished),
         t.answers = s.answers, t.finished = s.finished, SameQueue(s, t),
         t.responded = s.responded
  PROVE  Good(t) /\ Alike(s, t) /\ SameRequests(s, t)
<1>1. Settled(t) = Settled(s)
  BY SettledOf
<1>2. s \in Session /\ Notes \cap Requests = {}
  BY GoodIsSession, QuestionsAssumption
<1>3. t.notes = (t.panel \cap Notes) \cup t.finished
  BY DEF Good
<1>4. t.panel \cap Requests = s.panel \cap Requests /\ t.panel \cap t.finished = {}
  BY <1>2 DEF Good
<1>5. Good(t)
  BY <1>1, <1>3, <1>4 DEF Good, Active, SameQueue
<1> QED BY <1>1, <1>4, <1>5 DEF Alike, SameRequests, SameQueue

LEMMA RestoreFields ==
  ASSUME NEW s \in Session
  PROVE  LET t == Restore(s)
         IN  /\ t \in Session /\ t.panel = s.panel \cup (s.notes \ s.finished)
             /\ t.answers = s.answers /\ t.finished = s.finished
             /\ t.notes = s.notes /\ t.responded = s.responded /\ SameQueue(s, t)
<1> DEFINE t == Restore(s)
<1>1. s.panel \cup (s.notes \ s.finished) \in SUBSET Items
  BY DEF Session, Items
<1>2. t \in Session
  BY <1>1, Zenon DEF Session, Restore
<1> QED BY <1>2 DEF Session, Restore, SameQueue

LEMMA RestoreGood ==
  ASSUME NEW s, Good(s)
  PROVE  /\ Good(Restore(s)) /\ Alike(s, Restore(s))
         /\ SameRequests(s, Restore(s)) /\ Restore(s).notes = s.notes
<1> DEFINE t == Restore(s)
<1>1. s \in Session /\ s.notes \in SUBSET Notes
  BY GoodIsSession DEF Session
<1>2. /\ t \in Session /\ t.panel = s.panel \cup (s.notes \ s.finished)
      /\ t.answers = s.answers /\ t.finished = s.finished
      /\ t.notes = s.notes /\ t.responded = s.responded /\ SameQueue(s, t)
  BY <1>1, RestoreFields
<1> HIDE DEF t
<1>3. Good(t) /\ Alike(s, t) /\ SameRequests(s, t)
  BY <1>1, <1>2, NotesGood
<1> QED BY <1>2, <1>3 DEF t

\* The worker's end, and a restart: no request is left.
LEMMA WorkerEndedGood ==
  ASSUME NEW s, Good(s)
  PROVE  /\ Good(WorkerEnded(s)) /\ Alike(s, WorkerEnded(s))
         /\ NoRequests(WorkerEnded(s)) /\ WorkerEnded(s).notes = s.notes
<1> DEFINE u == OnlyNotes(s)
           v == QueueUnsent(u)
           t == [v EXCEPT !.status = "Failed", !.turn = 0, !.switching = FALSE]
<1>1. Good(u) /\ Alike(s, u) /\ NoRequests(u) /\ u.notes = s.notes
  BY OnlyNotesGood
<1> HIDE DEF u
<1>2. /\ Good(v) /\ Alike(u, v) /\ v.panel = u.panel /\ v.notes = u.notes
  BY <1>1, QueueUnsentGood
<1> HIDE DEF v
<1>3. v \in Session
  BY <1>2, GoodIsSession
<1>4. t \in Session
  <2>1. 0 \in 0..MaxTurns
    BY QuestionsAssumption
  <2> QED BY <1>3, <2>1, Zenon DEF Session
<1>5. /\ t.panel = v.panel /\ t.answers = v.answers /\ t.finished = v.finished
      /\ t.queue = v.queue /\ t.notes = v.notes /\ t.unsent = v.unsent
  BY <1>3 DEF Session
<1> HIDE DEF t
<1>6. NoRequests(t)
  BY <1>1, <1>2, <1>5 DEF NoRequests
<1>7. Settled(t) = Settled(v)
  BY <1>5, SettledOf
<1>8. Good(t)
  BY <1>2, <1>4, <1>5, <1>6, <1>7 DEF Good, NoRequests
<1>9. Alike(s, t)
  BY <1>1, <1>2, <1>5, <1>7 DEF Alike
<1> QED BY <1>1, <1>2, <1>5, <1>6, <1>8, <1>9 DEF WorkerEnded, t, u, v

LEMMA AfterRestartGood ==
  ASSUME NEW s, Good(s)
  PROVE  /\ Good(AfterRestart(s)) /\ Alike(s, AfterRestart(s))
         /\ NoRequests(AfterRestart(s))
<1>1. CASE Active(s)
  <2> DEFINE u == OnlyNotes(s)
             v == [u EXCEPT !.status = "Starting", !.turn = 0, !.switching = FALSE]
  <2>1. Good(u) /\ Alike(s, u) /\ NoRequests(u)
    BY OnlyNotesGood
  <2> HIDE DEF u
  <2>2. u \in Session /\ 0 \in 0..MaxTurns
    BY <2>1, GoodIsSession, QuestionsAssumption
  <2>3. v \in Session
    BY <2>2, Zenon DEF Session
  <2>4. /\ v.panel = u.panel /\ v.answers = u.answers /\ v.finished = u.finished
        /\ v.queue = u.queue /\ v.notes = u.notes /\ v.unsent = u.unsent
        /\ v.status = "Starting"
    BY <2>2 DEF Session
  <2> HIDE DEF v
  <2>5. Good(v) /\ Alike(u, v) /\ NoRequests(v)
    BY <2>1, <2>3, <2>4, StatusOnly DEF Active, NoRequests
  <2>6. Good(Restore(v)) /\ Alike(v, Restore(v)) /\ SameRequests(v, Restore(v))
    BY <2>5, RestoreGood
  <2>7. AfterRestart(s) = Restore(v)
    BY <1>1 DEF AfterRestart, u, v
  <2> QED BY <2>1, <2>5, <2>6, <2>7 DEF Alike, SameRequests, NoRequests
<1>2. CASE ~Active(s)
  <2> DEFINE v == QueueUnsent(s)
  <2>1. Good(v) /\ Alike(s, v) /\ NoRequests(v)
    BY <1>2, QueueUnsentGood DEF Good, NoRequests
  <2> HIDE DEF v
  <2>2. Good(Restore(v)) /\ Alike(v, Restore(v)) /\ SameRequests(v, Restore(v))
    BY <2>1, RestoreGood
  <2>3. AfterRestart(s) = Restore(v)
    BY <1>2 DEF AfterRestart, v
  <2> QED BY <2>1, <2>2, <2>3 DEF Alike, SameRequests, NoRequests
<1> QED BY <1>1, <1>2

\* Before a message is sent, and when it was accepted.
LEMMA IntendGood ==
  ASSUME NEW s, Good(s), NEW p \in Prompts, NEW steer \in BOOLEAN
  PROVE  LET t == Intend(s, p, steer)
         IN  /\ Good(t) /\ Settled(t) = Settled(s) /\ SameRequests(s, t)
             /\ t.queue = s.queue /\ t.unsent = s.unsent \cup {p}
             /\ t.notes = s.notes
<1> DEFINE t == Intend(s, p, steer)
<1>1. s \in Session /\ s.unsent \cup {p} \in SUBSET Prompts
  BY GoodIsSession DEF Session
<1>2. (IF steer THEN s.status ELSE "Starting")
        \in {"Starting", "Running", "Waiting", "Idle", "Failed"}
  BY <1>1 DEF Session
<1>3. t \in Session
  BY <1>1, <1>2, Zenon DEF Session, Intend
<1>4. /\ t.panel = s.panel /\ t.answers = s.answers /\ t.finished = s.finished
      /\ t.queue = s.queue /\ t.notes = s.notes /\ t.unsent = s.unsent \cup {p}
      /\ t.responded = s.responded /\ t.turn = s.turn
      /\ t.status = IF steer THEN s.status ELSE "Starting"
  BY <1>1 DEF Session, Intend
<1> HIDE DEF t
<1>5. Good(t) /\ Alike(s, t)
  BY <1>3, <1>4, StatusOnly DEF Active
<1> QED BY <1>4, <1>5 DEF t, Alike, SameRequests

LEMMA AcknowledgedGood ==
  ASSUME NEW s, Good(s), NEW p \in Prompts, NEW n \in 0..MaxTurns
  PROVE  LET t == Acknowledged(s, p, n)
         IN  /\ Good(t) /\ Settled(t) = Settled(s)
             /\ t.panel = s.panel /\ t.responded = s.responded
             /\ t.turn = IF n # s.done THEN n ELSE s.turn
             /\ t.queue = s.queue /\ t.unsent = s.unsent \ {p}
             /\ t.notes = s.notes
<1> DEFINE now == IF n # s.done THEN n ELSE s.turn
           u == [s EXCEPT !.unsent = @ \ {p}, !.turn = now]
           t == Acknowledged(s, p, n)
<1>1. s \in Session /\ s.unsent \ {p} \in SUBSET Prompts /\ now \in 0..MaxTurns
  BY GoodIsSession DEF Session
<1>2. u \in Session
  BY <1>1, Zenon DEF Session
<1>3. /\ u.panel = s.panel /\ u.answers = s.answers /\ u.finished = s.finished
      /\ u.queue = s.queue /\ u.notes = s.notes /\ u.unsent = s.unsent \ {p}
      /\ u.responded = s.responded /\ u.turn = now /\ u.status = s.status
  BY <1>1 DEF Session
<1>4. t = u \/ t = [u EXCEPT !.status = "Running"]
  BY DEF Acknowledged
<1> HIDE DEF u, now
<1>5. t \in Session
  BY <1>2, <1>4, SetStatus
<1>6. /\ t.panel = s.panel /\ t.answers = s.answers /\ t.finished = s.finished
      /\ t.queue = s.queue /\ t.notes = s.notes /\ t.unsent = s.unsent \ {p}
      /\ t.responded = s.responded /\ t.turn = now
      /\ t.status = s.status \/ t.status = "Running"
  BY <1>2, <1>3, <1>4 DEF Session
<1> HIDE DEF t
<1>7. Settled(t) = Settled(s)
  BY <1>6, SettledOf
<1>8. Good(t)
  BY <1>5, <1>6, <1>7 DEF Good, Active
<1> QED BY <1>6, <1>7, <1>8 DEF t, now

-----------------------------------------------------------------------------
(* Events, and the removal of questions *)

\* What event e makes of the requests and of the turn of s.
Applied(s, e, t) ==
  /\ e.kind = "request" =>
       t.panel = s.panel \cup {e.item} /\ t.responded = s.responded
  /\ e.kind = "resolved" =>
       t.panel = s.panel \ {e.item} /\ t.responded = s.responded \ {e.item}
  /\ e.kind = "completed" => NoRequests(t)
  /\ e.kind \notin {"request", "resolved", "completed"} =>
       /\ t.panel \cap Requests = s.panel \cap Requests
       /\ t.responded = s.responded
  /\ e.kind = "started" => t.turn = e.turn
  /\ e.kind \notin {"started", "completed"} => t.turn = s.turn

LEMMA TurnCompletedGood ==
  ASSUME NEW s, Good(s), NEW outcome \in {"Idle", "Failed"}
  PROVE  LET t == TurnCompleted(s, outcome)
         IN  /\ Good(t) /\ Alike(s, t) /\ NoRequests(t) /\ t.notes = s.notes
<1> DEFINE u == OnlyNotes(s)
           v == [u EXCEPT !.turn = 0, !.moving = FALSE, !.status = outcome]
<1>1. Good(u) /\ Alike(s, u) /\ NoRequests(u) /\ u.notes = s.notes
  BY OnlyNotesGood
<1> HIDE DEF u
<1>2. u \in Session /\ 0 \in 0..MaxTurns
      /\ outcome \in {"Starting", "Running", "Waiting", "Idle", "Failed"}
  BY <1>1, GoodIsSession, QuestionsAssumption
<1>3. v \in Session
  BY <1>2, Zenon DEF Session
<1>4. /\ v.panel = u.panel /\ v.answers = u.answers /\ v.finished = u.finished
      /\ v.queue = u.queue /\ v.notes = u.notes /\ v.unsent = u.unsent
  BY <1>2 DEF Session
<1> HIDE DEF v
<1>5. NoRequests(v) /\ Settled(v) = Settled(u)
  BY <1>1, <1>4, SettledOf DEF NoRequests
<1>6. Good(v) /\ Alike(u, v)
  BY <1>1, <1>3, <1>4, <1>5 DEF Good, Alike, NoRequests
<1>7. /\ Good(QueueUnsent(v)) /\ Alike(v, QueueUnsent(v))
      /\ QueueUnsent(v).panel = v.panel /\ QueueUnsent(v).notes = v.notes
  BY <1>6, QueueUnsentGood
<1>8. TurnCompleted(s, outcome) = v \/ TurnCompleted(s, outcome) = QueueUnsent(v)
  BY DEF TurnCompleted, u, v
<1> QED BY <1>1, <1>4, <1>5, <1>6, <1>7, <1>8 DEF Alike, NoRequests

LEMMA SetDone ==
  ASSUME NEW s, Good(s), NEW n \in 0..MaxTurns
  PROVE  LET t == [s EXCEPT !.done = n]
         IN  /\ Good(t) /\ Alike(s, t) /\ t.panel = s.panel /\ t.notes = s.notes
<1> DEFINE t == [s EXCEPT !.done = n]
<1>1. s \in Session
  BY GoodIsSession
<1>2. t \in Session
  BY <1>1, Zenon DEF Session
<1>3. /\ t.panel = s.panel /\ t.answers = s.answers /\ t.finished = s.finished
      /\ t.queue = s.queue /\ t.notes = s.notes /\ t.unsent = s.unsent
      /\ t.status = s.status
  BY <1>1 DEF Session
<1> HIDE DEF t
<1>4. Good(t) /\ Alike(s, t)
  BY <1>2, <1>3, StatusOnly DEF Active
<1> QED BY <1>3, <1>4 DEF t

LEMMA RequestEvent ==
  ASSUME NEW s, Good(s), NEW e, GoodEvent(e), e.kind = "request"
  PROVE  LET t == ApplyEvent(s, e)
         IN  Good(t) /\ Alike(s, t) /\ Applied(s, e, t) /\ t.notes = s.notes
<1> DEFINE t == [s EXCEPT !.panel = @ \cup {e.item}, !.status = "Waiting"]
<1>1. ApplyEvent(s, e) = t
  BY Zenon DEF ApplyEvent
<1>2. s \in Session /\ e.item \in Requests /\ Notes \cap Requests = {}
  BY GoodIsSession, QuestionsAssumption DEF GoodEvent
<1>3. s.panel \cup {e.item} \in SUBSET Items /\ s.finished \in SUBSET Notes
  BY <1>2 DEF Session, Items
<1>4. t \in Session
  BY <1>2, <1>3, Zenon DEF Session
<1>5. /\ t.panel = s.panel \cup {e.item} /\ t.answers = s.answers
      /\ t.finished = s.finished /\ t.queue = s.queue /\ t.notes = s.notes
      /\ t.unsent = s.unsent /\ t.status = "Waiting"
      /\ t.responded = s.responded /\ t.turn = s.turn
  BY <1>2 DEF Session
<1> HIDE DEF t
<1>6. Settled(t) = Settled(s)
  BY <1>5, SettledOf
<1>7. t.notes = (t.panel \cap Notes) \cup t.finished /\ t.panel \cap t.finished = {}
  BY <1>2, <1>3, <1>5 DEF Good
<1>8. Good(t)
  BY <1>4, <1>5, <1>6, <1>7 DEF Good, Active
<1>9. Alike(s, t) /\ Applied(s, e, t)
  BY <1>5, <1>6 DEF Alike, Applied
<1> QED BY <1>1, <1>5, <1>8, <1>9

LEMMA ResolvedEvent ==
  ASSUME NEW s, Good(s), NEW e, GoodEvent(e), e.kind = "resolved"
  PROVE  LET t == ApplyEvent(s, e)
         IN  Good(t) /\ Alike(s, t) /\ Applied(s, e, t) /\ t.notes = s.notes
<1> DEFINE u == Without(s, {e.item})
           t == [u EXCEPT !.status = "Running"]
<1>1. ApplyEvent(s, e) = Resolved(s, e.item)
  BY Zenon DEF ApplyEvent
<1>2. ApplyEvent(s, e) = u \/ ApplyEvent(s, e) = t
  BY <1>1 DEF Resolved
<1>3. {e.item} \in SUBSET Requests
  BY DEF GoodEvent
<1>4. /\ Good(u) /\ Settled(u) = Settled(s) /\ SameQueue(s, u)
      /\ u.panel = s.panel \ {e.item} /\ u.responded = s.responded \ {e.item}
      /\ u.notes = s.notes
  BY <1>3, WithoutRequests
<1> HIDE DEF u
<1>5. Alike(s, u) /\ Applied(s, e, u)
  BY <1>4 DEF Alike, Applied, SameQueue
<1>6. u \in Session
  BY <1>4, GoodIsSession
<1>7. t \in Session
  BY <1>6, SetStatus
<1>8. /\ t.panel = u.panel /\ t.answers = u.answers
      /\ t.finished = u.finished /\ t.queue = u.queue /\ t.notes = u.notes
      /\ t.unsent = u.unsent /\ t.status = "Running"
      /\ t.responded = u.responded /\ t.turn = u.turn
  BY <1>6 DEF Session
<1> HIDE DEF t
<1>9. Good(t) /\ Alike(u, t)
  BY <1>4, <1>7, <1>8, StatusOnly DEF Active
<1>10. Alike(s, t) /\ Applied(s, e, t) /\ t.notes = s.notes
  BY <1>4, <1>5, <1>8, <1>9 DEF Alike, Applied
<1> QED BY <1>2, <1>4, <1>5, <1>9, <1>10

LEMMA NoteEvent ==
  ASSUME NEW s, Good(s), NEW e, GoodEvent(e), e.kind = "note"
  PROVE  LET t == ApplyEvent(s, e)
         IN  /\ Good(t) /\ Alike(s, t) /\ Applied(s, e, t)
             /\ s.notes \subseteq t.notes
<1> DEFINE u == [s EXCEPT !.notes = @ \cup {e.item}]
           t == Restore(u)
<1>1. ApplyEvent(s, e) = t
  BY Zenon DEF ApplyEvent
<1>2. s \in Session
  BY GoodIsSession
<1>3. s.notes \cup {e.item} \in SUBSET Notes
  BY <1>2 DEF Session, GoodEvent
<1>4. u \in Session
  BY <1>2, <1>3, Zenon DEF Session
<1>5. /\ u.panel = s.panel /\ u.answers = s.answers /\ u.finished = s.finished
      /\ u.notes = s.notes \cup {e.item} /\ u.responded = s.responded
      /\ SameQueue(s, u)
  BY <1>2 DEF Session, SameQueue
<1> HIDE DEF u
<1>6. /\ t \in Session /\ t.panel = u.panel \cup (u.notes \ u.finished)
      /\ t.answers = u.answers /\ t.finished = u.finished
      /\ t.notes = u.notes /\ t.responded = u.responded /\ SameQueue(u, t)
  BY <1>4, RestoreFields
<1> HIDE DEF t
<1>7. /\ t.notes \in SUBSET Notes /\ s.notes \subseteq t.notes
      /\ t.panel = s.panel \cup (t.notes \ s.finished)
      /\ t.answers = s.answers /\ t.finished = s.finished
      /\ t.responded = s.responded /\ SameQueue(s, t)
  BY <1>3, <1>5, <1>6 DEF SameQueue
<1>8. Good(t) /\ Alike(s, t) /\ SameRequests(s, t)
  BY <1>6, <1>7, NotesGood
<1> QED BY <1>1, <1>7, <1>8 DEF Applied, SameRequests

LEMMA OtherEvent ==
  ASSUME NEW s, Good(s), NEW e, GoodEvent(e),
         e.kind \in {"started", "remove", "move"}
  PROVE  LET t == ApplyEvent(s, e)
         IN  Good(t) /\ Alike(s, t) /\ Applied(s, e, t) /\ t.notes = s.notes
<1> DEFINE t == ApplyEvent(s, e)
<1>1. s \in Session /\ e \in Events
  BY GoodIsSession DEF GoodEvent
<1>2. CASE e.kind = "started"
  <2>1. t = [s EXCEPT !.turn = e.turn, !.status = "Running"]
    BY <1>2, Zenon DEF ApplyEvent
  <2>2. e.turn \in 0..MaxTurns
    BY <1>1 DEF Events
  <2>3. t \in Session
    BY <1>1, <2>1, <2>2, Zenon DEF Session
  <2>4. /\ t.panel = s.panel /\ t.answers = s.answers
        /\ t.finished = s.finished /\ t.queue = s.queue /\ t.notes = s.notes
        /\ t.unsent = s.unsent /\ t.status = "Running"
        /\ t.responded = s.responded /\ t.turn = e.turn
    BY <1>1, <2>1 DEF Session
  <2> HIDE DEF t
  <2>5. Good(t) /\ Alike(s, t)
    BY <2>3, <2>4, StatusOnly DEF Active
  <2> QED BY <1>2, <2>4, <2>5 DEF Applied, t
<1>3. CASE e.kind = "remove"
  <2> DEFINE removal == [turn |-> e.turn, parts |-> e.parts]
  <2>1. t = [s EXCEPT !.removal = removal]
    BY <1>3, Zenon DEF ApplyEvent
  <2>2. removal \in [turn : 0..MaxTurns, parts : SUBSET Asked]
    BY <1>1 DEF Events
  <2> HIDE DEF removal
  <2>3. t \in Session
    BY <1>1, <2>1, <2>2, Zenon DEF Session
  <2>4. /\ t.panel = s.panel /\ t.answers = s.answers
        /\ t.finished = s.finished /\ t.queue = s.queue /\ t.notes = s.notes
        /\ t.unsent = s.unsent /\ t.status = s.status
        /\ t.responded = s.responded /\ t.turn = s.turn
    BY <1>1, <2>1 DEF Session
  <2> HIDE DEF t
  <2>5. Good(t) /\ Alike(s, t)
    BY <2>3, <2>4, StatusOnly DEF Active
  <2> QED BY <1>3, <2>4, <2>5 DEF Applied, t
<1>4. CASE e.kind = "move"
  <2>1. t = [s EXCEPT !.moving = TRUE]
    BY <1>4, Zenon DEF ApplyEvent
  <2>3. t \in Session
    BY <1>1, <2>1, SetFlags
  <2>4. /\ t.panel = s.panel /\ t.answers = s.answers
        /\ t.finished = s.finished /\ t.queue = s.queue /\ t.notes = s.notes
        /\ t.unsent = s.unsent /\ t.status = s.status
        /\ t.responded = s.responded /\ t.turn = s.turn
    BY <1>1, <2>1 DEF Session
  <2> HIDE DEF t
  <2>5. Good(t) /\ Alike(s, t)
    BY <2>3, <2>4, StatusOnly DEF Active
  <2> QED BY <1>4, <2>4, <2>5 DEF Applied, t
<1> QED BY <1>2, <1>3, <1>4

\* Any event but a reply.
LEMMA EventGood ==
  ASSUME NEW s, Good(s), NEW e, GoodEvent(e), e.kind # "reply"
  PROVE  LET t == ApplyEvent(s, e)
         IN  /\ Good(t) /\ Alike(s, t) /\ Applied(s, e, t)
             /\ s.notes \subseteq t.notes
<1> DEFINE t == ApplyEvent(s, e)
<1>1. e.kind \in {"started", "request", "resolved", "note", "remove", "move",
                  "completed"}
      /\ e.turn \in 0..MaxTurns
  BY DEF GoodEvent, Events
<1>2. CASE e.kind = "completed"
  <2> DEFINE u == TurnCompleted(s, e.outcome)
  <2>1. t = [u EXCEPT !.done = e.turn]
    BY <1>2, Zenon DEF ApplyEvent
  <2>2. Good(u) /\ Alike(s, u) /\ NoRequests(u) /\ u.notes = s.notes
    BY <1>2, TurnCompletedGood DEF GoodEvent
  <2> HIDE DEF u
  <2>3. Good(t) /\ Alike(u, t) /\ t.panel = u.panel /\ t.notes = u.notes
    BY <1>1, <2>1, <2>2, SetDone
  <2> HIDE DEF t
  <2>4. Alike(s, t) /\ NoRequests(t)
    BY <2>2, <2>3 DEF Alike, NoRequests
  <2> QED BY <1>2, <2>2, <2>3, <2>4 DEF Applied, t
<1>3. CASE e.kind = "request"
  BY <1>3, RequestEvent
<1>4. CASE e.kind = "resolved"
  BY <1>4, ResolvedEvent
<1>5. CASE e.kind = "note"
  BY <1>5, NoteEvent
<1>6. CASE e.kind \in {"started", "remove", "move"}
  BY <1>6, OtherEvent
<1> QED BY <1>1, <1>2, <1>3, <1>4, <1>5, <1>6

\* The agent removes questions that can be answered: just these are settled.
LEMMA RemovesGood ==
  ASSUME NEW s, Good(s), NEW parts \in SUBSET Asked,
         \A a \in parts : a[1] \in s.panel
  PROVE  LET t == Removes(s, parts)
         IN  /\ Good(t) /\ Settled(t) = Settled(s) \cup parts
             /\ SameRequests(s, t) /\ t.notes = s.notes
             /\ t.queue = s.queue /\ t.unsent = s.unsent
<1> DEFINE now  == [i \in Items |->
                     s.answers[i] \cup {q \in Parts[i] : <<i, q>> \in parts}]
           full == {n \in {a[1] : a \in parts} : now[n] = Parts[n]}
           u == [s EXCEPT !.answers = now]
           v == Without(u, full)
           t == [v EXCEPT !.finished = @ \cup full]
<1>1. s \in Session /\ Notes \subseteq Items /\ Notes \cap Requests = {}
      /\ s.responded \subseteq Requests /\ s.finished \subseteq Notes
  BY GoodIsSession, QuestionsAssumption DEF Items, Session
<1>2. \A i \in Items : s.answers[i] \subseteq Parts[i] /\ Parts[i] \subseteq Nat
  BY PartsAreNumbers DEF Good
<1>3. \A i \in Items : now[i] = s.answers[i] \cup {q \in Parts[i] : <<i, q>> \in parts}
  OBVIOUS
<1>4. now \in [Items -> SUBSET Nat] /\ \A i \in Items : now[i] \subseteq Parts[i]
  BY <1>2
<1> HIDE DEF now
<1>5. \A a \in parts : a[1] \in Notes /\ a[2] \in Parts[a[1]] /\ a = <<a[1], a[2]>>
  BY AskedIs
<1>6. /\ full \subseteq Notes /\ full \subseteq s.panel
      /\ \A n \in full : now[n] = Parts[n]
  BY <1>5
<1> HIDE DEF full
<1>7. u \in Session
  BY <1>1, <1>4, Zenon DEF Session
<1>8. /\ u.answers = now /\ u.panel = s.panel /\ u.responded = s.responded
      /\ u.finished = s.finished /\ u.notes = s.notes /\ SameQueue(s, u)
  BY <1>1 DEF Session, SameQueue
<1> HIDE DEF u
<1>9. v \in Session
  <2>1. /\ u.panel \ full \in SUBSET Items /\ u.responded \ full \in SUBSET Requests
        /\ [i \in Items |-> IF i \in full THEN {} ELSE u.answers[i]]
             \in [Items -> SUBSET Nat]
    BY <1>7 DEF Session
  <2> QED BY <1>7, <2>1, Zenon DEF Session, Without
<1>10. /\ v.panel = s.panel \ full /\ v.responded = s.responded
       /\ v.finished = s.finished /\ v.notes = s.notes /\ SameQueue(s, v)
       /\ v.answers = [i \in Items |-> IF i \in full THEN {} ELSE now[i]]
  <2>1. s.responded \ full = s.responded
    BY <1>1, <1>6
  <2>2. /\ v.panel = u.panel \ full /\ v.responded = u.responded \ full
        /\ v.finished = u.finished /\ v.notes = u.notes /\ SameQueue(u, v)
        /\ v.answers = [i \in Items |-> IF i \in full THEN {} ELSE u.answers[i]]
    BY <1>7 DEF Session, Without, SameQueue
  <2> QED BY <1>8, <2>1, <2>2 DEF SameQueue
<1> HIDE DEF v
<1>11. v.finished \cup full \in SUBSET Notes
  BY <1>1, <1>6, <1>10
<1>12. t \in Session
  BY <1>9, <1>11, Zenon DEF Session
<1>13. /\ t.panel = s.panel \ full /\ t.responded = s.responded
       /\ t.finished = s.finished \cup full /\ t.notes = s.notes /\ SameQueue(s, t)
       /\ \A i \in Items : t.answers[i] = IF i \in full THEN {} ELSE now[i]
  BY <1>9, <1>10 DEF Session, SameQueue
<1> HIDE DEF t
<1>14. Settled(t) = Settled(s) \cup parts
  <2>1. ASSUME NEW m \in Notes, NEW q \in Parts[m]
        PROVE  <<m, q>> \in Settled(t) <=> <<m, q>> \in Settled(s) \cup parts
    <3>1. /\ <<m, q>> \in Settled(s) <=> m \in s.finished \/ q \in s.answers[m]
          /\ <<m, q>> \in Settled(t) <=> m \in t.finished \/ q \in t.answers[m]
      BY SettledIs
    <3>2. m \in Items
      BY <1>1
    <3>3. q \in now[m] <=> q \in s.answers[m] \/ <<m, q>> \in parts
      BY <1>3, <3>2
    <3>4. CASE m \in full
      BY <1>6, <1>13, <3>1, <3>3, <3>4
    <3>5. CASE m \notin full
      BY <1>13, <3>1, <3>2, <3>3, <3>5, <1>5
    <3> QED BY <3>4, <3>5
  <2>2. \A a \in Asked : a \in Settled(t) <=> a \in Settled(s) \cup parts
    BY <2>1, AskedIs
  <2> QED BY <2>2 DEF Settled
<1>15. Good(t)
  <2>1. \A j \in Items : t.answers[j] \subseteq Parts[j]
    BY <1>4, <1>13
  <2>2. t.notes = (t.panel \cap Notes) \cup t.finished /\ t.panel \cap t.finished = {}
    BY <1>6, <1>13 DEF Good
  <2>3. /\ \A j \in DOMAIN t.queue : t.queue[j] \in Asked => t.queue[j] \in Settled(t)
        /\ \A j, k \in DOMAIN t.queue :
             t.queue[j] \in Asked /\ t.queue[j] = t.queue[k] => j = k
    BY <1>13, <1>14 DEF Good, SameQueue
  <2>4. ~Active(t) => t.panel \cap Requests = {}
    BY <1>13 DEF Good, Active, SameQueue
  <2> QED BY <1>12, <2>1, <2>2, <2>3, <2>4 DEF Good
<1>16. SameRequests(s, t)
  BY <1>1, <1>6, <1>13 DEF SameRequests, SameQueue
<1>17. Removes(s, parts) = t
  BY DEF Removes, t, v, u, full, now
<1> QED BY <1>13, <1>14, <1>15, <1>16, <1>17 DEF SameQueue

-----------------------------------------------------------------------------
(* What the parties hold *)

LEMMA NothingIsCommand ==
  /\ GoodCommand(Nothing) /\ WorkerCommand(Nothing) /\ Nothing.kind = "none"
  /\ Nothing \in Cmds
BY DEF Nothing, GoodCommand, WorkerCommand, Cmds

LEMMA NewSessionGood ==
  Good(NewSession) /\ Settled(NewSession) = {} /\ NewSession.notes = {}
<1> DEFINE none == [i \in Items |-> {}]
<1>1. /\ {} \in SUBSET Items /\ none \in [Items -> SUBSET Nat]
      /\ {} \in SUBSET Requests /\ {} \in SUBSET Notes /\ 0 \in 0..MaxTurns
      /\ "Idle" \in {"Starting", "Running", "Waiting", "Idle", "Failed"}
      /\ <<>> \in Seq(Prompts) /\ {} \in SUBSET Prompts /\ FALSE \in BOOLEAN
      /\ NoRemoval \in [turn : 0..MaxTurns, parts : SUBSET Asked]
  BY QuestionsAssumption DEF NoRemoval
<1>2. NewSession \in Session
  BY <1>1, Zenon DEF NewSession, Session
<1>3. /\ NewSession.panel = {} /\ NewSession.finished = {} /\ NewSession.notes = {}
      /\ NewSession.queue = <<>> /\ NewSession.answers = none
  BY DEF NewSession
<1>4. Settled(NewSession) = {}
  BY <1>3, AskedIs DEF Settled, Items
<1>5. Good(NewSession)
  BY <1>2, <1>3 DEF Good
<1> QED BY <1>3, <1>4, <1>5

LEMMA HandlerIsDone == Done => HandlerOK'
<1> SUFFICES ASSUME Done PROVE HandlerOK'
  OBVIOUS
<1>1. /\ handler'.step = "idle" /\ handler'.cmd = Nothing
      /\ handler'.read = NewSession
      /\ handler' = [step |-> "idle", cmd |-> Nothing, read |-> NewSession]
  BY DEF Done
<1>2. handler' \in Handlers
  BY <1>1, NothingIsCommand, NewSessionGood DEF Handlers, Good
<1> QED BY <1>1, <1>2, NothingIsCommand, NewSessionGood DEF HandlerOK

\* The handler's read stays, whether it is answered or not.
Heard ==
  \/ UNCHANGED handler
  \/ handler' = [handler EXCEPT !.step = "idle", !.cmd = Nothing]

LEMMA HandlerHears == HandlerOK /\ Heard => HandlerOK' /\ handler'.read = handler.read
<1> SUFFICES ASSUME HandlerOK,
                    handler' = [handler EXCEPT !.step = "idle", !.cmd = Nothing]
             PROVE  HandlerOK' /\ handler'.read = handler.read
  BY DEF Heard, HandlerOK
<1>1. handler' \in Handlers
  BY NothingIsCommand DEF HandlerOK, Handlers
<1>2. /\ handler'.step = "idle" /\ handler'.cmd = Nothing
      /\ handler'.read = handler.read
  BY DEF HandlerOK, Handlers
<1> QED BY <1>1, <1>2, NothingIsCommand DEF HandlerOK

LEMMA AnsweredIsHeard == \A c : Answered(c) => Heard
BY DEF Answered, Heard

LEMMA IdleWorker ==
  Idle \in Workers /\ Idle.cmd = Nothing /\ Idle.step = "off" /\ Idle.after = "none"
<1>1. /\ "off" \in WorkerSteps /\ {} \in SUBSET Nat /\ FALSE \in BOOLEAN
      /\ Chat \in Prompts /\ Nothing \in Cmds
      /\ "none" \in {"none", "command", "initial", "switched", "queued"}
  BY PromptKinds, NothingIsCommand DEF WorkerSteps
<1>2. Idle \in Workers
  BY <1>1, Zenon DEF Idle, Workers
<1> QED BY <1>2 DEF Idle

LEMMA WorkerStep ==
  ASSUME NEW w \in Workers, NEW v \in WorkerSteps
  PROVE  LET u == [w EXCEPT !.step = v]
         IN  /\ u \in Workers /\ u.step = v /\ u.cmd = w.cmd
             /\ u.after = w.after /\ u.answers = w.answers
             /\ u.prompt = w.prompt
<1>1. [w EXCEPT !.step = v] \in Workers
  BY Zenon DEF Workers
<1> QED BY <1>1 DEF Workers

Goes(w, v, c) == [w EXCEPT !.step = v, !.cmd = c]

LEMMA WorkerStepCmd ==
  ASSUME NEW w \in Workers, NEW v \in WorkerSteps, NEW c \in Cmds
  PROVE  LET u == Goes(w, v, c)
         IN  u \in Workers /\ u.step = v /\ u.cmd = c /\ u.after = w.after
<1>1. Goes(w, v, c) \in Workers
  BY Zenon DEF Workers, Goes
<1> QED BY <1>1 DEF Workers, Goes

LEMMA WorkerStays == WorkerOK /\ UNCHANGED worker => WorkerOK'
BY DEF WorkerOK, Flying

\* The worker goes on, with its command or with none.
LEMMA WorkerGoes ==
  ASSUME worker' \in Workers, ~Flying', WorkerCommand(worker'.cmd),
         worker'.step \in {"off", "loop", "tidy", "queue", "stopping"}
           => worker'.cmd.kind = "none",
         worker'.step \in {"guide", "asking", "connect"}
             /\ worker'.after = "switched" => worker'.cmd.kind = "none"
  PROVE  WorkerOK'
BY DEF WorkerOK, Flying

LEMMA WorkerIsOff == worker' = Idle => WorkerOK' /\ ~Flying'
<1> SUFFICES ASSUME worker' = Idle PROVE WorkerOK' /\ ~Flying'
  OBVIOUS
<1>1. ~Flying'
  BY IdleWorker DEF Flying
<1> QED BY <1>1, IdleWorker, NothingIsCommand, WorkerGoes

LEMMA ProviderIsOff ==
  Disconnected /\ provider \in Providers =>
    /\ provider' \in Providers /\ InboxOK' /\ WireOK'
    /\ inbox' = <<>> /\ wire' = <<>>
    /\ provider'.turn = 0 /\ provider'.open = {} /\ provider'.call = "none"
    /\ provider'.asked = provider.asked
<1> SUFFICES ASSUME Disconnected, provider \in Providers
             PROVE  /\ provider' \in Providers /\ InboxOK' /\ WireOK'
                    /\ inbox' = <<>> /\ wire' = <<>>
                    /\ provider'.turn = 0 /\ provider'.open = {}
                    /\ provider'.call = "none" /\ provider'.asked = provider.asked
  OBVIOUS
<1>1. provider' = [provider EXCEPT !.turn = 0, !.open = {}, !.call = "none"]
      /\ inbox' = <<>> /\ wire' = <<>> /\ 0 \in 0..MaxTurns
  BY QuestionsAssumption DEF Disconnected
<1>2. provider' \in Providers
  BY <1>1 DEF Providers
<1> QED BY <1>1, <1>2 DEF Providers, InboxOK, WireOK

\* What a step that writes the record leaves in the file.
LEMMA SavedFollows ==
  ASSUME NEW s, Good(s), UpdateAndSave(s)
  PROVE  mem' = s /\ disk' = Saved(mem') /\ Good(mem') /\ Good(disk')
BY SavedGood DEF UpdateAndSave

LEMMA FaultIsLeft ==
  ASSUME left \in [asks : Nat, says : Nat, faults : Nat], Fault
  PROVE  left' \in [asks : Nat, says : Nat, faults : Nat]
BY DEF Fault

LEMMA HeadEvent ==
  ASSUME WireOK, wire # <<>>
  PROVE  /\ GoodEvent(Head(wire)) /\ Head(wire) \in Events /\ Head(wire) = wire[1]
         /\ 1 \in DOMAIN wire /\ Tail(wire) \in Seq(Events)
         /\ DOMAIN Tail(wire) = 1..(Len(wire) - 1) /\ DOMAIN wire = 1..Len(wire)
         /\ Len(wire) \in Nat \ {0}
         /\ \A k \in DOMAIN Tail(wire) : /\ k + 1 \in DOMAIN wire
                                         /\ Tail(wire)[k] = wire[k + 1]
         /\ wire' = Tail(wire) => WireOK'
<1>1. /\ Head(wire) = wire[1] /\ 1 \in DOMAIN wire /\ Tail(wire) \in Seq(Events)
      /\ DOMAIN Tail(wire) = 1..(Len(wire) - 1) /\ DOMAIN wire = 1..Len(wire)
      /\ Len(wire) \in Nat \ {0}
      /\ \A k \in DOMAIN Tail(wire) : /\ k + 1 \in DOMAIN wire
                                      /\ Tail(wire)[k] = wire[k + 1]
  BY DEF WireOK
<1>2. GoodEvent(Head(wire)) /\ Head(wire) \in Events
  BY <1>1 DEF WireOK, GoodEvent
<1>3. wire' = Tail(wire) => WireOK'
  BY <1>1 DEF WireOK
<1> QED BY <1>1, <1>2, <1>3

LEMMA HeadCommand ==
  ASSUME InboxOK, inbox # <<>>
  PROVE  /\ WorkerCommand(Head(inbox)) /\ Head(inbox).kind # "none"
         /\ inbox' = Tail(inbox) => InboxOK'
<1>1. /\ Head(inbox) = inbox[1] /\ 1 \in DOMAIN inbox /\ Tail(inbox) \in Seq(Cmds)
      /\ \A k \in DOMAIN Tail(inbox) : /\ k + 1 \in DOMAIN inbox
                                       /\ Tail(inbox)[k] = inbox[k + 1]
  BY DEF InboxOK
<1> QED BY <1>1 DEF InboxOK

-----------------------------------------------------------------------------
(* Steps that settle no answer, write nothing and read nothing of what the  *)
(* provider writes                                                          *)

DiskFollows == disk' = disk \/ disk' = Saved(mem')

Calm ==
  /\ Alike(mem, mem') /\ SameRequests(mem, mem') /\ mem.notes \subseteq mem'.notes
  /\ DiskFollows
  /\ handler'.read \in {handler.read, NewSession, mem}
  /\ UNCHANGED worker \/ (~Flying /\ ~Flying')
  /\ UNCHANGED <<wire, provider, history>>

LEMMA CalmIsSound ==
  ASSUME Sound, Calm, Good(mem'), Good(disk'), HandlerOK', InboxOK', WorkerOK',
         left' \in [asks : Nat, says : Nat, faults : Nat]
  PROVE  Sound'
<1>1. Known'
  BY NewSessionGood DEF Sound, Known, Calm, Flying
<1> QED BY <1>1 DEF Sound, Calm, WireOK

LEMMA SameRecord ==
  ASSUME Sound, UNCHANGED <<mem, disk>>
  PROVE  /\ Alike(mem, mem') /\ SameRequests(mem, mem')
         /\ mem.notes \subseteq mem'.notes /\ DiskFollows /\ Good(mem') /\ Good(disk')
BY DEF Sound, Alike, SameRequests, DiskFollows

\* The record with another status, or another flag.
Restated(t) ==
  /\ t \in Session
  /\ t.panel = mem.panel /\ t.answers = mem.answers
  /\ t.finished = mem.finished /\ t.queue = mem.queue /\ t.notes = mem.notes
  /\ t.unsent = mem.unsent /\ t.responded = mem.responded /\ t.turn = mem.turn
  /\ t.status = mem.status \/ t.status \in {"Starting", "Running", "Waiting"}

LEMMA StatusWritten ==
  ASSUME Sound, NEW t, Restated(t), UpdateAndSave(t) \/ Update(t)
  PROVE  /\ Alike(mem, mem') /\ SameRequests(mem, mem')
         /\ mem.notes \subseteq mem'.notes /\ DiskFollows /\ Good(mem') /\ Good(disk')
<1>1. Good(t) /\ Alike(mem, t)
  BY StatusOnly DEF Sound, Restated, Active
<1>2. mem' = t /\ DiskFollows /\ Good(disk')
  BY <1>1, SavedFollows DEF UpdateAndSave, Update, DiskFollows, Sound
<1> QED BY <1>1, <1>2 DEF SameRequests, Restated

LEMMA StatusRestated ==
  ASSUME mem \in Session
  PROVE  /\ Restated(mem)
         /\ Restated([mem EXCEPT !.status = "Starting"])
         /\ Restated([mem EXCEPT !.status = "Waiting"])
         /\ Restated([mem EXCEPT !.moving = FALSE])
<1>1. /\ [mem EXCEPT !.status = "Starting"] \in Session
      /\ [mem EXCEPT !.status = "Waiting"] \in Session
      /\ [mem EXCEPT !.moving = FALSE] \in Session
  BY SetStatus, SetFlags
<1> QED BY <1>1 DEF Restated, Session

LEMMA FlagsRestated ==
  ASSUME mem \in Session
  PROVE  /\ Restated([mem EXCEPT !.checked = TRUE, !.status = "Starting"])
         /\ Restated([mem EXCEPT !.status = "Starting", !.ready = TRUE])
         /\ Restated([mem EXCEPT !.moving = FALSE, !.switching = TRUE,
                                !.status = "Starting"])
         /\ Restated([mem EXCEPT !.removal = NoRemoval])
<1>1. /\ TRUE \in BOOLEAN /\ FALSE \in BOOLEAN
      /\ "Starting" \in {"Starting", "Running", "Waiting", "Idle", "Failed"}
      /\ NoRemoval \in [turn : 0..MaxTurns, parts : SUBSET Asked]
  BY QuestionsAssumption DEF NoRemoval
<1>2. [mem EXCEPT !.checked = TRUE, !.status = "Starting"] \in Session
  BY <1>1, Zenon DEF Session
<1>3. [mem EXCEPT !.status = "Starting", !.ready = TRUE] \in Session
  BY <1>1, Zenon DEF Session
<1>4. [mem EXCEPT !.moving = FALSE, !.switching = TRUE, !.status = "Starting"]
        \in Session
  BY <1>1, Zenon DEF Session
<1>5. [mem EXCEPT !.removal = NoRemoval] \in Session
  BY <1>1, Zenon DEF Session
<1>6. Restated([mem EXCEPT !.checked = TRUE, !.status = "Starting"])
  BY <1>2 DEF Restated, Session
<1>7. Restated([mem EXCEPT !.status = "Starting", !.ready = TRUE])
  BY <1>3 DEF Restated, Session
<1>8. Restated([mem EXCEPT !.moving = FALSE, !.switching = TRUE,
                         !.status = "Starting"])
  BY <1>4 DEF Restated, Session
<1>9. Restated([mem EXCEPT !.removal = NoRemoval])
  BY <1>5 DEF Restated, Session
<1> QED BY <1>6, <1>7, <1>8, <1>9

LEMMA CommandsAreGood ==
  ASSUME Sound, NEW c \in Commands
  PROVE  /\ GoodCommand(c)
         /\ c.kind = "skip" => c.item \in mem.panel
         /\ c.kind \in {"chat", "answer", "skip", "respond"}
<1>1. left.asks \in Nat /\ mem.panel \subseteq Items
  BY DEF Sound, Good, Session
<1>2. \A i \in mem.panel : Parts[i] \subseteq Nat
  BY <1>1, PartsAreNumbers
<1>3. CASE c = [kind |-> "chat", item |-> NoItem, part |-> 0, id |-> left.asks]
  BY <1>1, <1>3 DEF GoodCommand, Cmds
<1>4. CASE \E i \in mem.panel :
             c = [kind |-> "respond", item |-> i, part |-> 0, id |-> left.asks]
  BY <1>1, <1>4 DEF GoodCommand, Cmds
<1>5. CASE \E i \in mem.panel : \E k \in {"answer", "skip"} : \E q \in Parts[i] :
             c = [kind |-> k, item |-> i, part |-> q, id |-> left.asks]
  BY <1>1, <1>2, <1>5 DEF GoodCommand, Cmds
<1> QED BY <1>3, <1>4, <1>5 DEF Commands

LEMMA UserAsksCalm == ASSUME Sound, UserAsks PROVE Sound' /\ Calm
<1>1. left' \in [asks : Nat, says : Nat, faults : Nat]
  BY DEF Sound, UserAsks
<1>2. UNCHANGED <<inbox, worker, provider, wire, history>>
  BY DEF UserAsks
<1>3. PICK c \in Commands :
        IF c.kind = "chat" /\ Preparing(mem)
        THEN /\ UpdateAndSave([mem EXCEPT !.queue = Append(@, Chat)])
             /\ UNCHANGED handler
        ELSE /\ handler' = [step |-> "read", cmd |-> c, read |-> mem]
             /\ UNCHANGED <<mem, disk>>
  BY DEF UserAsks
<1>4. InboxOK' /\ WorkerOK'
  BY <1>2, WorkerStays DEF Sound, InboxOK
<1>5. CASE c.kind = "chat" /\ Preparing(mem)
  <2> DEFINE t == [mem EXCEPT !.queue = Append(@, Chat)]
  <2>1. UpdateAndSave(t) /\ UNCHANGED handler
    BY <1>3, <1>5
  <2>2. /\ Good(t) /\ Settled(t) = Settled(mem) /\ SameRequests(mem, t)
        /\ Range(t.queue) = Range(mem.queue) \cup {Chat} /\ t.unsent = mem.unsent
        /\ t.notes = mem.notes
    BY AppendGood, PromptKinds DEF Sound
  <2> HIDE DEF t
  <2>3. mem' = t /\ disk' = Saved(mem') /\ Good(mem') /\ Good(disk')
    BY <2>1, <2>2, SavedFollows
  <2>4. Alike(mem, mem')
    BY <2>2, <2>3, PromptKinds DEF Alike
  <2>5. Calm
    BY <1>2, <2>1, <2>2, <2>3, <2>4 DEF Calm, DiskFollows
  <2>6. HandlerOK'
    BY <2>1 DEF Sound, HandlerOK
  <2> QED BY <1>1, <1>4, <2>3, <2>5, <2>6, CalmIsSound
<1>6. CASE ~(c.kind = "chat" /\ Preparing(mem))
  <2>1. handler' = [step |-> "read", cmd |-> c, read |-> mem] /\ UNCHANGED <<mem, disk>>
    BY <1>3, <1>6
  <2>2. HandlerOK'
    <3>1. handler'.step = "read" /\ handler'.cmd = c /\ handler'.read = mem
      BY <2>1
    <3>2. mem \in Session /\ c \in Cmds
      BY CommandsAreGood DEF Sound, Good, GoodCommand
    <3>3. handler' \in Handlers
      BY <2>1, <3>2 DEF Handlers
    <3> QED BY <3>1, <3>3, CommandsAreGood DEF HandlerOK, Sound
  <2>3. Calm
    BY <1>2, <2>1, SameRecord DEF Calm
  <2> QED BY <1>1, <1>4, <2>1, <2>2, <2>3, SameRecord, CalmIsSound
<1> QED BY <1>5, <1>6

\* What the handler sends to the worker is not a skip of a note's question.
LEMMA SentToWorker ==
  ASSUME HandlerOK, handler.step = "read", ~(handler.cmd.kind = "skip" /\ OfNote)
  PROVE  WorkerCommand(handler.cmd) /\ handler.cmd.kind # "none"
<1>1. handler.cmd.kind = "skip" => handler.cmd.item \in Items
  BY DEF HandlerOK, GoodCommand
<1> QED BY <1>1 DEF HandlerOK, WorkerCommand, OfNote, Items

LEMMA HandlerSendsCalm == ASSUME Sound, HandlerSends PROVE Sound' /\ Calm
<1>1. UNCHANGED <<provider, wire, left, history>>
  BY DEF HandlerSends
<1>2. WorkerCommand(handler.cmd) /\ handler.cmd.kind # "none"
  BY SentToWorker DEF Sound, HandlerSends
<1>3. handler.cmd \in Cmds /\ GoodCommand(handler.cmd)
  BY DEF Sound, HandlerOK, GoodCommand
<1>4. CASE Done /\ UNCHANGED <<mem, disk, inbox, worker>>
  <2>1. HandlerOK' /\ handler'.read = NewSession
    BY <1>4, HandlerIsDone DEF Done
  <2>2. InboxOK' /\ WorkerOK'
    BY <1>4, WorkerStays DEF Sound, InboxOK
  <2>3. Calm
    BY <1>1, <1>4, <2>1, SameRecord DEF Calm
  <2> QED BY <1>1, <1>4, <2>1, <2>2, <2>3, SameRecord, CalmIsSound DEF Sound
<1>5. CASE /\ inbox' = Append(inbox, handler.cmd)
           /\ handler' = [step |-> "waiting", cmd |-> handler.cmd,
                          read |-> NewSession]
           /\ UNCHANGED <<mem, disk, worker>>
  <2>1. HandlerOK'
    <3>1. /\ handler'.step = "waiting" /\ handler'.cmd = handler.cmd
          /\ handler'.read = NewSession
      BY <1>5
    <3>2. handler' \in Handlers
      BY <1>3, <1>5, NewSessionGood DEF Handlers, Good
    <3> QED BY <1>3, <3>1, <3>2, NewSessionGood DEF HandlerOK
  <2>2. InboxOK'
    BY <1>2, <1>3, <1>5 DEF Sound, InboxOK
  <2>3. WorkerOK'
    BY <1>5, WorkerStays DEF Sound
  <2>4. Calm
    BY <1>1, <1>5, SameRecord DEF Calm
  <2> QED BY <1>1, <1>5, <2>1, <2>2, <2>3, <2>4, SameRecord, CalmIsSound DEF Sound
<1>6. CASE /\ worker.step = "off"
           /\ UpdateAndSave([mem EXCEPT !.status = "Starting"])
           /\ worker' = [Idle EXCEPT !.step = "guide", !.cmd = handler.cmd]
           /\ Done
           /\ UNCHANGED inbox
  <2>4. /\ Alike(mem, mem') /\ SameRequests(mem, mem')
        /\ mem.notes \subseteq mem'.notes /\ DiskFollows /\ Good(mem') /\ Good(disk')
    BY <1>6, StatusRestated, StatusWritten DEF Sound, Good
  <2>5. HandlerOK' /\ handler'.read = NewSession
    BY <1>6, HandlerIsDone DEF Done
  <2>6. "guide" \in WorkerSteps
    BY DEF WorkerSteps
  <2>7. /\ worker' \in Workers /\ worker'.step = "guide"
        /\ worker'.cmd = handler.cmd /\ worker'.after = "none"
    <3>1. worker' = Goes(Idle, "guide", handler.cmd)
      BY <1>6 DEF Goes
    <3> QED BY <1>3, <2>6, <3>1, IdleWorker, WorkerStepCmd
  <2>8. ~Flying /\ ~Flying'
    BY <1>6, <2>7 DEF Flying
  <2>9. WorkerOK'
    BY <1>2, <2>7, <2>8, WorkerGoes
  <2>10. InboxOK'
    BY <1>6 DEF Sound, InboxOK
  <2>11. Calm
    BY <1>1, <2>4, <2>5, <2>8 DEF Calm
  <2> QED BY <1>1, <2>4, <2>5, <2>9, <2>10, <2>11, CalmIsSound DEF Sound
<1> QED BY <1>4, <1>5, <1>6 DEF HandlerSends

LEMMA HandlerGivesUpCalm == ASSUME Sound, HandlerGivesUp PROVE Sound' /\ Calm
<1>1. /\ UNCHANGED <<mem, disk, inbox, worker, provider, wire, history>>
      /\ Done /\ Fault
  BY DEF HandlerGivesUp
<1>2. HandlerOK' /\ handler'.read = NewSession
  BY <1>1, HandlerIsDone DEF Done
<1>3. InboxOK' /\ WorkerOK'
  BY <1>1, WorkerStays DEF Sound, InboxOK
<1>4. left' \in [asks : Nat, says : Nat, faults : Nat]
  BY <1>1, FaultIsLeft DEF Sound
<1>5. Calm
  BY <1>1, <1>2, SameRecord DEF Calm
<1> QED BY <1>1, <1>2, <1>3, <1>4, <1>5, SameRecord, CalmIsSound

\* Only the worker goes on, and the record has another status or flag.
LEMMA WorkerCalm ==
  ASSUME Sound, UNCHANGED <<handler, inbox, provider, wire, left, history>>,
         WorkerOK', ~Flying, ~Flying',
         Alike(mem, mem'), SameRequests(mem, mem'),
         mem.notes \subseteq mem'.notes, DiskFollows, Good(mem'), Good(disk')
  PROVE  Sound' /\ Calm
<1>1. HandlerOK' /\ InboxOK'
  BY DEF Sound, HandlerOK, InboxOK
<1>2. Calm
  BY DEF Calm
<1> QED BY <1>1, <1>2, CalmIsSound DEF Sound

LEMMA GuideCalm == ASSUME Sound, Guide \/ GuidanceAnswered PROVE Sound' /\ Calm
<1>0. mem \in Session
  BY DEF Sound, Good
<1>1. UNCHANGED <<handler, inbox, provider, wire, left, history>>
      /\ worker.step \in {"guide", "asking"}
  BY DEF Guide, GuidanceAnswered
<1>2. PICK t : Restated(t) /\ UpdateAndSave(t)
  BY <1>0, StatusRestated, FlagsRestated DEF Guide, GuidanceAnswered
<1>3. PICK v \in {"asking", "connect"} : worker' = [worker EXCEPT !.step = v]
  BY DEF Guide, GuidanceAnswered
<1>4. v \in WorkerSteps /\ worker \in Workers
  BY DEF WorkerSteps, Sound, WorkerOK
<1>5. /\ worker' \in Workers /\ worker'.step = v /\ worker'.cmd = worker.cmd
      /\ worker'.after = worker.after
  BY <1>3, <1>4, WorkerStep
<1>6. ~Flying /\ ~Flying'
  BY <1>1, <1>5 DEF Flying
<1>7. WorkerOK'
  BY <1>1, <1>5, <1>6, WorkerGoes DEF Sound, WorkerOK
<1> QED BY <1>1, <1>2, <1>6, <1>7, StatusWritten, WorkerCalm

\* The worker goes from its loop and what follows it to a step without a command.
LEMMA WorkerGoesOn ==
  ASSUME WorkerOK, worker.step \in {"loop", "tidy", "queue", "stopping"},
         NEW v \in {"loop", "tidy", "queue", "stopping"},
         worker' = [worker EXCEPT !.step = v]
  PROVE  WorkerOK' /\ ~Flying /\ ~Flying'
<1>1. v \in WorkerSteps /\ worker \in Workers
  BY DEF WorkerSteps, WorkerOK
<1>2. /\ worker' \in Workers /\ worker'.step = v /\ worker'.cmd = worker.cmd
      /\ worker'.after = worker.after
  BY <1>1, WorkerStep
<1>3. ~Flying /\ ~Flying'
  BY <1>2 DEF Flying
<1> QED BY <1>2, <1>3, WorkerGoes DEF WorkerOK

LEMMA TidyCalm ==
  ASSUME Sound, LoopTidies \/ SwitchWorkspace \/ TidyDone PROVE Sound' /\ Calm
<1>1. mem \in Session /\ UNCHANGED <<handler, inbox, provider, wire, left, history>>
  BY DEF Sound, Good, LoopTidies, SwitchWorkspace, TidyDone
<1>2. WorkerOK' /\ ~Flying /\ ~Flying'
  <2>1. PICK v \in {"tidy", "stopping", "queue"} : worker' = [worker EXCEPT !.step = v]
    BY DEF LoopTidies, SwitchWorkspace, TidyDone
  <2>2. worker.step \in {"loop", "tidy"}
    BY DEF LoopTidies, SwitchWorkspace, TidyDone
  <2> QED BY <2>1, <2>2, WorkerGoesOn DEF Sound
<1>3. UNCHANGED <<mem, disk>> \/ \E t : Restated(t) /\ (UpdateAndSave(t) \/ Update(t))
  BY <1>1, StatusRestated, FlagsRestated DEF LoopTidies, SwitchWorkspace, TidyDone
<1> QED BY <1>1, <1>2, <1>3, StatusWritten, SameRecord, WorkerCalm

-----------------------------------------------------------------------------
(* A message is sent to the provider *)

\* What every send does: the prompt is unsent, and a queued one has left the
\* queue.  An answer is not settled yet, one from the queue is.
Launch ==
  /\ ~Flying /\ worker'.step = "calling"
  /\ Settled(mem') = Settled(mem) /\ SameRequests(mem, mem')
  /\ mem'.notes = mem.notes /\ disk' = Saved(mem')
  /\ mem'.unsent = mem.unsent \cup {worker'.prompt}
  /\ Range(mem'.queue) \subseteq Range(mem.queue)
  /\ Range(mem.queue) \subseteq Range(mem'.queue) \cup {worker'.prompt}
  /\ worker'.prompt \in Asked =>
       /\ worker'.prompt \notin Range(mem'.queue)
       /\ IF worker'.cmd.kind = "answer" THEN worker'.prompt \notin Settled(mem)
          ELSE worker'.prompt \in Settled(mem) \cap Range(mem.queue)
  /\ worker'.cmd.kind \in {"answer", "respond"} => worker'.cmd.item \in mem.notes
  /\ worker'.cmd.kind = "answer" =>
       {worker'.cmd.item} \X (worker'.answers \ {worker'.cmd.part})
         \subseteq Settled(mem)
  /\ provider'.call \in {"start", "steer"} /\ provider'.turn = provider.turn
  /\ provider'.open = provider.open /\ provider'.asked = provider.asked
  /\ handler'.read = handler.read
  /\ UNCHANGED <<wire, history>>

LEMMA LaunchKnown == Sound /\ Launch => Known'
BY DEF Sound, Known, Launch

LEMMA StartTurnGood ==
  ASSUME NEW s, Good(s), NEW p \in Prompts, NEW w \in Workers,
         provider \in Providers, StartTurn(s, p, w)
  PROVE  /\ Good(mem') /\ Good(disk') /\ disk' = Saved(mem')
         /\ Settled(mem') = Settled(s) /\ SameRequests(s, mem')
         /\ mem'.queue = s.queue /\ mem'.unsent = s.unsent \cup {p}
         /\ mem'.notes = s.notes
         /\ provider' \in Providers /\ provider'.call \in {"start", "steer"}
         /\ provider'.turn = provider.turn /\ provider'.open = provider.open
         /\ provider'.asked = provider.asked
         /\ worker' \in Workers /\ worker'.step = "calling" /\ worker'.prompt = p
         /\ worker'.cmd = w.cmd /\ worker'.after = w.after
         /\ worker'.answers = w.answers
<1>1. PICK steer \in BOOLEAN : UpdateAndSave(Intend(s, p, steer))
  <2>1. (s.turn # 0) \in BOOLEAN
    OBVIOUS
  <2> QED BY <2>1 DEF StartTurn
<1>2. PICK call \in {"start", "steer"} : provider' = [provider EXCEPT !.call = call]
  BY DEF StartTurn
<1>3. worker' = [w EXCEPT !.step = "calling", !.prompt = p]
  BY DEF StartTurn
<1>4. /\ Good(Intend(s, p, steer)) /\ Settled(Intend(s, p, steer)) = Settled(s)
      /\ SameRequests(s, Intend(s, p, steer))
      /\ Intend(s, p, steer).queue = s.queue
      /\ Intend(s, p, steer).unsent = s.unsent \cup {p}
      /\ Intend(s, p, steer).notes = s.notes
  BY IntendGood
<1>5. mem' = Intend(s, p, steer) /\ disk' = Saved(mem') /\ Good(mem') /\ Good(disk')
  BY <1>1, <1>4, SavedFollows
<1>6. /\ provider' \in Providers /\ provider'.call = call
      /\ provider'.turn = provider.turn /\ provider'.open = provider.open
      /\ provider'.asked = provider.asked
  BY <1>2 DEF Providers
<1>7. "calling" \in WorkerSteps
  BY DEF WorkerSteps
<1>8. worker' \in Workers
  BY <1>3, <1>7, Zenon DEF Workers
<1>9. /\ worker'.step = "calling" /\ worker'.prompt = p
      /\ worker'.cmd = w.cmd /\ worker'.after = w.after
      /\ worker'.answers = w.answers
  BY <1>3 DEF Workers
<1> QED BY <1>4, <1>5, <1>6, <1>8, <1>9

\* Connect, after the worktree is made: the conversation goes on.
LEMMA ConnectSends ==
  ASSUME Sound, Connect, worker.after = "switched" PROVE Sound' /\ Launch
<1> DEFINE s == [mem EXCEPT !.switching = FALSE]
<1>1. /\ StartTurn(s, Chat, worker) /\ worker.step = "connect"
      /\ UNCHANGED <<handler, inbox, wire, left, history>>
  BY DEF Connect
<1>2. mem \in Session /\ worker \in Workers /\ provider \in Providers
  BY DEF Sound, Good, WorkerOK
<1>3. s \in Session
  BY <1>2, SetFlags
<1>4. /\ s.panel = mem.panel /\ s.answers = mem.answers
      /\ s.finished = mem.finished /\ s.queue = mem.queue /\ s.notes = mem.notes
      /\ s.unsent = mem.unsent /\ s.responded = mem.responded
      /\ s.turn = mem.turn /\ s.status = mem.status
  BY <1>2 DEF Session
<1> HIDE DEF s
<1>5. Good(s) /\ Alike(mem, s)
  BY <1>3, <1>4, StatusOnly DEF Active, Sound
<1>6. /\ Good(mem') /\ Good(disk') /\ disk' = Saved(mem')
      /\ Settled(mem') = Settled(s) /\ SameRequests(s, mem')
      /\ mem'.queue = s.queue /\ mem'.unsent = s.unsent \cup {Chat}
      /\ mem'.notes = s.notes
      /\ provider' \in Providers /\ provider'.call \in {"start", "steer"}
      /\ provider'.turn = provider.turn /\ provider'.open = provider.open
      /\ provider'.asked = provider.asked
      /\ worker' \in Workers /\ worker'.step = "calling" /\ worker'.prompt = Chat
      /\ worker'.cmd = worker.cmd /\ worker'.after = worker.after
      /\ worker'.answers = worker.answers
  BY <1>1, <1>2, <1>5, StartTurnGood, PromptKinds
<1>7. worker.cmd.kind = "none" /\ ~Flying /\ WorkerCommand(worker.cmd)
  BY <1>1 DEF Sound, WorkerOK, Flying
<1>8. WorkerOK'
  BY <1>6, <1>7 DEF WorkerOK, Flying
<1>9. SameRequests(mem, mem')
  BY <1>4, <1>6 DEF SameRequests
<1>10. Launch
  BY <1>1, <1>4, <1>5, <1>6, <1>7, <1>9, PromptKinds DEF Launch, Alike
<1>11. HandlerOK' /\ InboxOK' /\ WireOK'
  BY <1>1 DEF Sound, HandlerOK, InboxOK, WireOK
<1> QED BY <1>1, <1>6, <1>8, <1>10, <1>11, LaunchKnown DEF Sound

LEMMA ConnectCalm ==
  ASSUME Sound, Connect, worker.after # "switched" PROVE Sound' /\ Calm
<1>1. /\ worker' = [worker EXCEPT !.step = "initial"] /\ worker.step = "connect"
      /\ UNCHANGED <<mem, disk, handler, inbox, wire, left, history, provider>>
  BY DEF Connect
<1>2. "initial" \in WorkerSteps /\ worker \in Workers /\ WorkerCommand(worker.cmd)
  BY DEF WorkerSteps, Sound, WorkerOK
<1>3. worker' \in Workers /\ worker'.step = "initial" /\ worker'.cmd = worker.cmd
  BY <1>1, <1>2, WorkerStep
<1>4. ~Flying /\ ~Flying'
  BY <1>1, <1>3 DEF Flying
<1>5. WorkerOK'
  BY <1>2, <1>3, <1>4, WorkerGoes
<1> QED BY <1>1, <1>4, <1>5, SameRecord, WorkerCalm

LEMMA PromptOf ==
  \A c : /\ c.kind = "answer" => Prompt(c) = <<c.item, c.part>>
         /\ c.kind = "respond" => Prompt(c) = Batch(c.item)
         /\ c.kind \notin {"answer", "respond"} => Prompt(c) = Chat
<1> TAKE c
<1>1. CASE c.kind = "answer"
  BY <1>1, Zenon DEF Prompt
<1>2. CASE c.kind = "respond"
  BY <1>2, Zenon DEF Prompt
<1>3. CASE c.kind # "answer" /\ c.kind # "respond"
  BY <1>3 DEF Prompt
<1> QED BY <1>1, <1>2, <1>3

LEMMA FitsOf ==
  \A c : /\ Fits(c) /\ c.kind \in {"answer", "skip"} => CanAnswer(mem, c.item, c.part)
         /\ Fits(c) /\ c.kind = "respond" => CanRespond(mem, c.item)
<1> TAKE c
<1>1. CASE c.kind = "answer" \/ c.kind = "skip"
  BY <1>1 DEF Fits
<1>2. CASE c.kind = "respond"
  BY <1>2, Zenon DEF Fits
<1> QED BY <1>1, <1>2

\* A question of a note that can be answered is not settled.
LEMMA CanAnswerNote ==
  ASSUME NEW s, Good(s), NEW n \in Notes, NEW q, CanAnswer(s, n, q)
  PROVE  /\ n \in s.panel /\ n \in s.notes /\ q \in Parts[n] /\ <<n, q>> \in Asked
         /\ <<n, q>> \notin Settled(s) /\ <<n, q>> \notin Range(s.queue)
         /\ {n} \X s.answers[n] \subseteq Settled(s)
         /\ s.answers[n] \subseteq Parts[n]
<1>1. n \in s.panel /\ q \in Parts[n] /\ q \notin s.answers[n]
  BY DEF CanAnswer, Unanswered
<1>2. n \notin s.finished /\ n \in s.notes /\ s.answers[n] \subseteq Parts[n]
  BY <1>1 DEF Good, Items
<1>3. <<n, q>> \in Asked /\ <<n, q>> \notin Settled(s)
  BY <1>1, <1>2, SettledIs
<1>4. <<n, q>> \notin Range(s.queue)
  BY <1>3 DEF Good, Range
<1>5. \A p \in s.answers[n] : <<n, p>> \in Settled(s)
  BY <1>2, SettledIs
<1> QED BY <1>1, <1>2, <1>3, <1>4, <1>5

\* A command that is sent as a message.
LEMMA CommandSendsSound ==
  ASSUME Sound, NEW c, WorkerCommand(c), NEW after \in {"command", "initial"},
         CommandSends(c, after), ~Flying, InboxOK', UNCHANGED <<wire, left>>
  PROVE  Sound' /\ Launch
<1> DEFINE given == IF c.kind = "answer"
                    THEN mem.answers[c.item] \cup {c.part} ELSE {}
           w == [worker EXCEPT !.after = after, !.cmd = c, !.answers = given]
<1>1. /\ Fits(c) /\ Sends(c) /\ StartTurn(mem, Prompt(c), w)
      /\ UNCHANGED <<handler, history>>
  BY DEF CommandSends
<1>2. Good(mem) /\ worker \in Workers /\ provider \in Providers
      /\ c \in Cmds /\ GoodCommand(c)
  BY DEF Sound, WorkerOK, WorkerCommand, GoodCommand
<1>3. c.kind = "answer" =>
        /\ c.item \in Notes /\ c.item \in mem.notes /\ c.part \in Parts[c.item]
        /\ <<c.item, c.part>> \in Asked /\ <<c.item, c.part>> \notin Settled(mem)
        /\ <<c.item, c.part>> \notin Range(mem.queue)
        /\ {c.item} \X mem.answers[c.item] \subseteq Settled(mem)
        /\ mem.answers[c.item] \subseteq Parts[c.item]
  <2> SUFFICES ASSUME c.kind = "answer"
               PROVE  /\ c.item \in Notes /\ c.item \in mem.notes
                      /\ c.part \in Parts[c.item]
                      /\ <<c.item, c.part>> \in Asked
                      /\ <<c.item, c.part>> \notin Settled(mem)
                      /\ <<c.item, c.part>> \notin Range(mem.queue)
                      /\ {c.item} \X mem.answers[c.item] \subseteq Settled(mem)
                      /\ mem.answers[c.item] \subseteq Parts[c.item]
    OBVIOUS
  <2>1. c.item \in Notes /\ CanAnswer(mem, c.item, c.part)
    BY <1>1, FitsOf DEF Sends
  <2> QED BY <1>2, <2>1, CanAnswerNote
<1>4. c.kind = "respond" => c.item \in Notes /\ c.item \in mem.notes
  <2> SUFFICES ASSUME c.kind = "respond"
               PROVE  c.item \in Notes /\ c.item \in mem.notes
    OBVIOUS
  <2>1. c.item \in Notes /\ CanRespond(mem, c.item)
    BY <1>1, FitsOf DEF Sends
  <2> QED BY <1>2, <2>1 DEF CanRespond, Good
<1>5. /\ Prompt(c) \in Prompts
      /\ Prompt(c) \in Asked => c.kind = "answer" /\ Prompt(c) = <<c.item, c.part>>
      /\ c.kind = "answer" => Prompt(c) = <<c.item, c.part>>
      /\ c.kind = "respond" => Prompt(c) = Batch(c.item)
  <2>1. CASE c.kind = "answer"
    BY <1>3, <2>1, PromptOf, PromptKinds
  <2>2. CASE c.kind = "respond"
    BY <1>4, <2>2, PromptOf, PromptKinds
  <2>3. CASE c.kind \notin {"answer", "respond"}
    BY <2>3, PromptOf, PromptKinds
  <2> QED BY <2>1, <2>2, <2>3
<1>6. given \subseteq Nat /\ (c.kind = "answer" => given \subseteq Parts[c.item])
      /\ (c.kind = "answer" => c.part \in given /\ given \ {c.part} \subseteq mem.answers[c.item])
  BY <1>3, PartsAreNumbers DEF Items
<1> HIDE DEF given
<1>7. w \in Workers
  BY <1>2, <1>6, Zenon DEF Workers
<1>8. w.cmd = c /\ w.after = after /\ w.answers = given
  BY <1>2 DEF Workers
<1> HIDE DEF w
<1>9. /\ Good(mem') /\ Good(disk') /\ disk' = Saved(mem')
      /\ Settled(mem') = Settled(mem) /\ SameRequests(mem, mem')
      /\ mem'.queue = mem.queue /\ mem'.unsent = mem.unsent \cup {Prompt(c)}
      /\ mem'.notes = mem.notes
      /\ provider' \in Providers /\ provider'.call \in {"start", "steer"}
      /\ provider'.turn = provider.turn /\ provider'.open = provider.open
      /\ provider'.asked = provider.asked
      /\ worker' \in Workers /\ worker'.step = "calling" /\ worker'.prompt = Prompt(c)
      /\ worker'.cmd = w.cmd /\ worker'.after = w.after
      /\ worker'.answers = w.answers
  BY <1>1, <1>2, <1>5, <1>7, StartTurnGood
<1>10. WorkerOK'
  BY <1>3, <1>4, <1>5, <1>6, <1>8, <1>9 DEF WorkerOK, Flying
<1>11. c.kind = "answer" =>
         {c.item} \X (given \ {c.part}) \subseteq Settled(mem)
  BY <1>3, <1>6
<1>12. Launch
  BY <1>1, <1>3, <1>4, <1>5, <1>8, <1>9, <1>11 DEF Launch
<1>13. HandlerOK' /\ WireOK'
  BY <1>1 DEF Sound, HandlerOK, WireOK
<1> QED BY <1>1, <1>9, <1>10, <1>12, <1>13, LaunchKnown DEF Sound

\* send_queued
LEMMA SendQueuedSends ==
  ASSUME Sound, SendQueued, mem.status = "Idle" /\ mem.queue # <<>>
  PROVE  Sound' /\ Launch
<1> DEFINE s == [mem EXCEPT !.queue = Tail(@)]
           w == [worker EXCEPT !.after = "queued", !.cmd = Nothing]
           p == Head(mem.queue)
<1>1. /\ StartTurn(s, p, w) /\ worker.step = "queue"
      /\ UNCHANGED <<handler, inbox, wire, left, history>>
  BY DEF SendQueued
<1>2. worker \in Workers /\ provider \in Providers
  BY DEF Sound, WorkerOK
<1>3. /\ Good(s) /\ Settled(s) = Settled(mem) /\ SameRequests(mem, s)
      /\ p \in Prompts /\ Range(mem.queue) = Range(s.queue) \cup {p}
      /\ p \in Asked => p \in Settled(mem) /\ p \notin Range(s.queue)
      /\ s.unsent = mem.unsent /\ s.status = mem.status /\ s.notes = mem.notes
  BY TailGood DEF Sound
<1> HIDE DEF s, p
<1>4. w \in Workers
  BY <1>2, NothingIsCommand, Zenon DEF Workers
<1>5. w.cmd = Nothing /\ w.after = "queued"
  BY <1>2 DEF Workers
<1> HIDE DEF w
<1>6. /\ Good(mem') /\ Good(disk') /\ disk' = Saved(mem')
      /\ Settled(mem') = Settled(s) /\ SameRequests(s, mem')
      /\ mem'.queue = s.queue /\ mem'.unsent = s.unsent \cup {p}
      /\ mem'.notes = s.notes
      /\ provider' \in Providers /\ provider'.call \in {"start", "steer"}
      /\ provider'.turn = provider.turn /\ provider'.open = provider.open
      /\ provider'.asked = provider.asked
      /\ worker' \in Workers /\ worker'.step = "calling" /\ worker'.prompt = p
      /\ worker'.cmd = w.cmd /\ worker'.after = w.after
      /\ worker'.answers = w.answers
  BY <1>1, <1>2, <1>3, <1>4, StartTurnGood
<1>7. ~Flying
  BY <1>1 DEF Flying
<1>8. WorkerOK'
  BY <1>5, <1>6, NothingIsCommand DEF WorkerOK, Flying
<1>9. SameRequests(mem, mem')
  BY <1>3, <1>6 DEF SameRequests
<1>10. Launch
  BY <1>1, <1>3, <1>5, <1>6, <1>7, <1>9, NothingIsCommand DEF Launch
<1>11. HandlerOK' /\ InboxOK' /\ WireOK'
  BY <1>1 DEF Sound, HandlerOK, InboxOK, WireOK
<1> QED BY <1>1, <1>6, <1>8, <1>10, <1>11, LaunchKnown DEF Sound

LEMMA SendQueuedCalm ==
  ASSUME Sound, SendQueued, ~(mem.status = "Idle" /\ mem.queue # <<>>)
  PROVE  Sound' /\ Calm
<1>1. /\ worker' = Connected /\ worker.step = "queue"
      /\ UNCHANGED <<mem, disk, handler, inbox, wire, left, history, provider>>
  BY DEF SendQueued
<1>2. "loop" \in WorkerSteps
  BY DEF WorkerSteps
<1>3. worker' \in Workers /\ worker'.step = "loop" /\ worker'.cmd = Nothing
  BY <1>1, <1>2, IdleWorker, WorkerStep DEF Connected
<1>4. ~Flying /\ ~Flying'
  BY <1>1, <1>3 DEF Flying
<1>5. WorkerOK'
  BY <1>3, <1>4, NothingIsCommand, WorkerGoes
<1> QED BY <1>1, <1>4, <1>5, SameRecord, WorkerCalm

-----------------------------------------------------------------------------
(* Steps that settle answers *)

\* What is new is declined, or queued and not sent yet.
Settling ==
  /\ Settled(mem) \subseteq Settled(mem')
  /\ \A a \in Settled(mem') \ Settled(mem) :
       \/ a \in history'.declined
       \/ a \in history'.queued /\ a \in Range(mem'.queue)
  /\ history'.told \subseteq history.told \cup Settled(mem')
  /\ history.declined \subseteq history'.declined
  /\ history.queued \subseteq history'.queued
  /\ history'.sent = history.sent /\ history'.batch = history.batch
  /\ history'.doubt = history.doubt /\ history'.responses = history.responses
  /\ Range(mem.queue) \subseteq Range(mem'.queue) /\ mem'.unsent = mem.unsent
  /\ \A a \in Range(mem'.queue) \cap Asked :
       a \in Range(mem.queue) \/ (~Flying /\ a \notin Settled(mem))
  /\ SameRequests(mem, mem') /\ disk' = Saved(mem')
  /\ handler'.read \in {handler.read, NewSession}
  /\ UNCHANGED <<worker, wire, provider>>

LEMMA SoundFollows ==
  ASSUME Sound, Good(mem'), Good(disk'), mem.notes \subseteq mem'.notes,
         HandlerOK', handler'.read \in {handler.read, NewSession, mem},
         InboxOK', WorkerOK', WireOK', provider' \in Providers,
         history' \in Histories, left' \in [asks : Nat, says : Nat, faults : Nat],
         Flying' => Flying /\ worker'.cmd = worker.cmd
  PROVE  Sound'
<1>1. Known'
  BY NewSessionGood DEF Sound, Known
<1> QED BY <1>1 DEF Sound

LEMMA HandlerSkipsSettles ==
  ASSUME Sound, Told, HandlerSkips PROVE Sound' /\ (Settling \/ Calm)
<1> DEFINE n == handler.cmd.item
           q == handler.cmd.part
           given == handler.read.answers[n] \cup {q}
           t == RecordAnswer(mem, n, given, FALSE)
<1>1. /\ handler.step = "read" /\ handler.cmd.kind = "skip" /\ OfNote /\ Done
      /\ UNCHANGED <<inbox, worker, provider, wire, left>>
  BY DEF HandlerSkips
<1>2. HandlerOK' /\ handler'.read = NewSession
  BY <1>1, HandlerIsDone DEF Done
<1>3. InboxOK' /\ WorkerOK' /\ WireOK'
  BY <1>1, WorkerStays DEF Sound, InboxOK, WireOK
<1>4. CASE ~CanAnswer(handler.read, n, q)
  <2>1. UNCHANGED <<mem, disk, history>>
    BY <1>4 DEF HandlerSkips
  <2>2. Calm
    BY <1>1, <1>2, <2>1, SameRecord DEF Calm
  <2> QED BY <1>1, <1>2, <1>3, <2>1, <2>2, SameRecord, CalmIsSound DEF Sound
<1>5. CASE CanAnswer(handler.read, n, q)
  <2>1. /\ UpdateAndSave(t)
        /\ history' = [history EXCEPT !.told = @ \cup {<<n, q>>},
                                      !.declined = @ \cup {<<n, q>>}]
    BY <1>5 DEF HandlerSkips
  <2>2. n \in Notes /\ Good(handler.read)
    BY <1>1 DEF OfNote, Sound, HandlerOK
  <2>3. /\ n \in handler.read.notes /\ q \in Parts[n] /\ <<n, q>> \in Asked
        /\ {n} \X handler.read.answers[n] \subseteq Settled(handler.read)
        /\ handler.read.answers[n] \subseteq Parts[n]
    BY <1>5, <2>2, CanAnswerNote
  <2>4. n \in mem.notes /\ given \in SUBSET Parts[n]
        /\ Settled(handler.read) \subseteq Settled(mem)
    BY <2>3 DEF Sound, Known, Told
  <2>5. {n} \X given \subseteq Settled(mem) \cup {<<n, q>>} /\ q \in given
    BY <2>3, <2>4
  <2> HIDE DEF given
  <2>6. /\ Good(t) /\ SameQueue(mem, t) /\ SameRequests(mem, t)
        /\ Settled(t) = Settled(mem) \cup ({n} \X given)
        /\ t.notes = mem.notes
    BY <2>4, RecordNote DEF Sound
  <2> HIDE DEF t
  <2>7. mem' = t /\ disk' = Saved(mem') /\ Good(mem') /\ Good(disk')
    BY <2>1, <2>6, SavedFollows
  <2>8. /\ history' \in Histories
        /\ history'.told = history.told \cup {<<n, q>>}
        /\ history'.declined = history.declined \cup {<<n, q>>}
        /\ history'.sent = history.sent /\ history'.batch = history.batch
        /\ history'.doubt = history.doubt /\ history'.queued = history.queued
        /\ history'.responses = history.responses
    BY <2>1, <2>3 DEF Sound, Histories
  <2>9. Sound'
    BY <1>1, <1>2, <1>3, <2>6, <2>7, <2>8, SoundFollows DEF Sound, Flying
  <2>10. Settling
    BY <1>1, <1>2, <2>5, <2>6, <2>7, <2>8 DEF Settling, SameQueue
  <2> QED BY <2>9, <2>10
<1> QED BY <1>4, <1>5

\* RemoveQuestions
LEMMA RemoveQuestionsSettles ==
  ASSUME Sound, RemoveQuestions PROVE Sound' /\ (Settling \/ Calm)
<1> DEFINE parts == mem.removal.parts
           fits == /\ mem.removal.turn = mem.turn
                   /\ \A a \in parts : CanAnswer(mem, a[1], a[2])
           taken == [mem EXCEPT !.removal = NoRemoval]
<1>1. UNCHANGED <<handler, inbox, worker, provider, wire, left>>
      /\ worker.step = "tidy"
  BY DEF RemoveQuestions
<1>2. HandlerOK' /\ InboxOK' /\ WorkerOK' /\ WireOK' /\ ~Flying /\ ~Flying'
  BY <1>1, WorkerStays DEF Sound, HandlerOK, InboxOK, WireOK, Flying
<1>3. Good(mem) /\ mem \in Session
  BY DEF Sound, Good
<1>4. CASE ~fits
  <2>1. Update(taken) /\ UNCHANGED history
    BY <1>4 DEF RemoveQuestions
  <2>2. Restated(taken)
    BY <1>3, FlagsRestated
  <2> QED BY <1>1, <1>2, <2>1, <2>2, StatusWritten, WorkerCalm
<1>5. CASE fits
  <2>1. /\ UpdateAndSave(Removes(taken, parts))
        /\ history' = [history EXCEPT !.declined = @ \cup parts,
                                      !.told = @ \cup parts]
    BY <1>5 DEF RemoveQuestions
  <2>2. parts \in SUBSET Asked
    BY <1>3 DEF Session
  <2>3. \A a \in parts : a[1] \in mem.panel
    BY <1>5 DEF CanAnswer
  <2>4. taken \in Session /\ Restated(taken)
    BY <1>3, FlagsRestated DEF Restated
  <2>5. taken.panel = mem.panel
    BY <2>4 DEF Restated
  <2>6. Good(taken) /\ Settled(taken) = Settled(mem) /\ SameRequests(mem, taken)
        /\ taken.notes = mem.notes /\ taken.queue = mem.queue
        /\ taken.unsent = mem.unsent
    <3>1. Good(taken) /\ Alike(mem, taken)
      BY <1>3, <2>4, StatusOnly DEF Restated, Active
    <3> QED BY <2>4, <3>1 DEF Alike, Restated, SameRequests
  <2> HIDE DEF taken
  <2> DEFINE t == Removes(taken, parts)
  <2>7. /\ Good(t) /\ Settled(t) = Settled(taken) \cup parts
        /\ SameRequests(taken, t) /\ t.notes = taken.notes
        /\ t.queue = taken.queue /\ t.unsent = taken.unsent
    BY <2>2, <2>3, <2>5, <2>6, RemovesGood
  <2> HIDE DEF t
  <2>8. mem' = t /\ disk' = Saved(mem') /\ Good(mem') /\ Good(disk')
    BY <2>1, <2>7, SavedFollows DEF t
  <2>9. /\ history' \in Histories
        /\ history'.told = history.told \cup parts
        /\ history'.declined = history.declined \cup parts
        /\ history'.sent = history.sent /\ history'.batch = history.batch
        /\ history'.doubt = history.doubt /\ history'.queued = history.queued
        /\ history'.responses = history.responses
    BY <2>1, <2>2 DEF Sound, Histories
  <2>10. Sound'
    BY <1>1, <1>2, <2>6, <2>7, <2>8, <2>9, SoundFollows DEF Sound
  <2>11. SameRequests(mem, mem')
    BY <2>6, <2>7, <2>8 DEF SameRequests
  <2>12. Settling
    BY <1>1, <2>6, <2>7, <2>8, <2>9, <2>11 DEF Settling
  <2> QED BY <2>10, <2>12
<1> QED BY <1>4, <1>5

\* What the handler is told, and what is kept of it.
LEMMA ToldIsKept ==
  ASSUME NEW c, NEW asked \in SUBSET Asked, Sound
  PROVE  LET h == Tell(c, asked)
         IN  /\ h \in Histories /\ h.told \subseteq history.told \cup asked
             /\ history.told \subseteq h.told
             /\ h.sent = history.sent /\ h.batch = history.batch
             /\ h.doubt = history.doubt /\ h.queued = history.queued
             /\ h.declined = history.declined /\ h.responses = history.responses
<1> DEFINE told == IF Waits(c) THEN history.told \cup asked ELSE history.told
<1>1. history \in Histories /\ told \subseteq history.told \cup asked
      /\ history.told \subseteq told
  BY DEF Sound
<1>2. Tell(c, asked) = [history EXCEPT !.told = told]
  BY DEF Tell
<1>3. told \in SUBSET Asked
  BY <1>1 DEF Histories
<1> HIDE DEF told
<1> QED BY <1>1, <1>2, <1>3 DEF Histories

\* An answer is queued while the worktree is prepared.
LEMMA QueueSettles ==
  ASSUME Sound, QueueWhileWaiting PROVE Sound' /\ (Settling \/ Calm)
<1> DEFINE c == Head(inbox)
           n == c.item
           q == c.part
           a == <<n, q>>
           note == c.kind = "answer" /\ n \in Notes /\ CanAnswer(mem, n, q)
           given == mem.answers[n] \cup {q}
           t == RecordAnswer(mem, n, given, FALSE)
           u == [t EXCEPT !.queue = Append(@, a)]
           chat == [mem EXCEPT !.queue = Append(@, Chat)]
<1>1. /\ worker.step = "asking" /\ inbox # <<>> /\ inbox' = Tail(inbox)
      /\ Answered(c) /\ UNCHANGED <<worker, provider, wire, left>>
  BY DEF QueueWhileWaiting
<1>2. /\ HandlerOK' /\ InboxOK' /\ WorkerOK' /\ WireOK'
      /\ handler'.read = handler.read
  BY <1>1, AnsweredIsHeard, HandlerHears, HeadCommand, WorkerStays
     DEF Sound, WireOK
<1>3. ~Flying /\ ~Flying'
  BY <1>1 DEF Flying
<1>4. CASE c.kind = "chat" /\ UpdateAndSave(chat) /\ UNCHANGED history
  <2>1. /\ Good(chat) /\ Settled(chat) = Settled(mem) /\ SameRequests(mem, chat)
        /\ Range(chat.queue) = Range(mem.queue) \cup {Chat}
        /\ chat.unsent = mem.unsent /\ chat.notes = mem.notes
    BY AppendGood, PromptKinds DEF Sound
  <2> HIDE DEF chat
  <2>2. mem' = chat /\ disk' = Saved(mem') /\ Good(mem') /\ Good(disk')
    BY <1>4, <2>1, SavedFollows
  <2>3. Alike(mem, mem')
    BY <2>1, <2>2, PromptKinds DEF Alike
  <2>4. Calm
    BY <1>1, <1>2, <1>4, <2>1, <2>2, <2>3 DEF Calm, DiskFollows
  <2> QED BY <1>1, <1>2, <2>2, <2>4, CalmIsSound DEF Sound
<1>5. CASE /\ note /\ UpdateAndSave(u)
           /\ history' = [Tell(c, {a}) EXCEPT !.queued = @ \cup {a}]
  <2>1. /\ n \in mem.notes /\ q \in Parts[n] /\ a \in Asked
        /\ a \notin Settled(mem) /\ a \notin Range(mem.queue)
        /\ {n} \X mem.answers[n] \subseteq Settled(mem)
        /\ mem.answers[n] \subseteq Parts[n]
    BY <1>5, CanAnswerNote DEF Sound
  <2>2. given \in SUBSET Parts[n] /\ {n} \X given \subseteq Settled(mem) \cup {a}
        /\ a \in {n} \X given
    BY <2>1
  <2> HIDE DEF given
  <2>3. /\ Good(t) /\ SameQueue(mem, t) /\ SameRequests(mem, t)
        /\ Settled(t) = Settled(mem) \cup ({n} \X given)
        /\ t.notes = mem.notes
    BY <2>1, <2>2, RecordNote DEF Sound
  <2>4. a \in Prompts /\ a \in Settled(t) /\ a \notin Range(t.queue)
    BY <2>1, <2>2, <2>3, PromptKinds DEF SameQueue
  <2> HIDE DEF t
  <2>5. /\ Good(u) /\ Settled(u) = Settled(t) /\ SameRequests(t, u)
        /\ Range(u.queue) = Range(t.queue) \cup {a} /\ u.unsent = t.unsent
        /\ u.notes = t.notes
    BY <2>3, <2>4, AppendGood
  <2> HIDE DEF u
  <2>6. mem' = u /\ disk' = Saved(mem') /\ Good(mem') /\ Good(disk')
    BY <1>5, <2>5, SavedFollows
  <2>7. /\ history' \in Histories
        /\ history'.told \subseteq history.told \cup {a}
        /\ history'.queued = history.queued \cup {a}
        /\ history'.sent = history.sent /\ history'.batch = history.batch
        /\ history'.doubt = history.doubt
        /\ history'.declined = history.declined
        /\ history'.responses = history.responses
    <3>1. /\ Tell(c, {a}) \in Histories
          /\ Tell(c, {a}).told \subseteq history.told \cup {a}
          /\ Tell(c, {a}).sent = history.sent /\ Tell(c, {a}).batch = history.batch
          /\ Tell(c, {a}).doubt = history.doubt /\ Tell(c, {a}).queued = history.queued
          /\ Tell(c, {a}).declined = history.declined
          /\ Tell(c, {a}).responses = history.responses
      BY <2>1, ToldIsKept
    <3> QED BY <1>5, <2>1, <3>1 DEF Histories
  <2>8. Sound'
    BY <1>1, <1>2, <1>3, <2>3, <2>5, <2>6, <2>7, SoundFollows DEF Sound
  <2>9. SameRequests(mem, mem')
    BY <2>3, <2>5, <2>6 DEF SameRequests
  <2>10. /\ Settled(mem') = Settled(mem) \cup {a}
         /\ Range(mem'.queue) = Range(mem.queue) \cup {a}
         /\ mem'.unsent = mem.unsent
    BY <2>2, <2>3, <2>5, <2>6 DEF SameQueue
  <2>11. Settling
    BY <1>1, <1>2, <1>3, <2>1, <2>6, <2>7, <2>9, <2>10 DEF Settling
  <2> QED BY <2>8, <2>11
<1>6. CASE UNCHANGED <<mem, disk, history>>
  <2>1. Calm
    BY <1>1, <1>2, <1>6, SameRecord DEF Calm
  <2> QED BY <1>1, <1>2, <1>6, <2>1, SameRecord, CalmIsSound DEF Sound
<1>7. (c.kind = "chat" /\ UpdateAndSave(chat) /\ UNCHANGED history)
      \/ (/\ note /\ UpdateAndSave(u)
          /\ history' = [Tell(c, {a}) EXCEPT !.queued = @ \cup {a}])
      \/ UNCHANGED <<mem, disk, history>>
  BY DEF QueueWhileWaiting
<1> QED BY <1>4, <1>5, <1>6, <1>7

\* An answer that was accepted is recorded.
Recording ==
  /\ worker.step = "record" /\ ~Flying'
  /\ Settled(mem) \subseteq Settled(mem')
  /\ \A a \in Settled(mem') \ Settled(mem) :
       a = worker.prompt \/ worker.prompt = Batch(a[1])
  /\ worker.prompt \in Asked /\ worker.cmd.kind = "answer"
       => worker.prompt \in Settled(mem')
  /\ history'.told \subseteq history.told \cup Settled(mem')
  /\ history'.sent = history.sent /\ history'.batch = history.batch
  /\ history'.doubt = history.doubt /\ history'.responses = history.responses
  /\ history'.declined = history.declined /\ history'.queued = history.queued
  /\ mem'.queue = mem.queue /\ mem'.unsent = mem.unsent
  /\ SameRequests(mem, mem') /\ disk' = Saved(mem')
  /\ handler'.read = handler.read
  /\ UNCHANGED <<wire, provider>>

\* What follows a call that ended well.
LEMMA WorkerFollows ==
  ASSUME WorkerOK, Flying,
         worker' = [worker EXCEPT !.step = Follows(worker.after), !.cmd = Nothing]
  PROVE  WorkerOK' /\ ~Flying'
<1>1. worker.after \in {"command", "initial", "switched", "queued"}
  BY DEF WorkerOK, Workers
<1>2. Follows(worker.after) \in {"tidy", "queue", "loop"}
  <2>1. CASE worker.after = "command"
    BY <2>1 DEF Follows
  <2>2. CASE worker.after \in {"initial", "switched"}
    <3>1. worker.after # "command"
      BY <2>2
    <3> QED BY <2>2, <3>1, Zenon DEF Follows
  <2>3. CASE worker.after = "queued"
    <3>1. worker.after # "command" /\ worker.after \notin {"initial", "switched"}
      BY <2>3
    <3> QED BY <2>3, <3>1, Zenon DEF Follows
  <2> QED BY <1>1, <2>1, <2>2, <2>3
<1>3. PICK v \in {"tidy", "queue", "loop"} : v = Follows(worker.after)
  BY <1>2
<1>4. v \in WorkerSteps /\ worker \in Workers
  BY DEF WorkerSteps, WorkerOK
<1>5. worker' = Goes(worker, v, Nothing)
  BY <1>3 DEF Goes
<1>6. worker' \in Workers /\ worker'.step = v /\ worker'.cmd = Nothing
  <2>1. Nothing \in Cmds
    BY NothingIsCommand
  <2>2. /\ Goes(worker, v, Nothing) \in Workers
        /\ Goes(worker, v, Nothing).step = v
        /\ Goes(worker, v, Nothing).cmd = Nothing
    BY <1>4, <2>1, WorkerStepCmd
  <2> QED BY <1>5, <2>2
<1>7. ~Flying'
  BY <1>6 DEF Flying
<1> QED BY <1>6, <1>7, NothingIsCommand, WorkerGoes

LEMMA RecordSettles == ASSUME Sound, Told, Record PROVE Sound' /\ Recording
<1> DEFINE n == worker.cmd.item
           a == <<n, worker.cmd.part>>
           asked == IF worker.cmd.kind = "answer" THEN {a} ELSE {n} \X Parts[n]
           t == RecordAnswer(mem, n, worker.answers, FALSE)
           u == [Without(mem, {n}) EXCEPT !.finished = @ \cup {n}]
<1>1. /\ worker.step = "record"
      /\ UpdateAndSave(IF worker.cmd.kind = "answer" THEN t ELSE u)
      /\ history' = Tell(worker.cmd, asked) /\ Answered(worker.cmd)
      /\ worker' = [worker EXCEPT !.step = Follows(worker.after), !.cmd = Nothing]
      /\ UNCHANGED <<inbox, provider, wire, left>>
  BY DEF Record
<1>2. Flying /\ worker.cmd.kind \in {"answer", "respond"} /\ n \in mem.notes
      /\ n \in Notes
  BY <1>1 DEF Sound, WorkerOK, Flying, Known
<1>3. /\ HandlerOK' /\ InboxOK' /\ WorkerOK' /\ WireOK' /\ ~Flying'
      /\ handler'.read = handler.read
  BY <1>1, <1>2, AnsweredIsHeard, HandlerHears, WorkerFollows
     DEF Sound, WireOK, InboxOK
<1>4. \A p \in Parts[n] : <<n, p>> \in Asked
  BY <1>2, AskedIs
<1>5. CASE worker.cmd.kind = "answer"
  <2>1. /\ worker.prompt = a /\ worker.cmd.part \in worker.answers
        /\ worker.answers \in SUBSET Parts[n]
        /\ {n} \X (worker.answers \ {worker.cmd.part}) \subseteq Settled(mem)
    BY <1>2, <1>5 DEF Sound, WorkerOK, Told
  <2>2. {n} \X worker.answers \subseteq Settled(mem) \cup {a}
        /\ a \in {n} \X worker.answers /\ a \in Asked
    BY <1>4, <2>1
  <2>3. /\ Good(t) /\ SameQueue(mem, t) /\ SameRequests(mem, t)
        /\ Settled(t) = Settled(mem) \cup ({n} \X worker.answers)
        /\ t.notes = mem.notes
    BY <1>2, <2>1, RecordNote DEF Sound
  <2> HIDE DEF t
  <2>4. mem' = t /\ disk' = Saved(mem') /\ Good(mem') /\ Good(disk')
    BY <1>1, <1>5, <2>3, SavedFollows
  <2>5. /\ history' \in Histories /\ history'.told \subseteq history.told \cup {a}
        /\ history'.sent = history.sent /\ history'.batch = history.batch
        /\ history'.doubt = history.doubt /\ history'.queued = history.queued
        /\ history'.declined = history.declined
        /\ history'.responses = history.responses
    BY <1>1, <1>5, <2>2, ToldIsKept
  <2>6. Sound'
    BY <1>1, <1>3, <2>3, <2>4, <2>5, SoundFollows DEF Sound
  <2>7. Recording
    BY <1>1, <1>3, <2>1, <2>2, <2>3, <2>4, <2>5 DEF Recording, SameQueue
  <2> QED BY <2>6, <2>7
<1>6. CASE worker.cmd.kind = "respond"
  <2>1. worker.prompt = Batch(n) /\ worker.prompt \notin Asked
    BY <1>2, <1>6, PromptKinds DEF Sound, WorkerOK
  <2>2. /\ Good(u) /\ SameQueue(mem, u) /\ SameRequests(mem, u)
        /\ Settled(u) = Settled(mem) \cup ({n} \X Parts[n])
        /\ u.notes = mem.notes
    BY <1>2, FinishGood DEF Sound
  <2> HIDE DEF u
  <2>3. mem' = u /\ disk' = Saved(mem') /\ Good(mem') /\ Good(disk')
    BY <1>1, <1>6, <2>2, SavedFollows
  <2>4. /\ history' \in Histories
        /\ history'.told \subseteq history.told \cup ({n} \X Parts[n])
        /\ history'.sent = history.sent /\ history'.batch = history.batch
        /\ history'.doubt = history.doubt /\ history'.queued = history.queued
        /\ history'.declined = history.declined
        /\ history'.responses = history.responses
    <3>1. {n} \X Parts[n] \in SUBSET Asked
      BY <1>4
    <3>2. history' = Tell(worker.cmd, {n} \X Parts[n])
      BY <1>1, <1>6
    <3> QED BY <3>1, <3>2, ToldIsKept
  <2>5. Sound'
    BY <1>1, <1>3, <2>2, <2>3, <2>4, SoundFollows DEF Sound
  <2>6. Recording
    BY <1>1, <1>3, <1>6, <2>1, <2>2, <2>3, <2>4 DEF Recording, SameQueue
  <2> QED BY <2>5, <2>6
<1> QED BY <1>2, <1>5, <1>6

-----------------------------------------------------------------------------
(* An event is read *)

SameWorker ==
  /\ worker'.step = worker.step /\ worker'.cmd = worker.cmd
  /\ worker'.answers = worker.answers /\ worker'.prompt = worker.prompt

Reading ==
  /\ wire # <<>> /\ wire' = Tail(wire) /\ Head(wire).kind # "reply"
  /\ Alike(mem, mem') /\ Applied(mem, Head(wire), mem') /\ disk' = disk
  /\ SameWorker
  /\ UNCHANGED <<handler, provider, history>>

LEMMA EventsAreRead ==
  ASSUME Sound, Replies, LoopEvent \/ StoppingEvent \/ CallEvent
  PROVE  Sound' /\ Reading
<1>1. /\ wire # <<>> /\ wire' = Tail(wire)
      /\ Update(ApplyEvent(mem, Head(wire)))
      /\ UNCHANGED <<handler, inbox, provider, left, history>>
  BY DEF LoopEvent, StoppingEvent, CallEvent, Apply
<1>2. GoodEvent(Head(wire)) /\ WireOK' /\ Head(wire) = wire[1] /\ 1 \in DOMAIN wire
  BY <1>1, HeadEvent DEF Sound
<1>3. Head(wire).kind # "reply"
  <2>1. CASE CallEvent
    BY <2>1 DEF CallEvent
  <2>2. CASE LoopEvent \/ StoppingEvent
    <3>1. worker.step # "calling"
      BY <2>2 DEF LoopEvent, StoppingEvent
    <3>2. provider.call # "taken"
      BY <3>1 DEF Replies
    <3> QED BY <1>2, <3>2 DEF Replies, IsReply
  <2> QED BY <2>1, <2>2
<1> DEFINE t == ApplyEvent(mem, Head(wire))
<1>4. /\ Good(t) /\ Alike(mem, t) /\ Applied(mem, Head(wire), t)
      /\ mem.notes \subseteq t.notes
  BY <1>2, <1>3, EventGood DEF Sound
<1> HIDE DEF t
<1>5. mem' = t /\ disk' = disk
  BY <1>1 DEF Update, t
<1>6. worker' = worker \/ worker' = [worker EXCEPT !.changed = TRUE]
  BY DEF LoopEvent, StoppingEvent, CallEvent
<1>7. worker \in Workers /\ TRUE \in BOOLEAN
  BY DEF Sound, WorkerOK
<1>8. [worker EXCEPT !.changed = TRUE] \in Workers
  BY <1>7, Zenon DEF Workers
<1>9. /\ worker' \in Workers /\ SameWorker /\ worker'.after = worker.after
  BY <1>6, <1>7, <1>8 DEF Workers, SameWorker
<1>10. WorkerOK' /\ (Flying' <=> Flying)
  BY <1>9 DEF Sound, WorkerOK, SameWorker, Flying
<1>11. HandlerOK' /\ InboxOK'
  BY <1>1 DEF Sound, HandlerOK, InboxOK
<1>12. Sound'
  BY <1>1, <1>2, <1>4, <1>5, <1>9, <1>10, <1>11, SoundFollows
     DEF Sound, SameWorker
<1>13. Reading
  BY <1>1, <1>3, <1>4, <1>5, <1>9 DEF Reading
<1> QED BY <1>12, <1>13

-----------------------------------------------------------------------------
(* The loop takes a command *)

\* A question of a request is answered, or the response is written: to a
\* request in the panel that has none.
Responding ==
  /\ ~Flying /\ ~Flying'
  /\ Settled(mem') = Settled(mem)
  /\ mem'.queue = mem.queue /\ mem'.unsent = mem.unsent
  /\ mem'.panel = mem.panel /\ mem'.turn = mem.turn
  /\ DiskFollows /\ handler'.read = handler.read
  /\ history'.told = history.told
  /\ history'.sent = history.sent /\ history'.batch = history.batch
  /\ history'.doubt = history.doubt
  /\ history'.declined = history.declined /\ history'.queued = history.queued
  /\ \E r \in Requests :
       /\ r \in mem.panel /\ r \notin mem.responded
       /\ \/ mem'.responded = mem.responded
             /\ history'.responses = history.responses
          \/ mem'.responded = mem.responded \cup {r}
             /\ history'.responses
                  = [history.responses EXCEPT ![r] = @ + 1]
  /\ UNCHANGED <<wire, provider>>

LEMMA Responds ==
  ASSUME Sound, NEW r \in Requests, Respond(r)
  PROVE  /\ history' \in Histories
         /\ history'.responses = [history.responses EXCEPT ![r] = @ + 1]
         /\ history'.told = history.told
         /\ history'.sent = history.sent /\ history'.batch = history.batch
         /\ history'.doubt = history.doubt
         /\ history'.declined = history.declined
         /\ history'.queued = history.queued
BY DEF Sound, Histories, Respond

\* The response to a request is given as a whole.
LEMMA RespondedGood ==
  ASSUME NEW s, Good(s), NEW r \in Requests
  PROVE  LET t == [s EXCEPT !.responded = @ \cup {r}]
         IN  /\ Good(t) /\ Settled(t) = Settled(s) /\ t.panel = s.panel
             /\ t.queue = s.queue /\ t.unsent = s.unsent /\ t.turn = s.turn
             /\ t.notes = s.notes /\ t.responded = s.responded \cup {r}
<1> DEFINE all == s.responded \cup {r}
           t == [s EXCEPT !.responded = all]
<1>1. s \in Session
  BY DEF Good
<1>2. all \in SUBSET Requests
  BY <1>1 DEF Session
<1> HIDE DEF all
<1>3. t \in Session
  BY <1>1, <1>2, Zenon DEF Session
<1>4. /\ t.panel = s.panel /\ t.answers = s.answers /\ t.finished = s.finished
      /\ t.queue = s.queue /\ t.unsent = s.unsent /\ t.turn = s.turn
      /\ t.notes = s.notes /\ t.responded = all /\ t.status = s.status
  BY <1>1 DEF Session
<1> HIDE DEF t
<1>5. Good(t) /\ Alike(s, t)
  BY <1>3, <1>4, StatusOnly DEF Active
<1>6. t = [s EXCEPT !.responded = @ \cup {r}]
  BY DEF t, all
<1> QED BY <1>4, <1>5, <1>6 DEF Alike, all

LEMMA CommandRecordsResponds ==
  ASSUME Sound, LoopCommand, CommandRecords(Head(inbox))
  PROVE  Sound' /\ Responding
<1> DEFINE c == Head(inbox)
           i == c.item
           given == mem.answers[i] \cup {c.part}
           all == given = Parts[i]
           t == RecordAnswer(mem, i, given, all)
           u == [mem EXCEPT !.responded = @ \cup {i}]
<1>1. /\ worker.step = "loop" /\ inbox # <<>> /\ inbox' = Tail(inbox)
      /\ Fits(c) /\ ~Sends(c) /\ Answered(c)
      /\ worker' = [worker EXCEPT !.step = "tidy"]
      /\ UNCHANGED <<wire, left, provider>>
  BY DEF LoopCommand, CommandRecords
<1>2. \/ /\ c.kind # "respond" /\ UpdateAndSave(t)
         /\ IF all THEN Respond(i) ELSE UNCHANGED history
      \/ c.kind = "respond" /\ Update(u) /\ Respond(i)
  BY DEF CommandRecords
<1>3. /\ HandlerOK' /\ InboxOK' /\ WireOK' /\ handler'.read = handler.read
      /\ WorkerCommand(c) /\ c.kind # "none"
  BY <1>1, AnsweredIsHeard, HandlerHears, HeadCommand DEF Sound, WireOK
<1>4. WorkerOK' /\ ~Flying /\ ~Flying'
  BY <1>1, WorkerGoesOn DEF Sound
<1>5. Good(mem) /\ mem.panel \subseteq Items
  BY DEF Sound, Good, Session
<1>6. CASE c.kind = "respond"
  <2>1. i \in mem.panel /\ i \in Requests /\ i \notin mem.responded
    BY <1>1, <1>5, <1>6, FitsOf DEF Sends, CanRespond, Items
  <2>2. /\ Good(u) /\ Settled(u) = Settled(mem) /\ u.panel = mem.panel
        /\ u.queue = mem.queue /\ u.unsent = mem.unsent /\ u.turn = mem.turn
        /\ u.notes = mem.notes /\ u.responded = mem.responded \cup {i}
    BY <1>5, <2>1, RespondedGood
  <2> HIDE DEF u
  <2>3. mem' = u /\ disk' = disk /\ Good(mem') /\ Good(disk') /\ Respond(i)
    BY <1>2, <1>6, <2>2 DEF Update, Sound
  <2>4. /\ history' \in Histories
        /\ history'.responses = [history.responses EXCEPT ![i] = @ + 1]
        /\ history'.told = history.told
        /\ history'.sent = history.sent /\ history'.batch = history.batch
        /\ history'.doubt = history.doubt
        /\ history'.declined = history.declined
        /\ history'.queued = history.queued
    BY <2>1, <2>3, Responds
  <2>5. Sound'
    BY <1>1, <1>3, <1>4, <2>2, <2>3, <2>4, SoundFollows DEF Sound
  <2>6. Responding
    BY <1>1, <1>3, <1>4, <2>1, <2>2, <2>3, <2>4 DEF Responding, DiskFollows
  <2> QED BY <2>5, <2>6
<1>7. CASE c.kind # "respond"
  <2>1. c.kind \in {"answer", "skip"} /\ c \in Cmds
    BY <1>1, <1>3, <1>7 DEF WorkerCommand, GoodCommand, Cmds, Sends, Fits
  <2>2. CanAnswer(mem, i, c.part) /\ i \in Items
    BY <1>1, <1>3, <2>1, FitsOf DEF WorkerCommand, GoodCommand
  <2>3. i \in Requests
    BY <1>1, <1>3, <2>1, <2>2 DEF WorkerCommand, Sends, Items
  <2>4. /\ i \in mem.panel /\ i \notin mem.responded /\ i \in Requests \cap mem.panel
        /\ c.part \in Parts[i]
    BY <2>2, <2>3, QuestionsAssumption DEF CanAnswer, Unanswered
  <2>5. given \in SUBSET Parts[i]
    BY <1>5, <2>4, <2>2 DEF Good
  <2>6. all \in BOOLEAN
    OBVIOUS
  <2> HIDE DEF given, all
  <2>7. /\ Good(t) /\ SameQueue(mem, t) /\ Settled(t) = Settled(mem)
        /\ t.panel = mem.panel /\ t.notes = mem.notes
        /\ t.responded = IF all THEN mem.responded \cup {i}
                         ELSE mem.responded \ {i}
    BY <1>5, <2>4, <2>5, <2>6, RecordRequest
  <2> HIDE DEF t
  <2>8. mem' = t /\ disk' = Saved(mem') /\ Good(mem') /\ Good(disk')
    BY <1>2, <1>7, <2>7, SavedFollows
  <2>9. IF all THEN Respond(i) ELSE UNCHANGED history
    BY <1>2, <1>7
  <2>10. /\ history' \in Histories /\ history'.told = history.told
         /\ history'.sent = history.sent /\ history'.batch = history.batch
         /\ history'.doubt = history.doubt
         /\ history'.declined = history.declined
         /\ history'.queued = history.queued
         /\ history'.responses =
              IF all THEN [history.responses EXCEPT ![i] = @ + 1]
              ELSE history.responses
    <3>1. CASE all
      BY <2>3, <2>9, <3>1, Responds
    <3>2. CASE ~all
      BY <2>9, <3>2 DEF Sound
    <3> QED BY <3>1, <3>2
  <2>11. Sound'
    BY <1>1, <1>3, <1>4, <2>7, <2>8, <2>10, SoundFollows DEF Sound
  <2>12. mem'.responded = IF all THEN mem.responded \cup {i} ELSE mem.responded
    BY <2>4, <2>7, <2>8
  <2>13. Responding
    BY <1>1, <1>3, <1>4, <2>4, <2>7, <2>8, <2>10, <2>12
       DEF Responding, SameQueue, DiskFollows
  <2> QED BY <2>11, <2>13
<1> QED BY <1>6, <1>7

\* What one command of the loop can do.
LEMMA LoopCommandIs ==
  ASSUME Sound, LoopCommand PROVE Sound' /\ (Launch \/ Responding \/ Calm)
<1> DEFINE c == Head(inbox)
<1>1. /\ worker.step = "loop" /\ inbox # <<>> /\ inbox' = Tail(inbox)
      /\ UNCHANGED <<wire, left>>
  BY DEF LoopCommand
<1>2. WorkerCommand(c) /\ InboxOK' /\ ~Flying
  BY <1>1, HeadCommand DEF Sound, Flying
<1>3. CASE CommandSends(c, "command")
  BY <1>1, <1>2, <1>3, CommandSendsSound
<1>4. CASE CommandRecords(c)
  BY <1>4, CommandRecordsResponds
<1>5. CASE /\ Answered(c) /\ worker' = [worker EXCEPT !.step = "tidy"]
           /\ UNCHANGED <<mem, disk, provider, history>>
  <2>1. HandlerOK' /\ handler'.read = handler.read
    BY <1>5, AnsweredIsHeard, HandlerHears DEF Sound
  <2>2. WorkerOK' /\ ~Flying'
    BY <1>1, <1>5, WorkerGoesOn DEF Sound
  <2>3. Calm
    BY <1>1, <1>2, <1>5, <2>1, <2>2, SameRecord DEF Calm
  <2> QED BY <1>1, <1>2, <1>5, <2>1, <2>2, <2>3, SameRecord, CalmIsSound
             DEF Sound
<1> QED BY <1>3, <1>4, <1>5 DEF LoopCommand

-----------------------------------------------------------------------------
(* The worker ends, or stops its provider *)

\* Nothing is left on the wire, no turn runs and no request is in the panel.
Cut ==
  /\ wire' = <<>> /\ provider'.turn = 0 /\ provider'.open = {}
  /\ provider'.call = "none" /\ provider'.asked = provider.asked
  /\ NoRequests(mem') /\ ~Flying' /\ worker'.step # "record"
  /\ history'.told = history.told /\ history'.sent = history.sent
  /\ history'.batch = history.batch /\ history'.declined = history.declined
  /\ history'.queued = history.queued
  /\ history'.responses = history.responses
  /\ history.doubt \subseteq history'.doubt
  /\ Flying => worker.prompt \in history'.doubt

Dying ==
  /\ Cut
  /\ Alike(mem, mem') /\ disk' = Saved(mem') /\ handler'.read = handler.read

\* What a call that is cut off leaves of its message.
LEMMA DoubtIs ==
  ASSUME Sound,
         history' = IF Flying
                    THEN [history EXCEPT !.doubt = @ \cup {worker.prompt}]
                    ELSE history
  PROVE  /\ history' \in Histories
         /\ history'.told = history.told /\ history'.sent = history.sent
         /\ history'.batch = history.batch
         /\ history'.declined = history.declined
         /\ history'.queued = history.queued
         /\ history'.responses = history.responses
         /\ history.doubt \subseteq history'.doubt
         /\ Flying => worker.prompt \in history'.doubt
<1>1. worker.prompt \in Prompts
  BY DEF Sound, WorkerOK, Workers
<1> QED BY <1>1 DEF Sound, Histories

LEMMA WorkerDiesDies ==
  ASSUME Sound, WorkerDies, left' \in [asks : Nat, says : Nat, faults : Nat],
         history' = IF Flying
                    THEN [history EXCEPT !.doubt = @ \cup {worker.prompt}]
                    ELSE history
  PROVE  Sound' /\ Dying
<1>1. /\ UpdateAndSave(WorkerEnded(mem)) /\ worker' = Idle /\ Disconnected
      /\ Heard
  BY DEF WorkerDies, Heard
<1>2. /\ Good(WorkerEnded(mem)) /\ Alike(mem, WorkerEnded(mem))
      /\ NoRequests(WorkerEnded(mem)) /\ WorkerEnded(mem).notes = mem.notes
  BY WorkerEndedGood DEF Sound
<1>3. /\ mem' = WorkerEnded(mem) /\ disk' = Saved(mem')
      /\ Good(mem') /\ Good(disk')
  BY <1>1, <1>2, SavedFollows
<1>4. HandlerOK' /\ handler'.read = handler.read
  BY <1>1, HandlerHears DEF Sound
<1>5. WorkerOK' /\ ~Flying' /\ worker'.step # "record"
  BY <1>1, WorkerIsOff, IdleWorker
<1>6. /\ provider' \in Providers /\ InboxOK' /\ WireOK' /\ wire' = <<>>
      /\ provider'.turn = 0 /\ provider'.open = {} /\ provider'.call = "none"
      /\ provider'.asked = provider.asked
  BY <1>1, ProviderIsOff DEF Sound
<1>7. /\ history' \in Histories
      /\ history'.told = history.told /\ history'.sent = history.sent
      /\ history'.batch = history.batch
      /\ history'.declined = history.declined
      /\ history'.queued = history.queued
      /\ history'.responses = history.responses
      /\ history.doubt \subseteq history'.doubt
      /\ Flying => worker.prompt \in history'.doubt
  BY DoubtIs
<1>8. Sound'
  BY <1>2, <1>3, <1>4, <1>5, <1>6, <1>7, SoundFollows
<1>9. Cut
  BY <1>2, <1>3, <1>5, <1>6, <1>7 DEF Cut
<1> QED BY <1>2, <1>3, <1>4, <1>8, <1>9 DEF Dying

LEMMA WorkerFailsDies == ASSUME Sound, WorkerFails PROVE Sound' /\ Dying
<1>1. left' \in [asks : Nat, says : Nat, faults : Nat]
  BY FaultIsLeft DEF Sound, WorkerFails
<1> QED BY <1>1, WorkerDiesDies DEF WorkerFails, Flying

\* The initial command of a worker.
LEMMA InitialIs ==
  ASSUME Sound, Initial PROVE Sound' /\ (Launch \/ Dying \/ Calm)
<1>1. worker.step = "initial" /\ UNCHANGED left
  BY DEF Initial
<1>2. ~Flying /\ WorkerCommand(worker.cmd) /\ worker \in Workers
      /\ "queue" \in WorkerSteps
  BY <1>1 DEF Flying, Sound, WorkerOK, WorkerSteps
<1>3. CASE /\ worker.cmd = Nothing /\ worker' = [worker EXCEPT !.step = "queue"]
           /\ UNCHANGED <<mem, disk, handler, inbox, provider, wire, history>>
  <2>1. worker' \in Workers /\ worker'.step = "queue" /\ worker'.cmd = worker.cmd
    BY <1>2, <1>3, WorkerStep
  <2>2. ~Flying'
    BY <2>1 DEF Flying
  <2>3. WorkerOK'
    BY <1>2, <1>3, <2>1, <2>2, NothingIsCommand, WorkerGoes
  <2> QED BY <1>1, <1>2, <1>3, <2>2, <2>3, SameRecord, WorkerCalm
<1>4. CASE CommandSends(worker.cmd, "initial") /\ UNCHANGED <<inbox, wire>>
  <2>1. InboxOK'
    BY <1>4 DEF Sound, InboxOK
  <2> QED BY <1>1, <1>2, <1>4, <2>1, CommandSendsSound
<1>5. CASE WorkerDies /\ UNCHANGED history
  BY <1>1, <1>2, <1>5, WorkerDiesDies DEF Sound
<1> QED BY <1>3, <1>4, <1>5 DEF Initial

\* The provider is stopped to switch the workspace, with its turn over.
Halting ==
  /\ Cut /\ ~Flying
  /\ Alike(mem, mem') /\ DiskFollows /\ handler'.read = handler.read
  /\ mem'.turn = 0

LEMMA StoppedHalts == ASSUME Sound, Turns, Stopped PROVE Sound' /\ Halting
<1> DEFINE t == [mem EXCEPT !.status = "Starting", !.ready = TRUE]
<1>1. /\ worker.step = "stopping" /\ mem.turn = 0
      /\ UpdateAndSave(t)
      /\ worker' = [worker EXCEPT !.step = "guide", !.after = "switched"]
      /\ wire' = <<>>
      /\ provider' = [provider EXCEPT !.turn = 0, !.open = {}, !.call = "none"]
      /\ UNCHANGED <<handler, inbox, left, history>>
  BY DEF Stopped
<1>2. mem \in Session /\ worker \in Workers /\ provider \in Providers
      /\ worker.cmd.kind = "none" /\ WorkerCommand(worker.cmd)
  BY <1>1 DEF Sound, Good, WorkerOK
<1>3. Restated(t)
  BY <1>2, FlagsRestated
<1> HIDE DEF t
<1>4. /\ Alike(mem, mem') /\ SameRequests(mem, mem')
      /\ mem.notes \subseteq mem'.notes /\ DiskFollows
      /\ Good(mem') /\ Good(disk')
  BY <1>1, <1>3, StatusWritten
<1>5. "guide" \in WorkerSteps
  BY DEF WorkerSteps
<1>6. worker' \in Workers
  BY <1>1, <1>2, <1>5, Zenon DEF Workers
<1>7. worker'.step = "guide" /\ worker'.cmd = worker.cmd
  BY <1>1, <1>2 DEF Workers
<1>8. ~Flying /\ ~Flying' /\ worker'.step # "record"
  BY <1>1, <1>7 DEF Flying
<1>9. WorkerOK'
  BY <1>2, <1>6, <1>7, <1>8, WorkerGoes
<1>10. /\ provider' \in Providers /\ provider'.turn = 0 /\ provider'.open = {}
       /\ provider'.call = "none" /\ provider'.asked = provider.asked
  <2>1. 0 \in 0..MaxTurns
    BY QuestionsAssumption
  <2>2. provider' \in Providers
    BY <1>1, <1>2, <2>1 DEF Providers
  <2> QED BY <1>1, <1>2, <2>2 DEF Providers
<1>11. HandlerOK' /\ InboxOK' /\ WireOK'
  BY <1>1 DEF Sound, HandlerOK, InboxOK, WireOK
<1>12. Sound'
  BY <1>1, <1>4, <1>8, <1>9, <1>10, <1>11, SoundFollows DEF Sound
<1>13. NoRequests(mem') /\ mem'.turn = 0
  BY <1>1, <1>4 DEF NoRequests, SameRequests, Turns
<1>14. Halting
  BY <1>1, <1>4, <1>8, <1>10, <1>13 DEF Halting, Cut
<1> QED BY <1>12, <1>14

\* The service restarts with what was saved.
Restarting ==
  /\ Cut
  /\ Alike(disk, mem') /\ disk' = mem' /\ handler'.read = NewSession

LEMMA RestartRestarts == ASSUME Sound, Restart PROVE Sound' /\ Restarting
<1>1. /\ Fault /\ mem' = AfterRestart(disk) /\ disk' = mem' /\ Disconnected
      /\ Done
  BY DEF Restart
<1>2. Good(mem') /\ Alike(disk, mem') /\ NoRequests(mem')
  BY <1>1, AfterRestartGood DEF Sound
<1>3. HandlerOK' /\ handler'.read = NewSession
  BY <1>1, HandlerIsDone DEF Done
<1>4. /\ provider' \in Providers /\ InboxOK' /\ WireOK' /\ wire' = <<>>
      /\ provider'.turn = 0 /\ provider'.open = {} /\ provider'.call = "none"
      /\ provider'.asked = provider.asked
  BY <1>1, ProviderIsOff DEF Sound
<1>5. WorkerOK' /\ ~Flying' /\ worker'.step # "record"
  <2> DEFINE resume == [Nothing EXCEPT !.kind = "resume"]
  <2>1. CASE worker' = Idle
    BY <2>1, WorkerIsOff, IdleWorker
  <2>2. CASE worker' = [Idle EXCEPT !.step = "guide", !.cmd = resume]
    <3>1. resume \in Cmds /\ WorkerCommand(resume)
      BY DEF Cmds, WorkerCommand, GoodCommand, Nothing
    <3> HIDE DEF resume
    <3>2. "guide" \in WorkerSteps
      BY DEF WorkerSteps
    <3>3. worker' = Goes(Idle, "guide", resume)
      BY <2>2 DEF Goes
    <3>4. /\ Goes(Idle, "guide", resume) \in Workers
          /\ Goes(Idle, "guide", resume).step = "guide"
          /\ Goes(Idle, "guide", resume).cmd = resume
          /\ Goes(Idle, "guide", resume).after = "none"
      BY <3>1, <3>2, IdleWorker, WorkerStepCmd
    <3>5. ~Flying' /\ worker'.step # "record"
      BY <3>3, <3>4 DEF Flying
    <3> QED BY <3>1, <3>3, <3>4, <3>5, WorkerGoes
  <2> QED BY <2>1, <2>2 DEF Restart
<1>6. /\ history' \in Histories
      /\ history'.told = history.told /\ history'.sent = history.sent
      /\ history'.batch = history.batch
      /\ history'.declined = history.declined
      /\ history'.queued = history.queued
      /\ history'.responses = history.responses
      /\ history.doubt \subseteq history'.doubt
      /\ Flying => worker.prompt \in history'.doubt
  <2>1. history' = IF Flying
                   THEN [history EXCEPT !.doubt = @ \cup {worker.prompt}]
                   ELSE history
    BY DEF Restart, Flying
  <2> QED BY <2>1, DoubtIs
<1>7. left' \in [asks : Nat, says : Nat, faults : Nat]
  BY <1>1, FaultIsLeft DEF Sound
<1>8. Known'
  BY <1>3, <1>5, NewSessionGood DEF Known
<1>9. Sound'
  BY <1>1, <1>2, <1>3, <1>4, <1>5, <1>6, <1>7, <1>8 DEF Sound
<1>10. Cut
  BY <1>2, <1>4, <1>5, <1>6 DEF Cut
<1> QED BY <1>1, <1>2, <1>3, <1>9, <1>10 DEF Restarting

-----------------------------------------------------------------------------
(* A call ends *)

\* What is at k is gone from the wire.
Drops(k) ==
  /\ k \in DOMAIN wire /\ DOMAIN wire = 1..Len(wire) /\ Len(wire) \in Nat
  /\ DOMAIN wire' = 1..(Len(wire) - 1) /\ Len(wire') = Len(wire) - 1
  /\ \A j \in DOMAIN wire' : wire'[j] = IF j < k THEN wire[j] ELSE wire[j + 1]

LosesReply(k) == Drops(k) /\ IsReply(k)

LEMMA HeadIsDropped ==
  ASSUME WireOK, wire # <<>>, wire' = Tail(wire)
  PROVE  Drops(1) /\ WireOK' /\ GoodEvent(wire[1]) /\ Head(wire) = wire[1]
<1>1. /\ Head(wire) = wire[1] /\ 1 \in DOMAIN wire
      /\ DOMAIN wire' = 1..(Len(wire) - 1) /\ DOMAIN wire = 1..Len(wire)
      /\ \A k \in DOMAIN wire' : wire'[k] = wire[k + 1]
      /\ GoodEvent(wire[1]) /\ WireOK' /\ Len(wire) \in Nat \ {0}
  BY HeadEvent
<1>2. Len(wire') = Len(wire) - 1 /\ \A j \in DOMAIN wire' : ~(j < 1)
  BY <1>1 DEF WireOK
<1> QED BY <1>1, <1>2 DEF Drops

LEMMA HeadIsLost ==
  ASSUME WireOK, wire # <<>>, Head(wire).kind = "reply", wire' = Tail(wire)
  PROVE  LosesReply(1) /\ WireOK' /\ GoodEvent(wire[1]) /\ Head(wire) = wire[1]
BY HeadIsDropped DEF LosesReply, IsReply

LEMMA RemovedIsLost ==
  ASSUME WireOK, NEW k \in DOMAIN wire, wire[k].kind = "reply",
         wire' = RemoveAt(wire, k)
  PROVE  LosesReply(k) /\ WireOK'
<1>1. wire \in Seq(Events) /\ k \in 1..Len(wire) /\ Len(wire) \in Nat
  BY DEF WireOK
<1> DEFINE a == SubSeq(wire, 1, k - 1)
           b == SubSeq(wire, k + 1, Len(wire))
<1>2. /\ a \in Seq(Events) /\ Len(a) = k - 1
      /\ \A j \in 1..(k - 1) : a[j] = wire[j]
  BY <1>1
<1>3. /\ b \in Seq(Events) /\ Len(b) = Len(wire) - k
      /\ \A j \in 1..(Len(wire) - k) : b[j] = wire[k + j]
  BY <1>1
<1>4. wire' = a \o b
  BY DEF RemoveAt
<1> HIDE DEF a, b
<1>5. /\ wire' \in Seq(Events) /\ Len(wire') = Len(wire) - 1
      /\ DOMAIN wire' = 1..(Len(wire) - 1)
  BY <1>1, <1>2, <1>3, <1>4
<1>6. \A j \in DOMAIN wire' : wire'[j] = IF j < k THEN wire[j] ELSE wire[j + 1]
  <2> SUFFICES ASSUME NEW j \in 1..(Len(wire) - 1)
               PROVE  wire'[j] = IF j < k THEN wire[j] ELSE wire[j + 1]
    BY <1>5
  <2>1. CASE j < k
    <3>1. wire'[j] = a[j]
      BY <1>1, <1>2, <1>3, <1>4, <2>1
    <3> QED BY <1>1, <1>2, <2>1, <3>1
  <2>2. CASE ~(j < k)
    <3>1. wire'[j] = b[j - (k - 1)]
      BY <1>1, <1>2, <1>3, <1>4, <2>2
    <3>2. j - (k - 1) \in 1..(Len(wire) - k) /\ k + (j - (k - 1)) = j + 1
      BY <1>1, <2>2
    <3> QED BY <1>3, <2>2, <3>1, <3>2
  <2> QED BY <2>1, <2>2
<1>7. \A j \in DOMAIN wire' : GoodEvent(wire'[j])
  BY <1>1, <1>5, <1>6 DEF WireOK
<1> QED BY <1>1, <1>5, <1>6, <1>7 DEF LosesReply, Drops, IsReply, WireOK

\* The provider is as it was, and no call is pending.
CallIsOver ==
  /\ provider'.call = "none" /\ provider'.turn = provider.turn
  /\ provider'.open = provider.open /\ provider'.asked = provider.asked

LEMMA CallEnds ==
  ASSUME provider \in Providers, provider' = [provider EXCEPT !.call = "none"]
  PROVE  provider' \in Providers /\ CallIsOver
BY DEF Providers, CallIsOver

Accepting ==
  /\ worker.step = "calling" /\ LosesReply(1) /\ wire[1].outcome = "ok"
  /\ Settled(mem') = Settled(mem) /\ mem'.queue = mem.queue
  /\ mem'.unsent = mem.unsent \ {worker.prompt}
  /\ mem'.panel = mem.panel /\ mem'.responded = mem.responded
  /\ mem.turn # 0 => mem'.turn # 0
  /\ disk' = Saved(mem') /\ handler'.read = handler.read
  /\ CallIsOver /\ UNCHANGED history
  /\ \/ worker.cmd.kind \in {"answer", "respond"} /\ worker'.step = "record"
        /\ worker'.cmd = worker.cmd /\ worker'.answers = worker.answers
        /\ worker'.prompt = worker.prompt
     \/ worker.cmd.kind \notin {"answer", "respond"} /\ ~Flying'

LEMMA CallAcceptedAccepts == ASSUME Sound, CallAccepted PROVE Sound' /\ Accepting
<1> DEFINE t == Acknowledged(mem, worker.prompt, Head(wire).turn)
<1>1. /\ worker.step = "calling" /\ wire # <<>> /\ Head(wire).kind = "reply"
      /\ Head(wire).outcome = "ok" /\ wire' = Tail(wire)
      /\ provider' = [provider EXCEPT !.call = "none"]
      /\ UpdateAndSave(t) /\ UNCHANGED <<inbox, left, history>>
  BY DEF CallAccepted, Replied
<1>2. /\ LosesReply(1) /\ WireOK' /\ GoodEvent(Head(wire)) /\ Head(wire) = wire[1]
  BY <1>1, HeadIsLost DEF Sound
<1>3. Head(wire).turn \in 0..MaxTurns /\ Head(wire).turn # 0
  BY <1>1, <1>2 DEF GoodEvent, Events
<1>4. worker.prompt \in Prompts /\ Flying
  BY <1>1 DEF Sound, WorkerOK, Workers, Flying
<1>5. /\ Good(t) /\ Settled(t) = Settled(mem)
      /\ t.panel = mem.panel /\ t.responded = mem.responded
      /\ t.turn = IF Head(wire).turn # mem.done THEN Head(wire).turn ELSE mem.turn
      /\ t.queue = mem.queue /\ t.unsent = mem.unsent \ {worker.prompt}
      /\ t.notes = mem.notes
  BY <1>3, <1>4, AcknowledgedGood DEF Sound
<1> HIDE DEF t
<1>6. mem' = t /\ disk' = Saved(mem') /\ Good(mem') /\ Good(disk')
  BY <1>1, <1>5, SavedFollows
<1>7. provider' \in Providers /\ CallIsOver
  BY <1>1, CallEnds DEF Sound
<1>8. InboxOK'
  BY <1>1 DEF Sound, InboxOK
<1>9. CASE worker.cmd.kind \in {"answer", "respond"}
  <2>1. worker' = [worker EXCEPT !.step = "record"] /\ UNCHANGED handler
    BY <1>9 DEF CallAccepted
  <2>2. worker \in Workers /\ "record" \in WorkerSteps
    BY DEF Sound, WorkerOK, WorkerSteps
  <2>3. /\ worker' \in Workers /\ worker'.step = "record"
        /\ worker'.cmd = worker.cmd /\ worker'.after = worker.after
        /\ worker'.answers = worker.answers /\ worker'.prompt = worker.prompt
    BY <2>1, <2>2, WorkerStep
  <2>4. WorkerOK' /\ Flying'
    BY <1>4, <1>9, <2>3 DEF Sound, WorkerOK, Flying
  <2>5. HandlerOK'
    BY <2>1 DEF Sound, HandlerOK
  <2>6. Sound'
    BY <1>1, <1>2, <1>4, <1>5, <1>6, <1>7, <1>8, <2>1, <2>3, <2>4, <2>5,
       SoundFollows DEF Sound
  <2>7. Accepting
    BY <1>1, <1>2, <1>3, <1>5, <1>6, <1>7, <1>9, <2>1, <2>3 DEF Accepting
  <2> QED BY <2>6, <2>7
<1>10. CASE worker.cmd.kind \notin {"answer", "respond"}
  <2>1. /\ worker' = [worker EXCEPT !.step = Follows(worker.after),
                                    !.cmd = Nothing]
        /\ Answered(worker.cmd)
    BY <1>10 DEF CallAccepted
  <2>2. WorkerOK' /\ ~Flying'
    BY <1>4, <2>1, WorkerFollows DEF Sound
  <2>3. HandlerOK' /\ handler'.read = handler.read
    BY <2>1, AnsweredIsHeard, HandlerHears DEF Sound
  <2>4. Sound'
    BY <1>1, <1>2, <1>5, <1>6, <1>7, <1>8, <2>2, <2>3, SoundFollows DEF Sound
  <2>5. Accepting
    BY <1>1, <1>2, <1>3, <1>5, <1>6, <1>7, <1>10, <2>2, <2>3 DEF Accepting
  <2> QED BY <2>4, <2>5
<1> QED BY <1>9, <1>10

\* The message is not known to be accepted: it was refused, or it is in doubt.
Failing ==
  /\ worker.step = "calling" /\ ~Flying'
  /\ UNCHANGED <<mem, disk>> /\ handler'.read = handler.read
  /\ CallIsOver
  /\ (\E k \in DOMAIN wire : LosesReply(k))
     \/ ((\A k \in DOMAIN wire : ~IsReply(k)) /\ UNCHANGED wire)
  /\ history'.told = history.told /\ history'.sent = history.sent
  /\ history'.batch = history.batch /\ history'.declined = history.declined
  /\ history'.queued = history.queued
  /\ history'.responses = history.responses
  /\ history.doubt \subseteq history'.doubt
  /\ \/ worker.prompt \in history'.doubt
     \/ \E k \in DOMAIN wire : IsReply(k) /\ wire[k].outcome = "error"

\* Of a command that fails in the loop.
LEMMA FailsSurvives ==
  ASSUME Sound, Fails, worker.after = "command"
  PROVE  /\ UNCHANGED <<mem, disk, inbox>> /\ WorkerOK' /\ ~Flying'
         /\ HandlerOK' /\ handler'.read = handler.read
<1>1. /\ UNCHANGED <<mem, disk, inbox>> /\ Answered(worker.cmd)
      /\ worker' = Goes(worker, "tidy", Nothing)
  BY DEF Fails, Goes
<1>2. "tidy" \in WorkerSteps /\ worker \in Workers /\ Nothing \in Cmds
  BY NothingIsCommand DEF WorkerSteps, Sound, WorkerOK
<1>3. /\ Goes(worker, "tidy", Nothing) \in Workers
      /\ Goes(worker, "tidy", Nothing).step = "tidy"
      /\ Goes(worker, "tidy", Nothing).cmd = Nothing
  BY <1>2, WorkerStepCmd
<1>4. ~Flying'
  BY <1>1, <1>3 DEF Flying
<1>5. WorkerOK'
  BY <1>1, <1>3, <1>4, NothingIsCommand, WorkerGoes
<1>6. HandlerOK' /\ handler'.read = handler.read
  BY <1>1, AnsweredIsHeard, HandlerHears DEF Sound
<1> QED BY <1>1, <1>4, <1>5, <1>6

LEMMA CallRefusedFails == ASSUME Sound, CallRefused PROVE Sound' /\ Failing
<1>1. /\ worker.step = "calling" /\ wire # <<>> /\ Head(wire).kind = "reply"
      /\ Head(wire).outcome = "error" /\ wire' = Tail(wire)
      /\ provider' = [provider EXCEPT !.call = "none"]
      /\ worker.after = "command" /\ Fails /\ UNCHANGED <<left, history>>
  BY DEF CallRefused, Replied
<1>2. LosesReply(1) /\ WireOK' /\ Head(wire) = wire[1]
  BY <1>1, HeadIsLost DEF Sound
<1>3. provider' \in Providers /\ CallIsOver
  BY <1>1, CallEnds DEF Sound
<1>4. /\ UNCHANGED <<mem, disk, inbox>> /\ WorkerOK' /\ ~Flying'
      /\ HandlerOK' /\ handler'.read = handler.read
  BY <1>1, FailsSurvives
<1>5. InboxOK'
  BY <1>4 DEF Sound, InboxOK
<1>6. Sound'
  BY <1>1, <1>2, <1>3, <1>4, <1>5, SameRecord, SoundFollows DEF Sound
<1>7. 1 \in DOMAIN wire /\ IsReply(1) /\ wire[1].outcome = "error"
  BY <1>1, <1>2 DEF LosesReply, Drops
<1>8. Failing
  BY <1>1, <1>2, <1>3, <1>4, <1>7 DEF Failing
<1> QED BY <1>6, <1>8

LEMMA CallTimesOutFails == ASSUME Sound, CallTimesOut PROVE Sound' /\ Failing
<1>1. /\ worker.step = "calling" /\ worker.after = "command" /\ Fault /\ Fails
      /\ provider' = [provider EXCEPT !.call = "none"]
      /\ history' = [history EXCEPT !.doubt = @ \cup {worker.prompt}]
      /\ \/ \E k \in DOMAIN wire :
              wire[k].kind = "reply" /\ wire' = RemoveAt(wire, k)
         \/ (\A k \in DOMAIN wire : wire[k].kind # "reply") /\ UNCHANGED wire
  BY DEF CallTimesOut
<1>2. /\ WireOK'
      /\ (\E k \in DOMAIN wire : LosesReply(k))
         \/ ((\A k \in DOMAIN wire : ~IsReply(k)) /\ UNCHANGED wire)
  <2>1. CASE \E k \in DOMAIN wire :
               wire[k].kind = "reply" /\ wire' = RemoveAt(wire, k)
    BY <2>1, RemovedIsLost DEF Sound
  <2>2. CASE (\A k \in DOMAIN wire : wire[k].kind # "reply") /\ UNCHANGED wire
    BY <2>2 DEF Sound, WireOK, IsReply
  <2> QED BY <1>1, <2>1, <2>2
<1>3. provider' \in Providers /\ CallIsOver
  BY <1>1, CallEnds DEF Sound
<1>4. /\ UNCHANGED <<mem, disk, inbox>> /\ WorkerOK' /\ ~Flying'
      /\ HandlerOK' /\ handler'.read = handler.read
  BY <1>1, FailsSurvives
<1>5. InboxOK' /\ left' \in [asks : Nat, says : Nat, faults : Nat]
  BY <1>1, <1>4, FaultIsLeft DEF Sound, InboxOK
<1>6. /\ history' \in Histories
      /\ history'.told = history.told /\ history'.sent = history.sent
      /\ history'.batch = history.batch
      /\ history'.declined = history.declined
      /\ history'.queued = history.queued
      /\ history'.responses = history.responses
      /\ history.doubt \subseteq history'.doubt
      /\ worker.prompt \in history'.doubt
  <2>1. Flying
    BY <1>1 DEF Flying
  <2> QED BY <1>1, <2>1, DoubtIs
<1>7. Sound'
  BY <1>2, <1>3, <1>4, <1>5, <1>6, SameRecord, SoundFollows DEF Sound
<1>8. Failing
  BY <1>1, <1>2, <1>3, <1>4, <1>6 DEF Failing
<1> QED BY <1>7, <1>8

-----------------------------------------------------------------------------
(* The provider *)

\* What is on the wire is followed by more.
Longer ==
  /\ DOMAIN wire' = 1..Len(wire') /\ Len(wire') \in Nat
  /\ DOMAIN wire = 1..Len(wire) /\ Len(wire) \in Nat /\ Len(wire) < Len(wire')
  /\ \A j \in DOMAIN wire : wire'[j] = wire[j]

Says(e) ==
  /\ Longer /\ Len(wire') = Len(wire) + 1 /\ wire'[Len(wire) + 1] = e

LEMMA EmitsOne ==
  ASSUME WireOK, NEW e, GoodEvent(e), Emits(<<e>>)
  PROVE  WireOK' /\ Says(e)
<1>1. wire \in Seq(Events) /\ e \in Events /\ wire' = wire \o <<e>>
  BY DEF WireOK, GoodEvent, Emits
<1>2. /\ wire' \in Seq(Events) /\ Len(wire') = Len(wire) + 1
      /\ \A j \in 1..Len(wire) : wire'[j] = wire[j]
      /\ wire'[Len(wire) + 1] = e
  BY <1>1
<1>3. Says(e)
  BY <1>1, <1>2 DEF Says, Longer
<1>4. \A k \in DOMAIN wire' : GoodEvent(wire'[k])
  BY <1>1, <1>2 DEF WireOK
<1> QED BY <1>2, <1>3, <1>4 DEF WireOK

LEMMA EmitsTwo ==
  ASSUME WireOK, NEW d, GoodEvent(d), NEW e, GoodEvent(e), Emits(<<d, e>>)
  PROVE  /\ WireOK' /\ Longer /\ Len(wire') = Len(wire) + 2
         /\ wire'[Len(wire) + 1] = d /\ wire'[Len(wire) + 2] = e
<1>1. wire \in Seq(Events) /\ d \in Events /\ e \in Events
      /\ wire' = wire \o <<d, e>>
  BY DEF WireOK, GoodEvent, Emits
<1>2. /\ wire' \in Seq(Events) /\ Len(wire') = Len(wire) + 2
      /\ \A j \in 1..Len(wire) : wire'[j] = wire[j]
      /\ wire'[Len(wire) + 1] = d /\ wire'[Len(wire) + 2] = e
  BY <1>1
<1>3. Longer
  BY <1>1, <1>2 DEF Longer
<1>4. \A k \in DOMAIN wire' : GoodEvent(wire'[k])
  BY <1>1, <1>2 DEF WireOK
<1> QED BY <1>2, <1>3, <1>4 DEF WireOK

LEMMA ZeroIsTurn == 0 \in 0..MaxTurns
BY QuestionsAssumption

\* The events the provider writes.
LEMMA RequestIsEvent ==
  ASSUME NEW r \in Requests, NEW kind \in {"request", "resolved"}
  PROVE  LET e == [Event(kind) EXCEPT !.item = r]
         IN  GoodEvent(e) /\ e.kind = kind /\ e.item = r
<1>1. 0 \in 0..MaxTurns /\ r \in Items
  BY QuestionsAssumption DEF Items
<1> QED BY <1>1 DEF GoodEvent, Events, Event

LEMMA SaidIsEvent ==
  ASSUME NEW e,
         \/ \E n \in Notes : e = [Event("note") EXCEPT !.item = n]
         \/ \E n \in 0..MaxTurns : \E parts \in SUBSET Asked :
              e = [Event("remove") EXCEPT !.turn = n, !.parts = parts]
         \/ e = Event("move")
  PROVE  GoodEvent(e) /\ e.kind \in {"note", "remove", "move"}
<1>1. 0 \in 0..MaxTurns /\ Notes \subseteq Items
  BY ZeroIsTurn DEF Items
<1>2. ASSUME NEW n \in Notes, e = [Event("note") EXCEPT !.item = n]
      PROVE  GoodEvent(e) /\ e.kind = "note"
  BY <1>1, <1>2 DEF GoodEvent, Events, Event
<1>3. ASSUME NEW n \in 0..MaxTurns, NEW parts \in SUBSET Asked,
             e = [Event("remove") EXCEPT !.turn = n, !.parts = parts]
      PROVE  GoodEvent(e) /\ e.kind = "remove"
  BY <1>1, <1>3 DEF GoodEvent, Events, Event
<1>4. e = Event("move") => GoodEvent(e) /\ e.kind = "move"
  BY <1>1 DEF GoodEvent, Events, Event
<1> QED BY <1>2, <1>3, <1>4

LEMMA TurnIsEvent ==
  ASSUME NEW n \in 0..MaxTurns, n # 0
  PROVE  /\ LET e == [Event("started") EXCEPT !.turn = n]
            IN  GoodEvent(e) /\ e.kind = "started"
         /\ GoodEvent(Reply(n, "ok")) /\ Reply(n, "ok").kind = "reply"
         /\ Reply(n, "ok").outcome = "ok"
         /\ \A outcome \in {"Idle", "Failed"} :
              LET e == [Event("completed") EXCEPT !.turn = n, !.outcome = outcome]
              IN  GoodEvent(e) /\ e.kind = "completed"
<1>1. 0 \in 0..MaxTurns
  BY QuestionsAssumption
<1>2. LET e == [Event("started") EXCEPT !.turn = n]
      IN  GoodEvent(e) /\ e.kind = "started"
  BY <1>1 DEF GoodEvent, Events, Event
<1>3. /\ GoodEvent(Reply(n, "ok")) /\ Reply(n, "ok").kind = "reply"
      /\ Reply(n, "ok").outcome = "ok"
  BY <1>1 DEF GoodEvent, Events, Event, Reply
<1>4. \A outcome \in {"Idle", "Failed"} :
        LET e == [Event("completed") EXCEPT !.turn = n, !.outcome = outcome]
        IN  GoodEvent(e) /\ e.kind = "completed"
  BY <1>1 DEF GoodEvent, Events, Event
<1> QED BY <1>2, <1>3, <1>4

LEMMA RefusalIsEvent ==
  /\ GoodEvent(Reply(0, "error")) /\ Reply(0, "error").kind = "reply"
  /\ Reply(0, "error").outcome = "error"
<1>1. 0 \in 0..MaxTurns
  BY QuestionsAssumption
<1> QED BY <1>1 DEF GoodEvent, Events, Event, Reply

\* Only the provider moves.
Outside ==
  UNCHANGED <<mem, disk, handler, inbox, worker>>

LEMMA OutsideSound ==
  ASSUME Sound, Outside, WireOK', provider' \in Providers, history' \in Histories,
         left' \in [asks : Nat, says : Nat, faults : Nat]
  PROVE  Sound'
<1>1. HandlerOK' /\ InboxOK' /\ WorkerOK' /\ (Flying' <=> Flying)
  BY WorkerStays DEF Outside, Sound, HandlerOK, InboxOK, Flying
<1> QED BY <1>1, SameRecord, SoundFollows DEF Outside

LEMMA OneIsLeft ==
  ASSUME left \in [asks : Nat, says : Nat, faults : Nat], left.says > 0,
         left' = [left EXCEPT !.says = @ - 1]
  PROVE  left' \in [asks : Nat, says : Nat, faults : Nat]
OBVIOUS

\* A request is written once, in a turn.
Asking ==
  /\ Outside /\ UNCHANGED history
  /\ provider.turn # 0 /\ provider'.turn = provider.turn
  /\ provider'.call = provider.call
  /\ \E r \in Requests \ provider.asked : \E e :
       /\ provider'.open = provider.open \cup {r}
       /\ provider'.asked = provider.asked \cup {r}
       /\ Says(e) /\ e.kind = "request" /\ e.item = r

LEMMA ProviderAsksAsks == ASSUME Sound, ProviderAsks PROVE Sound' /\ Asking
<1>1. /\ provider.turn # 0 /\ left.says > 0
      /\ left' = [left EXCEPT !.says = @ - 1]
      /\ Outside /\ UNCHANGED history
  BY DEF ProviderAsks, Outside
<1>2. PICK r \in Requests \ provider.asked :
        /\ provider' = [provider EXCEPT !.open = @ \cup {r},
                                        !.asked = @ \cup {r}]
        /\ Emits(<<[Event("request") EXCEPT !.item = r]>>)
  BY DEF ProviderAsks
<1> DEFINE e == [Event("request") EXCEPT !.item = r]
<1>3. GoodEvent(e) /\ e.kind = "request" /\ e.item = r
  BY RequestIsEvent
<1> HIDE DEF e
<1>4. WireOK' /\ Says(e)
  BY <1>2, <1>3, EmitsOne DEF e, Sound
<1>5. /\ provider' \in Providers
      /\ provider'.open = provider.open \cup {r}
      /\ provider'.asked = provider.asked \cup {r}
      /\ provider'.turn = provider.turn /\ provider'.call = provider.call
  BY <1>2 DEF Sound, Providers
<1>6. Sound'
  BY <1>1, <1>4, <1>5, OneIsLeft, OutsideSound DEF Sound
<1>7. Asking
  BY <1>1, <1>3, <1>4, <1>5 DEF Asking
<1> QED BY <1>6, <1>7

Saying ==
  /\ Outside /\ UNCHANGED <<provider, history>>
  /\ \E e : Says(e) /\ e.kind \in {"note", "remove", "move"}

LEMMA ProviderSaysSays == ASSUME Sound, ProviderSays PROVE Sound' /\ Saying
<1>1. /\ left.says > 0 /\ left' = [left EXCEPT !.says = @ - 1]
      /\ Outside /\ UNCHANGED <<provider, history>>
  BY DEF ProviderSays, Outside
<1>2. PICK e : /\ Emits(<<e>>)
               /\ GoodEvent(e) /\ e.kind \in {"note", "remove", "move"}
  <2>1. CASE \E n \in Notes : Emits(<<[Event("note") EXCEPT !.item = n]>>)
    BY <2>1, SaidIsEvent
  <2>2. CASE \E parts \in {{a} : a \in Asked} \cup {{n} \X Parts[n] : n \in Notes} :
               Emits(<<[Event("remove") EXCEPT !.turn = provider.turn,
                                               !.parts = parts]>>)
    <3>1. PICK parts \in {{a} : a \in Asked} \cup {{n} \X Parts[n] : n \in Notes} :
                 Emits(<<[Event("remove") EXCEPT !.turn = provider.turn,
                                                 !.parts = parts]>>)
      BY <2>2
    <3>2. parts \in SUBSET Asked
      BY <3>1, AskedIs
    <3>3. provider.turn \in 0..MaxTurns
      BY DEF Sound, Providers
    <3> DEFINE e == [Event("remove") EXCEPT !.turn = provider.turn,
                                            !.parts = parts]
    <3>4. GoodEvent(e) /\ e.kind \in {"note", "remove", "move"}
      BY <3>2, <3>3, SaidIsEvent
    <3> QED BY <3>1, <3>4
  <2>3. CASE Emits(<<Event("move")>>)
    BY <2>3, SaidIsEvent
  <2> QED BY <2>1, <2>2, <2>3 DEF ProviderSays
<1>3. WireOK' /\ Says(e)
  BY <1>2, EmitsOne DEF Sound
<1>4. Sound'
  BY <1>1, <1>3, OneIsLeft, OutsideSound DEF Sound
<1> QED BY <1>1, <1>2, <1>3, <1>4 DEF Saying

Resolving ==
  /\ Outside /\ UNCHANGED history
  /\ provider'.turn = provider.turn /\ provider'.call = provider.call
  /\ provider'.asked = provider.asked
  /\ \E r \in provider.open : \E e :
       /\ provider'.open = provider.open \ {r}
       /\ Says(e) /\ e.kind = "resolved" /\ e.item = r

LEMMA ProviderResolvesResolves ==
  ASSUME Sound, ProviderResolves PROVE Sound' /\ Resolving
<1>1. Outside /\ UNCHANGED <<left, history>>
  BY DEF ProviderResolves, Outside
<1>2. PICK r \in provider.open :
        /\ provider' = [provider EXCEPT !.open = @ \ {r}]
        /\ Emits(<<[Event("resolved") EXCEPT !.item = r]>>)
  BY DEF ProviderResolves
<1> DEFINE e == [Event("resolved") EXCEPT !.item = r]
<1>3. r \in Requests
  BY DEF Sound, Providers
<1>4. GoodEvent(e) /\ e.kind = "resolved" /\ e.item = r
  BY <1>3, RequestIsEvent
<1> HIDE DEF e
<1>5. WireOK' /\ Says(e)
  BY <1>2, <1>4, EmitsOne DEF e, Sound
<1>6. /\ provider' \in Providers
      /\ provider'.open = provider.open \ {r}
      /\ provider'.asked = provider.asked
      /\ provider'.turn = provider.turn /\ provider'.call = provider.call
  BY <1>2 DEF Sound, Providers
<1>7. Sound'
  BY <1>1, <1>5, <1>6, OutsideSound DEF Sound
<1>8. Resolving
  BY <1>1, <1>4, <1>5, <1>6 DEF Resolving
<1> QED BY <1>7, <1>8

Ending ==
  /\ Outside /\ UNCHANGED history
  /\ provider'.turn = 0 /\ provider'.open = {}
  /\ provider'.call = provider.call /\ provider'.asked = provider.asked
  /\ \E e : Says(e) /\ e.kind = "completed"

LEMMA ProviderEndsEnds == ASSUME Sound, ProviderEnds PROVE Sound' /\ Ending
<1>1. /\ provider.turn # 0 /\ Outside /\ UNCHANGED <<left, history>>
      /\ provider' = [provider EXCEPT !.turn = 0, !.open = {}]
  BY DEF ProviderEnds, Outside
<1>2. PICK outcome \in {"Idle", "Failed"} :
        Emits(<<[Event("completed") EXCEPT !.turn = provider.turn,
                                           !.outcome = outcome]>>)
  BY DEF ProviderEnds
<1>3. provider.turn \in 0..MaxTurns /\ 0 \in 0..MaxTurns
  BY QuestionsAssumption DEF Sound, Providers
<1>4. PICK e : Emits(<<e>>) /\ GoodEvent(e) /\ e.kind = "completed"
  BY <1>1, <1>2, <1>3, TurnIsEvent
<1>5. WireOK' /\ Says(e)
  BY <1>4, EmitsOne DEF Sound
<1>6. /\ provider' \in Providers /\ provider'.turn = 0 /\ provider'.open = {}
      /\ provider'.call = provider.call /\ provider'.asked = provider.asked
  BY <1>1, <1>3 DEF Sound, Providers
<1>7. Sound'
  BY <1>1, <1>5, <1>6, OutsideSound DEF Sound
<1> QED BY <1>1, <1>4, <1>5, <1>6, <1>7 DEF Ending

\* The message in flight is taken: once, or a second time when it is in doubt.
Taking ==
  /\ Outside /\ Longer
  /\ provider.call \in {"start", "steer"} /\ provider'.call = "taken"
  /\ provider'.open = provider.open /\ provider'.asked = provider.asked
  /\ \A k \in DOMAIN wire' \ DOMAIN wire : wire'[k].kind \in {"started", "reply"}
  /\ \A j, k \in DOMAIN wire' \ DOMAIN wire :
       wire'[j].kind = "reply" /\ wire'[k].kind = "reply" => j = k
  /\ provider'.turn # 0 =>
       \/ provider.turn # 0
       \/ \E k \in DOMAIN wire' \ DOMAIN wire : wire'[k].kind = "started"
  /\ history'.told = history.told /\ history'.declined = history.declined
  /\ history'.queued = history.queued /\ history'.doubt = history.doubt
  /\ history'.responses = history.responses
  /\ history.batch \subseteq history'.batch
  /\ \A a \in Asked : a # worker.prompt => history'.sent[a] = history.sent[a]
  /\ \/ /\ history'.sent = history.sent
        /\ \E k \in DOMAIN wire' \ DOMAIN wire :
             wire'[k].kind = "reply" /\ wire'[k].outcome = "error"
     \/ /\ \A k \in DOMAIN wire' \ DOMAIN wire :
             wire'[k].kind = "reply" => wire'[k].outcome = "ok"
        /\ \A a \in Asked : a = worker.prompt =>
             history'.sent[a] > 0 /\ history'.sent[a] <= history.sent[a] + 1
        /\ \A n \in Notes : worker.prompt = Batch(n) => n \in history'.batch

\* What the provider has taken, for the properties.
LEMMA TakenIs ==
  ASSUME Sound, NEW p \in Prompts,
         p \in Asked => history' =
           [history EXCEPT !.sent[p] = IF @ < 2 THEN @ + 1 ELSE @],
         p = Chat => history' = history,
         p \notin Asked /\ p # Chat =>
           history' = [history EXCEPT !.batch = @ \cup {p[1]}]
  PROVE  /\ history' \in Histories
         /\ history'.told = history.told /\ history'.declined = history.declined
         /\ history'.queued = history.queued /\ history'.doubt = history.doubt
         /\ history'.responses = history.responses
         /\ history.batch \subseteq history'.batch
         /\ \A a \in Asked : a # p => history'.sent[a] = history.sent[a]
         /\ \A a \in Asked : a = p =>
              history'.sent[a] > 0 /\ history'.sent[a] <= history.sent[a] + 1
         /\ \A n \in Notes : p = Batch(n) => n \in history'.batch
<1>1. history \in Histories
  BY DEF Sound
<1>2. CASE p \in Asked
  <2> DEFINE m == IF history.sent[p] < 2 THEN history.sent[p] + 1
                  ELSE history.sent[p]
  <2>1. history' = [history EXCEPT !.sent[p] = IF @ < 2 THEN @ + 1 ELSE @]
    BY <1>2
  <2>2. /\ m \in Nat /\ m > 0 /\ m <= history.sent[p] + 1
        /\ history'.sent = [history.sent EXCEPT ![p] = m]
    BY <1>1, <1>2, <2>1 DEF Histories
  <2>3. /\ history' \in Histories
        /\ history'.told = history.told /\ history'.declined = history.declined
        /\ history'.queued = history.queued /\ history'.doubt = history.doubt
        /\ history'.responses = history.responses
        /\ history'.batch = history.batch
    BY <1>1, <1>2, <2>1, <2>2 DEF Histories
  <2> HIDE DEF m
  <2>4. /\ \A a \in Asked : a # p => history'.sent[a] = history.sent[a]
        /\ \A a \in Asked : a = p =>
             history'.sent[a] > 0 /\ history'.sent[a] <= history.sent[a] + 1
    BY <1>1, <2>2 DEF Histories
  <2>5. \A n \in Notes : p # Batch(n)
    BY <1>2, PromptKinds
  <2> QED BY <2>3, <2>4, <2>5
<1>3. CASE p = Chat
  <2>1. p \notin Asked /\ \A n \in Notes : p # Batch(n)
    BY <1>3, PromptKinds
  <2>2. history' = history
    BY <1>3, <2>1
  <2> QED BY <1>1, <2>1, <2>2
<1>4. CASE p \notin Asked /\ p # Chat
  <2>1. history' = [history EXCEPT !.batch = @ \cup {p[1]}]
    BY <1>4
  <2>2. PICK n \in Notes : p = Batch(n)
    BY <1>4 DEF Prompts
  <2>3. p[1] = n
    BY <2>2 DEF Batch
  <2>4. /\ history' \in Histories
        /\ history'.told = history.told /\ history'.declined = history.declined
        /\ history'.queued = history.queued /\ history'.doubt = history.doubt
        /\ history'.responses = history.responses
        /\ history'.batch = history.batch \cup {n}
        /\ history'.sent = history.sent
    BY <1>1, <2>1, <2>3 DEF Histories
  <2>5. \A k \in Notes : p = Batch(k) => k = n
    BY <2>2, PromptKinds
  <2> QED BY <1>4, <2>4, <2>5
<1> QED BY <1>2, <1>3, <1>4

LEMMA ProviderTakesTakes == ASSUME Sound, ProviderTakes PROVE Sound' /\ Taking
<1> DEFINE p == worker.prompt
           new == provider.turn = 0
           n == IF new THEN provider.last + 1 ELSE provider.turn
           began == [Event("started") EXCEPT !.turn = n]
           once == [history EXCEPT !.sent[p] = IF @ < 2 THEN @ + 1 ELSE @]
           batch == [history EXCEPT !.batch = @ \cup {p[1]}]
<1>1. provider.call \in {"start", "steer"} /\ Outside /\ UNCHANGED left
  BY DEF ProviderTakes, Outside
<1>2. /\ p \in Prompts /\ provider \in Providers /\ history \in Histories
      /\ provider.turn \in Nat /\ provider.last \in Nat /\ WireOK
      /\ left' \in [asks : Nat, says : Nat, faults : Nat]
  BY <1>1 DEF Sound, WorkerOK, Workers, Providers
<1>3. CASE /\ provider.call = "steer" /\ new
           /\ provider' = [provider EXCEPT !.call = "taken"]
           /\ Emits(<<Reply(0, "error")>>)
           /\ UNCHANGED history
  <2> DEFINE e == Reply(0, "error")
  <2>1. GoodEvent(e) /\ e.kind = "reply" /\ e.outcome = "error"
    BY RefusalIsEvent
  <2> HIDE DEF e
  <2>2. WireOK' /\ Says(e)
    BY <1>2, <1>3, <2>1, EmitsOne DEF e
  <2>3. /\ provider' \in Providers /\ provider'.call = "taken"
        /\ provider'.open = provider.open /\ provider'.asked = provider.asked
        /\ provider'.turn = provider.turn
    BY <1>2, <1>3 DEF Providers
  <2>4. DOMAIN wire' \ DOMAIN wire = {Len(wire) + 1}
    BY <2>2 DEF Says, Longer
  <2>5. Sound'
    BY <1>1, <1>2, <1>3, <2>2, <2>3, OutsideSound
  <2>6. Taking
    BY <1>1, <1>3, <2>1, <2>2, <2>3, <2>4 DEF Taking, Says
  <2> QED BY <2>5, <2>6
<1>4. CASE /\ n <= MaxTurns
           /\ provider' = [provider EXCEPT !.turn = n, !.last = n,
                                           !.call = "taken"]
           /\ \/ ~new /\ Emits(<<Reply(n, "ok")>>)
              \/ new /\ Emits(<<began, Reply(n, "ok")>>)
              \/ new /\ Emits(<<Reply(n, "ok"), began>>)
           /\ history' = CASE p \in Asked -> once
                           [] p = Chat    -> history
                           [] OTHER       -> batch
  <2>1. n \in 0..MaxTurns /\ n # 0
    BY <1>2, <1>4, QuestionsAssumption
  <2> HIDE DEF n
  <2> DEFINE e == Reply(n, "ok")
  <2>2. /\ GoodEvent(e) /\ e.kind = "reply" /\ e.outcome = "ok"
        /\ GoodEvent(began) /\ began.kind = "started"
    BY <2>1, TurnIsEvent
  <2>3. /\ \/ provider.turn # 0 /\ Emits(<<e>>)
           \/ Emits(<<began, e>>)
           \/ Emits(<<e, began>>)
    BY <1>4
  <2>4. /\ history' \in Histories
        /\ history'.told = history.told /\ history'.declined = history.declined
        /\ history'.queued = history.queued /\ history'.doubt = history.doubt
        /\ history'.responses = history.responses
        /\ history.batch \subseteq history'.batch
        /\ \A a \in Asked : a # p => history'.sent[a] = history.sent[a]
        /\ \A a \in Asked : a = p =>
             history'.sent[a] > 0 /\ history'.sent[a] <= history.sent[a] + 1
        /\ \A m \in Notes : p = Batch(m) => m \in history'.batch
    <3>1. Chat \notin Asked
      BY PromptKinds
    <3> HIDE DEF once, batch
    <3>2. /\ p \in Asked => history' = once
          /\ p = Chat => history' = history
          /\ p \notin Asked /\ p # Chat => history' = batch
      BY <1>4, <3>1
    <3> USE DEF once, batch
    <3> QED BY <1>2, <3>2, TakenIs
  <2>5. /\ provider' \in Providers /\ provider'.call = "taken"
        /\ provider'.open = provider.open /\ provider'.asked = provider.asked
    BY <1>2, <1>4, <2>1 DEF Providers
  <2> HIDE DEF e, began, once, batch, new
  <2>6. /\ WireOK' /\ Longer
        /\ \A k \in DOMAIN wire' \ DOMAIN wire :
             wire'[k].kind \in {"started", "reply"}
             /\ (wire'[k].kind = "reply" => wire'[k].outcome = "ok")
        /\ \A j, k \in DOMAIN wire' \ DOMAIN wire :
             wire'[j].kind = "reply" /\ wire'[k].kind = "reply" => j = k
        /\ \/ provider.turn # 0
           \/ \E k \in DOMAIN wire' \ DOMAIN wire : wire'[k].kind = "started"
    <3>1. CASE provider.turn # 0 /\ Emits(<<e>>)
      <4>1. WireOK' /\ Says(e)
        BY <1>2, <2>2, <3>1, EmitsOne
      <4>2. DOMAIN wire' \ DOMAIN wire = {Len(wire) + 1}
        BY <4>1 DEF Says, Longer
      <4> QED BY <2>2, <3>1, <4>1, <4>2 DEF Says
    <3>2. ASSUME NEW d, NEW f, Emits(<<d, f>>),
                 (d = began /\ f = e) \/ (d = e /\ f = began)
          PROVE  /\ WireOK' /\ Longer
                 /\ \A k \in DOMAIN wire' \ DOMAIN wire :
                      wire'[k].kind \in {"started", "reply"}
                      /\ (wire'[k].kind = "reply" => wire'[k].outcome = "ok")
                 /\ \A j, k \in DOMAIN wire' \ DOMAIN wire :
                      wire'[j].kind = "reply" /\ wire'[k].kind = "reply" => j = k
                 /\ \E k \in DOMAIN wire' \ DOMAIN wire :
                      wire'[k].kind = "started"
      <4>1. /\ WireOK' /\ Longer /\ Len(wire') = Len(wire) + 2
            /\ wire'[Len(wire) + 1] = d /\ wire'[Len(wire) + 2] = f
        BY <1>2, <2>2, <3>2, EmitsTwo
      <4>2. DOMAIN wire' \ DOMAIN wire = {Len(wire) + 1, Len(wire) + 2}
        BY <4>1 DEF Longer
      <4> QED BY <2>2, <3>2, <4>1, <4>2
    <3> QED BY <2>3, <3>1, <3>2
  <2>7. Sound'
    BY <1>1, <1>2, <2>4, <2>5, <2>6, OutsideSound
  <2>8. Taking
    BY <1>1, <2>4, <2>5, <2>6 DEF Taking
  <2> QED BY <2>7, <2>8
<1> QED BY <1>3, <1>4 DEF ProviderTakes

-----------------------------------------------------------------------------
(* Every step is one of these *)

Steps ==
  \/ Calm \/ Launch \/ Settling \/ Recording \/ Reading \/ Responding
  \/ Dying \/ Halting \/ Restarting \/ Accepting \/ Failing
  \/ Asking \/ Saying \/ Resolving \/ Ending \/ Taking

LEMMA UserSteps ==
  ASSUME Inv, User PROVE Sound' /\ Steps
<1>1. CASE UserAsks
  BY <1>1, UserAsksCalm DEF Inv, Steps
<1>2. CASE HandlerSkips
  BY <1>2, HandlerSkipsSettles DEF Inv, Steps
<1>3. CASE HandlerSends
  BY <1>3, HandlerSendsCalm DEF Inv, Steps
<1>4. CASE HandlerGivesUp
  BY <1>4, HandlerGivesUpCalm DEF Inv, Steps
<1> QED BY <1>1, <1>2, <1>3, <1>4 DEF User

LEMMA StartingSteps ==
  ASSUME Inv, Starting PROVE Sound' /\ Steps
<1>1. CASE Guide \/ GuidanceAnswered
  BY <1>1, GuideCalm DEF Inv, Steps
<1>2. CASE QueueWhileWaiting
  BY <1>2, QueueSettles DEF Inv, Steps
<1>3. CASE Connect
  BY <1>3, ConnectSends, ConnectCalm DEF Inv, Steps
<1>4. CASE Initial
  BY <1>4, InitialIs DEF Inv, Steps
<1> QED BY <1>1, <1>2, <1>3, <1>4 DEF Starting

LEMMA LoopSteps ==
  ASSUME Inv, Loop PROVE Sound' /\ Steps
<1>1. CASE LoopEvent \/ StoppingEvent
  BY <1>1, EventsAreRead DEF Inv, Delivery, Steps
<1>2. CASE LoopCommand
  BY <1>2, LoopCommandIs DEF Inv, Steps
<1>3. CASE LoopTidies \/ SwitchWorkspace \/ TidyDone
  BY <1>3, TidyCalm DEF Inv, Steps
<1>4. CASE RemoveQuestions
  BY <1>4, RemoveQuestionsSettles DEF Inv, Steps
<1>5. CASE Stopped
  BY <1>5, StoppedHalts DEF Inv, Steps
<1>6. CASE SendQueued
  BY <1>6, SendQueuedSends, SendQueuedCalm DEF Inv, Steps
<1> QED BY <1>1, <1>2, <1>3, <1>4, <1>5, <1>6 DEF Loop

LEMMA CallSteps ==
  ASSUME Inv, Call PROVE Sound' /\ Steps
<1>1. CASE CallEvent
  BY <1>1, EventsAreRead DEF Inv, Delivery, Steps
<1>2. CASE CallAccepted
  BY <1>2, CallAcceptedAccepts DEF Inv, Steps
<1>3. CASE Record
  BY <1>3, RecordSettles DEF Inv, Steps
<1>4. CASE CallRefused
  BY <1>4, CallRefusedFails DEF Inv, Steps
<1>5. CASE CallTimesOut
  BY <1>5, CallTimesOutFails DEF Inv, Steps
<1>6. CASE WorkerFails
  BY <1>6, WorkerFailsDies DEF Inv, Steps
<1> QED BY <1>1, <1>2, <1>3, <1>4, <1>5, <1>6 DEF Call

LEMMA ProviderSteps ==
  ASSUME Inv, Provider PROVE Sound' /\ Steps
<1>1. CASE ProviderTakes
  BY <1>1, ProviderTakesTakes DEF Inv, Steps
<1>2. CASE ProviderAsks
  BY <1>2, ProviderAsksAsks DEF Inv, Steps
<1>3. CASE ProviderSays
  BY <1>3, ProviderSaysSays DEF Inv, Steps
<1>4. CASE ProviderResolves
  BY <1>4, ProviderResolvesResolves DEF Inv, Steps
<1>5. CASE ProviderEnds
  BY <1>5, ProviderEndsEnds DEF Inv, Steps
<1> QED BY <1>1, <1>2, <1>3, <1>4, <1>5 DEF Provider

LEMMA NothingHappens == ASSUME Inv, UNCHANGED vars PROVE Sound' /\ Steps
<1>1. UNCHANGED <<mem, disk, handler, inbox, worker, provider, wire, left, history>>
  BY DEF vars
<1>2. Calm
  BY <1>1, SameRecord DEF Inv, Calm
<1>3. HandlerOK' /\ InboxOK' /\ WorkerOK'
  BY <1>1, WorkerStays DEF Inv, Sound, HandlerOK, InboxOK
<1> QED BY <1>1, <1>2, <1>3, SameRecord, CalmIsSound DEF Inv, Sound, Steps

LEMMA NextSteps == Inv /\ [Next]_vars => Sound' /\ Steps
<1>1. ASSUME Inv, Restart PROVE Sound' /\ Steps
  BY <1>1, RestartRestarts DEF Inv, Steps
<1> QED BY <1>1, UserSteps, StartingSteps, LoopSteps, CallSteps, ProviderSteps,
           NothingHappens DEF Next

-----------------------------------------------------------------------------
(* What was told stays settled *)

LEMMA ToldFollows ==
  ASSUME Told, Good(mem'), Settled(mem) \subseteq Settled(mem'),
         \/ disk' = disk /\ history'.told \subseteq history.told
         \/ /\ disk' = Saved(mem')
            /\ history'.told \subseteq history.told \cup Settled(mem'),
         handler'.read \in {handler.read, NewSession, mem},
         Flying' /\ worker'.cmd.kind = "answer" =>
           \/ Flying /\ worker'.cmd = worker.cmd /\ worker'.answers = worker.answers
           \/ {worker'.cmd.item} \X (worker'.answers \ {worker'.cmd.part})
                \subseteq Settled(mem)
  PROVE  Told'
<1>1. Settled(Saved(mem')) = Settled(mem')
  BY SavedGood DEF Alike
<1>2. history'.told \subseteq Settled(mem') \cap Settled(disk')
  BY <1>1 DEF Told
<1>3. Settled(handler'.read) \subseteq Settled(mem')
  BY NewSessionGood DEF Told
<1>4. Flying' /\ worker'.cmd.kind = "answer" =>
        {worker'.cmd.item} \X (worker'.answers \ {worker'.cmd.part})
          \subseteq Settled(mem')
  BY DEF Told
<1> QED BY <1>2, <1>3, <1>4 DEF Told

LEMMA ToldIsKeptByAll == ASSUME Inv, Sound', Steps PROVE Told'
<1>0. Told /\ Good(mem')
  BY DEF Inv, Sound
<1>1. CASE Calm
  <2>1. Flying' /\ worker'.cmd.kind = "answer" =>
          Flying /\ worker'.cmd = worker.cmd /\ worker'.answers = worker.answers
    BY <1>1 DEF Calm, Flying
  <2> QED BY <1>0, <1>1, <2>1, ToldFollows DEF Calm, DiskFollows, Alike
<1>2. CASE Launch
  BY <1>0, <1>2, ToldFollows DEF Launch
<1>3. CASE Settling
  <2>1. Flying' /\ worker'.cmd.kind = "answer" =>
          Flying /\ worker'.cmd = worker.cmd /\ worker'.answers = worker.answers
    BY <1>3 DEF Settling, Flying
  <2> QED BY <1>0, <1>3, <2>1, ToldFollows DEF Settling
<1>4. CASE Recording
  BY <1>0, <1>4, ToldFollows DEF Recording
<1>5. CASE Reading
  <2>1. Flying' => Flying
    BY <1>5 DEF Reading, SameWorker, Flying
  <2> QED BY <1>0, <1>5, <2>1, ToldFollows DEF Reading, Alike, SameWorker
<1>6. CASE Responding
  BY <1>0, <1>6, ToldFollows DEF Responding, DiskFollows
<1>7. CASE Dying \/ Halting
  BY <1>0, <1>7, ToldFollows DEF Dying, Halting, Cut, Alike, DiskFollows
<1>8. CASE Restarting
  <2>1. /\ Settled(mem') = Settled(disk) /\ disk' = mem'
        /\ history'.told = history.told /\ handler'.read = NewSession /\ ~Flying'
    BY <1>8 DEF Restarting, Cut, Alike
  <2> QED BY <1>0, <2>1, NewSessionGood DEF Told
<1>9. CASE Accepting
  <2>1. Flying
    BY <1>9 DEF Accepting, Flying
  <2> QED BY <1>0, <1>9, <2>1, ToldFollows DEF Accepting
<1>10. CASE Failing
  BY <1>0, <1>10, ToldFollows DEF Failing
<1>11. CASE Asking \/ Saying \/ Resolving \/ Ending \/ Taking
  <2>1. Outside /\ history'.told = history.told
    BY <1>11 DEF Asking, Saying, Resolving, Ending, Taking
  <2>2. Flying' => Flying
    BY <2>1 DEF Outside, Flying
  <2> QED BY <1>0, <2>1, <2>2, ToldFollows DEF Outside
<1> QED BY <1>1, <1>2, <1>3, <1>4, <1>5, <1>6, <1>7, <1>8, <1>9, <1>10, <1>11
        DEF Steps

-----------------------------------------------------------------------------
(* A request gets one response *)

\* A request on the wire, and its item.
RequestAt(k) == k \in DOMAIN wire /\ wire[k].kind = "request"

LEMMA RequestItems ==
  ASSUME WireOK PROVE \A k : RequestAt(k) => wire[k].item \in Requests
BY DEF WireOK, GoodEvent, RequestAt

\* No request comes to the panel or the wire.
LEMMA BlockingFollows ==
  ASSUME Blocking, Sound,
         mem'.panel \cap Requests \subseteq mem.panel \cap Requests,
         \A r \in mem'.panel \cap Requests :
           r \in mem.responded => r \in mem'.responded,
         provider'.open \subseteq provider.open,
         provider'.asked = provider.asked,
         history'.responses = history.responses,
         \E f : /\ \A k \in DOMAIN wire' : wire'[k].kind = "request" =>
                     f[k] \in DOMAIN wire /\ wire'[k] = wire[f[k]]
                /\ \A j, k \in DOMAIN wire' : f[j] = f[k] => j = k
  PROVE  Blocking'
<1>1. PICK f : /\ \A k \in DOMAIN wire' : wire'[k].kind = "request" =>
                    f[k] \in DOMAIN wire /\ wire'[k] = wire[f[k]]
               /\ \A j, k \in DOMAIN wire' : f[j] = f[k] => j = k
  OBVIOUS
<1>2. \A k \in DOMAIN wire' : wire'[k].kind = "request" =>
        /\ wire'[k].item \in provider.asked /\ wire'[k].item \notin mem.panel
        /\ history.responses[wire'[k].item] = 0 /\ wire'[k].item \in Requests
  BY <1>1, RequestItems DEF Blocking, RequestAt, Sound
<1>3. \A k \in DOMAIN wire' : wire'[k].kind = "request" =>
        wire'[k].item \notin mem'.panel
  BY <1>2
<1>4. \A j, k \in DOMAIN wire' :
        wire'[j].kind = "request" /\ wire'[k].kind = "request"
          /\ wire'[j].item = wire'[k].item => j = k
  BY <1>1 DEF Blocking
<1>5. \A r \in mem'.panel \cap Requests :
        /\ r \in provider.asked
        /\ r \notin mem'.responded => history.responses[r] = 0
  BY DEF Blocking
<1>6. provider'.open \subseteq provider'.asked
  BY DEF Blocking
<1> QED BY <1>2, <1>3, <1>4, <1>5, <1>6 DEF Blocking

\* The positions of what is left when the head, or a reply, is dropped.
LEMMA DroppedPlaces ==
  ASSUME NEW k, Drops(k)
  PROVE  \E f : /\ \A j \in DOMAIN wire' : f[j] \in DOMAIN wire /\ f[j] # k
                     /\ wire'[j] = wire[f[j]]
                /\ \A i, j \in DOMAIN wire' : f[i] = f[j] => i = j
<1> DEFINE f == [j \in DOMAIN wire' |-> IF j < k THEN j ELSE j + 1]
<1>1. \A j \in DOMAIN wire' : f[j] \in DOMAIN wire /\ f[j] # k
        /\ wire'[j] = wire[f[j]]
  BY DEF Drops
<1>2. \A i, j \in DOMAIN wire' : f[i] = f[j] => i = j
  BY DEF Drops
<1> QED BY <1>1, <1>2

LEMMA SamePlaces ==
  ASSUME UNCHANGED wire
  PROVE  \E f : /\ \A k \in DOMAIN wire' : wire'[k].kind = "request" =>
                     f[k] \in DOMAIN wire /\ wire'[k] = wire[f[k]]
                /\ \A j, k \in DOMAIN wire' : f[j] = f[k] => j = k
<1> DEFINE f == [j \in DOMAIN wire |-> j]
<1>1. \A k \in DOMAIN wire : f[k] = k
  OBVIOUS
<1> QED BY <1>1

\* What follows on the wire is no request.
LEMMA LongerPlaces ==
  ASSUME Longer, \A k \in DOMAIN wire' \ DOMAIN wire : wire'[k].kind # "request"
  PROVE  \E f : /\ \A k \in DOMAIN wire' : wire'[k].kind = "request" =>
                     f[k] \in DOMAIN wire /\ wire'[k] = wire[f[k]]
                /\ \A j, k \in DOMAIN wire' : f[j] = f[k] => j = k
<1> DEFINE f == [j \in DOMAIN wire' |-> j]
<1>1. \A k \in DOMAIN wire' : f[k] = k
  OBVIOUS
<1>2. \A k \in DOMAIN wire' : wire'[k].kind = "request" => k \in DOMAIN wire
  OBVIOUS
<1> QED BY <1>1, <1>2 DEF Longer

LEMMA BlockingCut == ASSUME Blocking, Cut PROVE Blocking'
BY DEF Blocking, Cut, NoRequests

LEMMA BlockingResponds ==
  ASSUME Blocking, Sound, Responding PROVE Blocking'
<1>1. PICK r \in Requests :
        /\ r \in mem.panel /\ r \notin mem.responded
        /\ \/ mem'.responded = mem.responded
              /\ history'.responses = history.responses
           \/ mem'.responded = mem.responded \cup {r}
              /\ history'.responses = [history.responses EXCEPT ![r] = @ + 1]
  BY DEF Responding
<1>2. mem'.panel = mem.panel /\ UNCHANGED <<wire, provider>>
  BY DEF Responding
<1>3. history.responses \in [Requests -> Nat]
  BY DEF Sound, Histories
<1>4. r \in provider.asked /\ history.responses[r] = 0
      /\ \A k \in DOMAIN wire : wire[k].kind = "request" => wire[k].item # r
  BY <1>1 DEF Blocking
<1>5. CASE mem'.responded = mem.responded /\ history'.responses = history.responses
  BY <1>2, <1>5 DEF Blocking
<1>6. CASE /\ mem'.responded = mem.responded \cup {r}
           /\ history'.responses = [history.responses EXCEPT ![r] = @ + 1]
  <2>1. /\ history'.responses[r] = 1
        /\ \A q \in Requests : q # r => history'.responses[q] = history.responses[q]
    BY <1>3, <1>4, <1>6
  <2>2. \A k \in DOMAIN wire : wire[k].kind = "request" => wire[k].item \in Requests
    BY RequestItems DEF RequestAt, Sound
  <2>3. \A q \in Requests : history'.responses[q] <= 1
    BY <2>1 DEF Blocking
  <2>4. \A q \in Requests \ provider.asked : history'.responses[q] = 0
    BY <1>4, <2>1 DEF Blocking
  <2>5. \A q \in mem.panel \cap Requests :
          q \notin mem'.responded => history'.responses[q] = 0
    BY <1>6, <2>1 DEF Blocking
  <2>6. \A k \in DOMAIN wire : wire[k].kind = "request" =>
          history'.responses[wire[k].item] = 0
    BY <1>4, <2>1, <2>2 DEF Blocking
  <2> QED BY <1>2, <2>3, <2>4, <2>5, <2>6 DEF Blocking
<1> QED BY <1>1, <1>5, <1>6

\* A request that is read is new in the panel and has no response.
LEMMA BlockingReads ==
  ASSUME Blocking, Sound, Sound', Reading PROVE Blocking'
<1> DEFINE e == Head(wire)
<1>1. /\ Drops(1) /\ GoodEvent(e) /\ e = wire[1] /\ 1 \in DOMAIN wire
      /\ Applied(mem, e, mem') /\ UNCHANGED <<provider, history>>
  BY HeadIsDropped DEF Sound, Reading, Drops
<1>2. PICK f : /\ \A j \in DOMAIN wire' : f[j] \in DOMAIN wire /\ f[j] # 1
                    /\ wire'[j] = wire[f[j]]
               /\ \A i, j \in DOMAIN wire' : f[i] = f[j] => i = j
  BY <1>1, DroppedPlaces
<1>3. CASE e.kind # "request"
  <2>1. /\ mem'.panel \cap Requests \subseteq mem.panel \cap Requests
        /\ \A r \in mem'.panel \cap Requests :
             r \in mem.responded => r \in mem'.responded
    <3>1. CASE e.kind = "resolved"
      BY <1>1, <3>1 DEF Applied
    <3>2. CASE e.kind = "completed"
      BY <1>1, <3>2 DEF Applied, NoRequests
    <3>3. CASE e.kind \notin {"request", "resolved", "completed"}
      BY <1>1, <3>3 DEF Applied
    <3> QED BY <1>3, <3>1, <3>2, <3>3
  <2> QED BY <1>1, <1>2, <2>1, BlockingFollows
<1>4. CASE e.kind = "request"
  <2>1. mem'.panel = mem.panel \cup {e.item} /\ mem'.responded = mem.responded
    BY <1>1, <1>4 DEF Applied
  <2>2. e.item \in provider.asked /\ history.responses[e.item] = 0
        /\ e.item \in Requests
    BY <1>1, <1>4 DEF Blocking, GoodEvent
  <2>3. \A k \in DOMAIN wire' : wire'[k].kind = "request" =>
          /\ wire'[k].item \in provider.asked /\ wire'[k].item \notin mem.panel
          /\ history.responses[wire'[k].item] = 0 /\ wire'[k].item # e.item
    BY <1>1, <1>2, <1>4 DEF Blocking
  <2>4. \A j, k \in DOMAIN wire' :
          wire'[j].kind = "request" /\ wire'[k].kind = "request"
            /\ wire'[j].item = wire'[k].item => j = k
    BY <1>2 DEF Blocking
  <2>5. \A r \in mem'.panel \cap Requests :
          /\ r \in provider.asked
          /\ r \notin mem'.responded => history.responses[r] = 0
    BY <2>1, <2>2 DEF Blocking
  <2> QED BY <1>1, <2>1, <2>3, <2>4, <2>5 DEF Blocking
<1> QED BY <1>3, <1>4

\* A request that is asked was not asked before.
LEMMA BlockingAsks == ASSUME Blocking, Sound, Asking PROVE Blocking'
<1>1. PICK r, e :
        /\ r \in Requests \ provider.asked
        /\ provider'.open = provider.open \cup {r}
        /\ provider'.asked = provider.asked \cup {r}
        /\ Says(e) /\ e.kind = "request" /\ e.item = r
  BY DEF Asking
<1>2. UNCHANGED <<mem, history>>
  BY DEF Asking, Outside
<1>3. r \notin mem.panel /\ history.responses[r] = 0
  BY <1>1 DEF Blocking
<1>4. \A k \in DOMAIN wire : wire[k].kind = "request" => wire[k].item # r
  BY <1>1 DEF Blocking
<1>5. \A k \in DOMAIN wire' :
        \/ k \in DOMAIN wire /\ wire'[k] = wire[k]
        \/ k = Len(wire) + 1 /\ wire'[k] = e
  BY <1>1 DEF Says, Longer
<1>6. \A k \in DOMAIN wire' : wire'[k].kind = "request" =>
        /\ wire'[k].item \in provider'.asked /\ wire'[k].item \notin mem.panel
        /\ history.responses[wire'[k].item] = 0
  BY <1>1, <1>3, <1>5 DEF Blocking
<1>7. \A j, k \in DOMAIN wire' :
        wire'[j].kind = "request" /\ wire'[k].kind = "request"
          /\ wire'[j].item = wire'[k].item => j = k
  BY <1>1, <1>4, <1>5 DEF Blocking
<1>8. /\ provider'.open \subseteq provider'.asked
      /\ \A q \in Requests : history.responses[q] <= 1
      /\ \A q \in Requests \ provider'.asked : history.responses[q] = 0
      /\ \A q \in mem.panel \cap Requests :
           /\ q \in provider'.asked
           /\ q \notin mem.responded => history.responses[q] = 0
  BY <1>1 DEF Blocking
<1> QED BY <1>2, <1>6, <1>7, <1>8 DEF Blocking

LEMMA BlockingIsKept == ASSUME Inv, Sound', Steps PROVE Blocking'
<1>0. Blocking /\ Sound
  BY DEF Inv
<1>1. CASE Calm \/ Launch \/ Settling \/ Recording
  <2>1. /\ UNCHANGED wire /\ history'.responses = history.responses
        /\ mem'.panel \cap Requests = mem.panel \cap Requests
        /\ mem'.responded = mem.responded
        /\ provider'.open = provider.open /\ provider'.asked = provider.asked
    BY <1>1 DEF Calm, Launch, Settling, Recording, SameRequests
  <2> QED BY <1>0, <2>1, SamePlaces, BlockingFollows
<1>2. CASE Reading
  BY <1>0, <1>2, BlockingReads
<1>3. CASE Responding
  BY <1>0, <1>3, BlockingResponds
<1>4. CASE Dying \/ Halting \/ Restarting
  BY <1>0, <1>4, BlockingCut DEF Dying, Halting, Restarting
<1>5. CASE Accepting \/ Failing
  <2>1. /\ history'.responses = history.responses
        /\ mem'.panel = mem.panel /\ mem'.responded = mem.responded
        /\ provider'.open = provider.open /\ provider'.asked = provider.asked
        /\ (\E k : Drops(k)) \/ UNCHANGED wire
    BY <1>5 DEF Accepting, Failing, CallIsOver, LosesReply
  <2>2. CASE \E k : Drops(k)
    <3>1. PICK k : Drops(k)
      BY <2>2
    <3> QED BY <1>0, <2>1, <3>1, DroppedPlaces, BlockingFollows
  <2>3. CASE UNCHANGED wire
    BY <1>0, <2>1, <2>3, SamePlaces, BlockingFollows
  <2> QED BY <2>1, <2>2, <2>3
<1>6. CASE Asking
  BY <1>0, <1>6, BlockingAsks
<1>7. CASE Saying \/ Resolving \/ Ending \/ Taking
  <2>1. /\ Longer /\ UNCHANGED mem /\ history'.responses = history.responses
        /\ provider'.open \subseteq provider.open
        /\ provider'.asked = provider.asked
    BY <1>7 DEF Saying, Resolving, Ending, Taking, Outside, Says
  <2>2. \A k \in DOMAIN wire' \ DOMAIN wire : wire'[k].kind # "request"
    BY <1>7 DEF Saying, Resolving, Ending, Taking, Says, Longer
  <2> QED BY <1>0, <2>1, <2>2, LongerPlaces, BlockingFollows
<1> QED BY <1>1, <1>2, <1>3, <1>4, <1>5, <1>6, <1>7 DEF Steps

-----------------------------------------------------------------------------
(* A request is read in its turn and before its end *)

\* The same wire, seen by a worker that knows of a turn when it did.
LEMMA TurnsFollow ==
  ASSUME Turns, mem'.panel \cap Requests = mem.panel \cap Requests,
         mem.turn # 0 => mem'.turn # 0,
         provider'.turn = provider.turn, provider'.open = provider.open,
         UNCHANGED wire
  PROVE  Turns'
<1>1. \A k : InTurn(k) => InTurn(k)'
  BY DEF InTurn
<1>2. \A k, r : EndsAfter(k, r) => EndsAfter(k, r)'
  BY DEF EndsAfter
<1>3. \A r \in mem'.panel \cap Requests : EndsAfter(0, r)'
  BY <1>2 DEF Turns
<1>4. provider'.turn # 0 => InTurn(Len(wire) + 1)'
  BY DEF Turns, InTurn
<1>5. \A k \in DOMAIN wire : wire[k].kind = "request" =>
        InTurn(k)' /\ EndsAfter(k, wire[k].item)'
  BY <1>1 DEF Turns, EndsAfter
<1> QED BY <1>3, <1>4, <1>5 DEF Turns

LEMMA TurnsCut == Cut => Turns'
BY DEF Turns, Cut, NoRequests, EndsAfter

\* A reply that is gone moves what follows it one place forward.
LEMMA DroppedTurns ==
  ASSUME NEW k, LosesReply(k), mem.turn # 0 => mem'.turn # 0,
         NEW i \in 1..Len(wire), InTurn(IF i < k THEN i ELSE i + 1)
  PROVE  InTurn(i)'
<1> DEFINE n == IF i < k THEN i ELSE i + 1
<1>0. /\ k \in DOMAIN wire /\ DOMAIN wire = 1..Len(wire) /\ Len(wire) \in Nat
      /\ DOMAIN wire' = 1..(Len(wire) - 1) /\ wire[k].kind = "reply"
      /\ \A j \in DOMAIN wire' : wire'[j] = IF j < k THEN wire[j] ELSE wire[j + 1]
  BY DEF LosesReply, Drops, IsReply
<1>1. CASE mem.turn # 0 /\ \A j \in DOMAIN wire : j < n => wire[j].kind # "completed"
  <2>1. \A j \in DOMAIN wire' : j < i => wire'[j].kind # "completed"
    BY <1>0, <1>1
  <2> QED BY <1>1, <2>1 DEF InTurn
<1>2. CASE \E j \in DOMAIN wire :
             /\ j < n /\ wire[j].kind = "started"
             /\ \A m \in DOMAIN wire : j < m /\ m < n => wire[m].kind # "completed"
  <2>1. PICK j \in DOMAIN wire :
             /\ j < n /\ wire[j].kind = "started"
             /\ \A m \in DOMAIN wire : j < m /\ m < n => wire[m].kind # "completed"
    BY <1>2
  <2> DEFINE p == IF j < k THEN j ELSE j - 1
  <2>2. j # k
    BY <1>0, <2>1
  <2>3. p \in DOMAIN wire' /\ p < i /\ wire'[p].kind = "started"
    BY <1>0, <2>1, <2>2
  <2>4. \A m \in DOMAIN wire' : p < m /\ m < i => wire'[m].kind # "completed"
    BY <1>0, <2>1, <2>2
  <2> QED BY <2>3, <2>4 DEF InTurn
<1> QED BY <1>1, <1>2 DEF InTurn

\* What ends request r after k still does when e, which does not, is dropped.
LEMMA DroppedEnds ==
  ASSUME NEW k, Drops(k), NEW r, ~Ends(wire[k], r),
         provider'.open = provider.open,
         NEW i \in 0..Len(wire), EndsAfter(IF i < k THEN i ELSE i + 1, r)
  PROVE  EndsAfter(i, r)'
<1> DEFINE n == IF i < k THEN i ELSE i + 1
<1>1. CASE r \in provider.open
  BY <1>1 DEF EndsAfter
<1>2. CASE \E j \in DOMAIN wire : n < j /\ Ends(wire[j], r)
  <2>1. PICK j \in DOMAIN wire : n < j /\ Ends(wire[j], r)
    BY <1>2
  <2> DEFINE p == IF j < k THEN j ELSE j - 1
  <2>2. j # k
    BY <2>1
  <2>3. p \in DOMAIN wire' /\ i < p /\ wire'[p] = wire[j]
    BY <2>1, <2>2 DEF Drops
  <2> QED BY <2>1, <2>3 DEF EndsAfter
<1> QED BY <1>1, <1>2 DEF EndsAfter

LEMMA TurnsLoseReply ==
  ASSUME Turns, NEW k, LosesReply(k),
         mem'.panel \cap Requests = mem.panel \cap Requests,
         mem.turn # 0 => mem'.turn # 0,
         provider'.turn = provider.turn, provider'.open = provider.open
  PROVE  Turns'
<1>1. /\ k \in DOMAIN wire /\ DOMAIN wire = 1..Len(wire) /\ Len(wire) \in Nat
      /\ DOMAIN wire' = 1..(Len(wire) - 1) /\ Len(wire') = Len(wire) - 1
      /\ \A j \in DOMAIN wire' : wire'[j] = IF j < k THEN wire[j] ELSE wire[j + 1]
      /\ Drops(k)
  BY DEF LosesReply, Drops
<1>2. \A r : ~Ends(wire[k], r)
  BY DEF LosesReply, IsReply, Ends
<1>3. ASSUME NEW r \in mem'.panel \cap Requests PROVE EndsAfter(0, r)'
  <2>1. EndsAfter(IF 0 < k THEN 0 ELSE 0 + 1, r)
    BY <1>1 DEF Turns
  <2> QED BY <1>1, <1>2, <2>1, DroppedEnds
<1>4. mem'.panel \cap Requests # {} => mem'.turn # 0
  BY DEF Turns
<1>5. ASSUME provider'.turn # 0 PROVE InTurn(Len(wire) + 1)'
  <2>1. Len(wire) \in 1..Len(wire) /\ ~(Len(wire) < k)
    BY <1>1
  <2>2. InTurn(IF Len(wire) < k THEN Len(wire) ELSE Len(wire) + 1)
    BY <1>5, <2>1 DEF Turns
  <2>3. PICK i : i = Len(wire)
    OBVIOUS
  <2>4. InTurn(i)'
    BY <2>1, <2>2, <2>3, DroppedTurns
  <2>5. Len(wire') + 1 = i
    BY <1>1, <2>3
  <2> QED BY <2>4, <2>5 DEF InTurn
<1>6. ASSUME NEW i \in DOMAIN wire', wire'[i].kind = "request"
      PROVE  InTurn(i)' /\ EndsAfter(i, wire[i].item)'
  <2> DEFINE n == IF i < k THEN i ELSE i + 1
  <2>1. n \in DOMAIN wire /\ wire'[i] = wire[n] /\ i \in 1..Len(wire)
        /\ i \in 0..Len(wire)
    BY <1>1
  <2>2. InTurn(n) /\ EndsAfter(n, wire[n].item)
    BY <1>6, <2>1 DEF Turns
  <2>3. InTurn(i)'
    BY <2>1, <2>2, DroppedTurns
  <2>4. ASSUME NEW r, r = wire[n].item PROVE EndsAfter(i, r)'
    BY <1>1, <1>2, <2>1, <2>2, <2>4, DroppedEnds
  <2>5. EndsAfter(i, wire[i].item)'
    BY <2>1, <2>4 DEF EndsAfter
  <2> QED BY <2>3, <2>5
<1> QED BY <1>3, <1>4, <1>5, <1>6 DEF Turns

\* What the worker has read by the time it reads event i + 1 is what it knows
\* after the head and what is before event i then.
LEMMA ReadTurns ==
  ASSUME Drops(1), GoodEvent(wire[1]), Applied(mem, wire[1], mem'),
         NEW i \in 1..Len(wire), InTurn(i + 1)
  PROVE  InTurn(i)'
<1>0. /\ 1 \in DOMAIN wire /\ DOMAIN wire = 1..Len(wire) /\ Len(wire) \in Nat
      /\ DOMAIN wire' = 1..(Len(wire) - 1)
      /\ \A j \in DOMAIN wire' : wire'[j] = wire[j + 1]
  BY DEF Drops
<1>1. CASE mem.turn # 0
             /\ \A j \in DOMAIN wire : j < i + 1 => wire[j].kind # "completed"
  <2>1. wire[1].kind # "completed"
    BY <1>0, <1>1
  <2>2. mem'.turn # 0
    BY <1>1, <2>1 DEF Applied, GoodEvent
  <2>3. \A j \in DOMAIN wire' : j < i => wire'[j].kind # "completed"
    BY <1>0, <1>1
  <2> QED BY <2>2, <2>3 DEF InTurn
<1>2. CASE \E j \in DOMAIN wire :
             /\ j < i + 1 /\ wire[j].kind = "started"
             /\ \A m \in DOMAIN wire :
                  j < m /\ m < i + 1 => wire[m].kind # "completed"
  <2>1. PICK j \in DOMAIN wire :
             /\ j < i + 1 /\ wire[j].kind = "started"
             /\ \A m \in DOMAIN wire :
                  j < m /\ m < i + 1 => wire[m].kind # "completed"
    BY <1>2
  <2>2. CASE j = 1
    <3>1. mem'.turn # 0
      BY <2>1, <2>2 DEF Applied, GoodEvent
    <3>2. \A m \in DOMAIN wire' : m < i => wire'[m].kind # "completed"
      BY <1>0, <2>1, <2>2
    <3> QED BY <3>1, <3>2 DEF InTurn
  <2>3. CASE j # 1
    <3>1. j - 1 \in DOMAIN wire' /\ j - 1 < i /\ wire'[j - 1].kind = "started"
      BY <1>0, <2>1, <2>3
    <3>2. \A m \in DOMAIN wire' : j - 1 < m /\ m < i => wire'[m].kind # "completed"
      BY <1>0, <2>1, <2>3
    <3> QED BY <3>1, <3>2 DEF InTurn
  <2> QED BY <2>2, <2>3
<1> QED BY <1>1, <1>2 DEF InTurn

LEMMA TurnsRead == ASSUME Turns, Sound, Reading PROVE Turns'
<1> DEFINE e == wire[1]
<1>1. /\ Drops(1) /\ GoodEvent(e) /\ Applied(mem, e, mem')
      /\ UNCHANGED <<provider, history>>
  BY HeadIsDropped DEF Sound, Reading
<1>2. /\ 1 \in DOMAIN wire /\ DOMAIN wire = 1..Len(wire) /\ Len(wire) \in Nat
      /\ DOMAIN wire' = 1..(Len(wire) - 1) /\ Len(wire') = Len(wire) - 1
      /\ \A j \in DOMAIN wire' : wire'[j] = wire[j + 1]
  BY <1>1 DEF Drops
<1>3. \A r \in Requests : EndsAfter(1, r) => EndsAfter(0, r)'
  <2> SUFFICES ASSUME NEW r \in Requests, EndsAfter(1, r) PROVE EndsAfter(0, r)'
    OBVIOUS
  <2>1. CASE r \in provider.open
    BY <1>1, <2>1 DEF EndsAfter
  <2>2. CASE \E j \in DOMAIN wire : 1 < j /\ Ends(wire[j], r)
    <3>1. PICK j \in DOMAIN wire : 1 < j /\ Ends(wire[j], r)
      BY <2>2
    <3>2. j - 1 \in DOMAIN wire' /\ 0 < j - 1 /\ wire'[j - 1] = wire[j]
      BY <1>2, <3>1
    <3> QED BY <3>1, <3>2 DEF EndsAfter
  <2> QED BY <2>1, <2>2 DEF EndsAfter
<1>4. ASSUME NEW r \in mem'.panel \cap Requests PROVE EndsAfter(0, r)'
  <2>1. CASE e.kind = "request" /\ r = e.item
    <3>1. EndsAfter(1, r)
      BY <1>2, <2>1 DEF Turns
    <3> QED BY <1>3, <3>1
  <2>2. CASE ~(e.kind = "request" /\ r = e.item)
    <3>1. r \in mem.panel /\ ~Ends(e, r)
      <4>1. CASE e.kind = "completed"
        BY <1>1, <4>1 DEF Applied, NoRequests
      <4>2. CASE e.kind = "resolved"
        BY <1>1, <4>2 DEF Applied, Ends
      <4>3. CASE e.kind = "request"
        BY <1>1, <2>2, <4>3 DEF Applied, Ends
      <4>4. CASE e.kind \notin {"completed", "resolved", "request"}
        BY <1>1, <4>4 DEF Applied, Ends
      <4> QED BY <4>1, <4>2, <4>3, <4>4
    <3>2. EndsAfter(0, r)
      BY <3>1 DEF Turns
    <3>3. EndsAfter(1, r)
      <4>1. CASE r \in provider.open
        BY <4>1 DEF EndsAfter
      <4>2. CASE \E j \in DOMAIN wire : 0 < j /\ Ends(wire[j], r)
        <5>1. PICK j \in DOMAIN wire : 0 < j /\ Ends(wire[j], r)
          BY <4>2
        <5>2. 1 < j
          BY <1>2, <3>1, <5>1
        <5> QED BY <5>1, <5>2 DEF EndsAfter
      <4> QED BY <3>2, <4>1, <4>2 DEF EndsAfter
    <3> QED BY <1>3, <3>3
  <2> QED BY <2>1, <2>2
<1>5. ASSUME mem'.panel \cap Requests # {} PROVE mem'.turn # 0
  <2>1. CASE e.kind = "request"
    <3>1. InTurn(1)
      BY <1>2, <2>1 DEF Turns
    <3>2. mem.turn # 0
      BY <1>2, <3>1 DEF InTurn
    <3> QED BY <1>1, <2>1, <3>2 DEF Applied
  <2>2. CASE e.kind = "started"
    BY <1>1, <2>2 DEF Applied, GoodEvent
  <2>3. CASE e.kind = "completed"
    BY <1>1, <1>5, <2>3 DEF Applied, NoRequests
  <2>4. CASE e.kind \notin {"request", "started", "completed"}
    <3>1. mem.panel \cap Requests # {} /\ mem'.turn = mem.turn
      BY <1>1, <1>5, <2>4 DEF Applied
    <3> QED BY <3>1 DEF Turns
  <2> QED BY <2>1, <2>2, <2>3, <2>4
<1>6. ASSUME provider'.turn # 0 PROVE InTurn(Len(wire) + 1)'
  <2>1. PICK i : i = Len(wire)
    OBVIOUS
  <2>2. i \in 1..Len(wire) /\ InTurn(i + 1)
    BY <1>1, <1>2, <1>6, <2>1 DEF Turns
  <2>3. InTurn(i)'
    BY <1>1, <2>2, ReadTurns
  <2>4. Len(wire') + 1 = i
    BY <1>2, <2>1
  <2> QED BY <2>3, <2>4 DEF InTurn
<1>7. ASSUME NEW k \in DOMAIN wire', wire'[k].kind = "request"
      PROVE  InTurn(k)' /\ EndsAfter(k, wire[k].item)'
  <2>1. k + 1 \in DOMAIN wire /\ wire'[k] = wire[k + 1] /\ k \in 1..Len(wire)
    BY <1>2
  <2>2. InTurn(k + 1) /\ EndsAfter(k + 1, wire[k + 1].item)
    BY <1>7, <2>1 DEF Turns
  <2>3. InTurn(k)'
    BY <1>1, <2>1, <2>2, ReadTurns
  <2>4. EndsAfter(k, wire[k].item)'
    <3>1. CASE wire[k + 1].item \in provider.open
      BY <1>1, <2>1, <3>1 DEF EndsAfter
    <3>2. CASE \E j \in DOMAIN wire : k + 1 < j /\ Ends(wire[j], wire[k + 1].item)
      <4>1. PICK j \in DOMAIN wire : k + 1 < j /\ Ends(wire[j], wire[k + 1].item)
        BY <3>2
      <4>2. j - 1 \in DOMAIN wire' /\ k < j - 1 /\ wire'[j - 1] = wire[j]
        BY <1>2, <4>1
      <4> QED BY <2>1, <4>1, <4>2 DEF EndsAfter
    <3> QED BY <2>2, <3>1, <3>2 DEF EndsAfter
  <2> QED BY <2>3, <2>4
<1> QED BY <1>4, <1>5, <1>6, <1>7 DEF Turns

\* The provider goes on.
LEMMA LongerTurns ==
  ASSUME Longer, UNCHANGED mem, NEW i \in 1..(Len(wire) + 1), InTurn(i)
  PROVE  InTurn(i)'
<1>1. /\ DOMAIN wire = 1..Len(wire) /\ Len(wire) \in Nat
      /\ DOMAIN wire' = 1..Len(wire') /\ Len(wire') \in Nat
      /\ Len(wire) < Len(wire') /\ \A j \in DOMAIN wire : wire'[j] = wire[j]
  BY DEF Longer
<1>2. \A j \in DOMAIN wire' : j < i => j \in DOMAIN wire /\ wire'[j] = wire[j]
  BY <1>1
<1>3. \A j \in DOMAIN wire : j \in DOMAIN wire' /\ wire'[j] = wire[j]
  BY <1>1
<1>4. CASE mem.turn # 0 /\ \A j \in DOMAIN wire : j < i => wire[j].kind # "completed"
  BY <1>2, <1>4 DEF InTurn
<1>5. CASE \E j \in DOMAIN wire :
             /\ j < i /\ wire[j].kind = "started"
             /\ \A m \in DOMAIN wire : j < m /\ m < i => wire[m].kind # "completed"
  BY <1>2, <1>3, <1>5 DEF InTurn
<1> QED BY <1>4, <1>5 DEF InTurn

\* A turn that runs at the end of the wire goes on, when nothing ends it.
LEMMA TurnGoesOn ==
  ASSUME Longer, UNCHANGED mem, InTurn(Len(wire) + 1),
         \A k \in DOMAIN wire' \ DOMAIN wire : wire'[k].kind # "completed"
  PROVE  InTurn(Len(wire) + 1)'
<1>1. /\ DOMAIN wire = 1..Len(wire) /\ Len(wire) \in Nat
      /\ DOMAIN wire' = 1..Len(wire') /\ Len(wire') \in Nat
      /\ Len(wire) < Len(wire') /\ \A j \in DOMAIN wire : wire'[j] = wire[j]
  BY DEF Longer
<1>2. CASE mem.turn # 0
             /\ \A j \in DOMAIN wire :
                  j < Len(wire) + 1 => wire[j].kind # "completed"
  <2>1. \A j \in DOMAIN wire' : wire'[j].kind # "completed"
    BY <1>1, <1>2
  <2> QED BY <1>2, <2>1 DEF InTurn
<1>3. CASE \E j \in DOMAIN wire :
             /\ j < Len(wire) + 1 /\ wire[j].kind = "started"
             /\ \A m \in DOMAIN wire :
                  j < m /\ m < Len(wire) + 1 => wire[m].kind # "completed"
  <2>1. PICK j \in DOMAIN wire :
             /\ j < Len(wire) + 1 /\ wire[j].kind = "started"
             /\ \A m \in DOMAIN wire :
                  j < m /\ m < Len(wire) + 1 => wire[m].kind # "completed"
    BY <1>3
  <2>2. \A m \in DOMAIN wire' : j < m => wire'[m].kind # "completed"
    BY <1>1, <2>1
  <2>3. j \in DOMAIN wire' /\ j < Len(wire') + 1 /\ wire'[j].kind = "started"
    BY <1>1, <2>1
  <2> QED BY <2>2, <2>3 DEF InTurn
<1> QED BY <1>2, <1>3 DEF InTurn

\* The end of a request that was not over stays ahead of it.
LEMMA LongerEnds ==
  ASSUME Longer, NEW i, NEW r, EndsAfter(i, r),
         r \in provider.open =>
           \/ r \in provider'.open
           \/ \E j \in DOMAIN wire' : i < j /\ Ends(wire'[j], r)
  PROVE  EndsAfter(i, r)'
<1>1. \A j \in DOMAIN wire : j \in DOMAIN wire' /\ wire'[j] = wire[j]
  BY DEF Longer
<1> QED BY <1>1 DEF EndsAfter

LEMMA TurnsGoOn ==
  ASSUME Turns, Sound, Longer, UNCHANGED mem,
         \A r \in provider.open : r \in provider'.open
           \/ \E j \in DOMAIN wire' \ DOMAIN wire : Ends(wire'[j], r),
         provider'.turn # 0 => InTurn(Len(wire) + 1)',
         \A k \in DOMAIN wire' \ DOMAIN wire : wire'[k].kind = "request" =>
           InTurn(k)' /\ wire'[k].item \in provider'.open
  PROVE  Turns'
<1>1. /\ DOMAIN wire = 1..Len(wire) /\ Len(wire) \in Nat
      /\ DOMAIN wire' = 1..Len(wire') /\ Len(wire') \in Nat
      /\ Len(wire) < Len(wire') /\ \A j \in DOMAIN wire : wire'[j] = wire[j]
  BY DEF Longer
<1>2. \A i \in 0..Len(wire) : \A r : EndsAfter(i, r) => EndsAfter(i, r)'
  <2> SUFFICES ASSUME NEW i \in 0..Len(wire), NEW r, EndsAfter(i, r)
               PROVE  EndsAfter(i, r)'
    OBVIOUS
  <2>1. r \in provider.open =>
           \/ r \in provider'.open
           \/ \E j \in DOMAIN wire' : i < j /\ Ends(wire'[j], r)
    BY <1>1
  <2> QED BY <2>1, LongerEnds
<1>3. \A r \in mem'.panel \cap Requests : EndsAfter(0, r)'
  BY <1>1, <1>2 DEF Turns
<1>4. mem'.panel \cap Requests # {} => mem'.turn # 0
  BY DEF Turns
<1>5. ASSUME NEW k \in DOMAIN wire', wire'[k].kind = "request"
      PROVE  InTurn(k)' /\ EndsAfter(k, wire[k].item)'
  <2>1. CASE k \in DOMAIN wire
    <3>1. InTurn(k) /\ EndsAfter(k, wire[k].item) /\ wire'[k] = wire[k]
          /\ k \in 1..(Len(wire) + 1) /\ k \in 0..Len(wire)
      BY <1>1, <1>5, <2>1 DEF Turns
    <3>2. InTurn(k)'
      BY <3>1, LongerTurns
    <3>3. ASSUME NEW r, r = wire[k].item PROVE EndsAfter(k, r)'
      BY <1>2, <3>1, <3>3
    <3>4. EndsAfter(k, wire[k].item)'
      BY <3>1, <3>3 DEF EndsAfter
    <3> QED BY <3>2, <3>4
  <2>2. CASE k \notin DOMAIN wire
    BY <1>5, <2>2 DEF EndsAfter
  <2> QED BY <2>1, <2>2
<1> QED BY <1>3, <1>4, <1>5 DEF Turns

LEMMA TurnsIsKept == ASSUME Inv, Sound', Steps PROVE Turns'
<1>0. Turns /\ Sound
  BY DEF Inv
<1>1. CASE Calm \/ Launch \/ Settling \/ Recording \/ Responding
  <2>1. /\ UNCHANGED wire /\ mem'.panel \cap Requests = mem.panel \cap Requests
        /\ mem'.turn = mem.turn
        /\ provider'.turn = provider.turn /\ provider'.open = provider.open
    BY <1>1 DEF Calm, Launch, Settling, Recording, Responding, SameRequests
  <2> QED BY <1>0, <2>1, TurnsFollow
<1>2. CASE Reading
  BY <1>0, <1>2, TurnsRead
<1>3. CASE Dying \/ Halting \/ Restarting
  BY <1>3, TurnsCut DEF Dying, Halting, Restarting
<1>4. CASE Accepting \/ Failing
  <2>1. /\ mem'.panel \cap Requests = mem.panel \cap Requests
        /\ mem.turn # 0 => mem'.turn # 0
        /\ provider'.turn = provider.turn /\ provider'.open = provider.open
        /\ (\E k : LosesReply(k)) \/ UNCHANGED wire
    BY <1>4 DEF Accepting, Failing, CallIsOver
  <2> QED BY <1>0, <2>1, TurnsFollow, TurnsLoseReply
<1>5. CASE Asking
  <2>1. PICK r, e :
          /\ r \in Requests
          /\ provider'.open = provider.open \cup {r}
          /\ Says(e) /\ e.kind = "request" /\ e.item = r
    BY <1>5 DEF Asking
  <2>2. /\ Longer /\ DOMAIN wire' \ DOMAIN wire = {Len(wire) + 1}
        /\ wire'[Len(wire) + 1] = e /\ UNCHANGED mem
        /\ Len(wire) + 1 \in 1..(Len(wire) + 1)
    BY <1>5, <2>1 DEF Says, Longer, Asking, Outside
  <2>3. InTurn(Len(wire) + 1)
    BY <1>0, <1>5 DEF Asking, Turns
  <2>4. InTurn(Len(wire) + 1)'
    BY <2>1, <2>2, <2>3, TurnGoesOn
  <2>5. ASSUME NEW k \in DOMAIN wire' \ DOMAIN wire PROVE InTurn(k)'
    <3>1. k \in 1..(Len(wire) + 1) /\ k = Len(wire) + 1
      BY <2>2
    <3>2. InTurn(k)
      BY <2>3, <3>1
    <3> QED BY <2>2, <3>1, <3>2, LongerTurns
  <2> QED BY <1>0, <2>1, <2>2, <2>4, <2>5, TurnsGoOn
<1>6. CASE Saying \/ Resolving \/ Ending
  <2>1. PICK e : Says(e) /\ e.kind \in {"note", "remove", "move", "resolved", "completed"}
                 /\ (Ending => e.kind = "completed")
                 /\ (e.kind = "completed" => provider'.turn = 0)
                 /\ (provider'.turn # 0 => provider.turn # 0)
                 /\ \A r \in provider.open : r \in provider'.open \/ Ends(e, r)
    BY <1>6 DEF Saying, Resolving, Ending, Ends
  <2>2. /\ Longer /\ DOMAIN wire' \ DOMAIN wire = {Len(wire) + 1}
        /\ wire'[Len(wire) + 1] = e /\ UNCHANGED mem
    BY <1>6, <2>1 DEF Says, Longer, Saying, Resolving, Ending, Outside
  <2>3. provider'.turn # 0 => InTurn(Len(wire) + 1)'
    BY <1>0, <2>1, <2>2, TurnGoesOn DEF Turns
  <2> QED BY <1>0, <2>1, <2>2, <2>3, TurnsGoOn
<1>7. CASE Taking
  <2>1. /\ Longer /\ UNCHANGED mem /\ provider'.open = provider.open
        /\ \A k \in DOMAIN wire' \ DOMAIN wire : wire'[k].kind \in {"started", "reply"}
    BY <1>7 DEF Taking, Outside
  <2>2. ASSUME provider'.turn # 0 PROVE InTurn(Len(wire) + 1)'
    <3>1. CASE provider.turn # 0
      BY <1>0, <2>1, <3>1, TurnGoesOn DEF Turns
    <3>2. CASE \E k \in DOMAIN wire' \ DOMAIN wire : wire'[k].kind = "started"
      <4>1. PICK k \in DOMAIN wire' \ DOMAIN wire : wire'[k].kind = "started"
        BY <3>2
      <4>2. \A j \in DOMAIN wire' : k < j => wire'[j].kind # "completed"
        BY <2>1, <4>1 DEF Longer
      <4>3. k < Len(wire') + 1
        BY <2>1, <4>1 DEF Longer
      <4> QED BY <4>1, <4>2, <4>3 DEF InTurn
    <3> QED BY <1>7, <2>2, <3>1, <3>2 DEF Taking
  <2> QED BY <1>0, <2>1, <2>2, TurnsGoOn
<1> QED BY <1>1, <1>2, <1>3, <1>4, <1>5, <1>6, <1>7 DEF Steps

-----------------------------------------------------------------------------
(* An answer counts only when it was delivered, or is kept *)

LEMMA KeptFollows ==
  ASSUME NEW s, NEW t, NEW h, NEW g, KeptBy(h, s),
         h.declined \subseteq g.declined, h.queued \subseteq g.queued,
         \A a \in Asked : SentBy(h, a) => SentBy(g, a),
         \A a \in Asked \cap (Range(s.queue) \cup s.unsent) :
           a \in Range(t.queue) \cup t.unsent \/ SentBy(g, a),
         \A a \in Settled(t) \ Settled(s) :
           \/ a \in g.declined \/ SentBy(g, a)
           \/ a \in g.queued /\ a \in Range(t.queue) \cup t.unsent
  PROVE  KeptBy(g, t)
<1> SUFFICES ASSUME NEW a \in Settled(t) \ g.declined
             PROVE  \/ SentBy(g, a)
                    \/ a \in g.queued /\ a \in Range(t.queue) \cup t.unsent
  BY DEF KeptBy
<1>1. a \in Asked
  BY DEF Settled
<1>2. CASE a \in Settled(s)
  BY <1>1, <1>2 DEF KeptBy
<1> QED BY <1>2

\* In memory and in the file.
LEMMA BothKept ==
  ASSUME Kept(mem), Kept(disk), Good(mem'), DiskFollows,
         history.declined \subseteq history'.declined,
         history.queued \subseteq history'.queued,
         \A a \in Asked : SentBy(history, a) => SentBy(history', a),
         \A a \in Asked \cap (Range(mem.queue) \cup mem.unsent) :
           a \in Range(mem'.queue) \cup mem'.unsent \/ SentBy(history', a),
         \A a \in Settled(mem') \ Settled(mem) :
           \/ a \in history'.declined \/ SentBy(history', a)
           \/ a \in history'.queued /\ a \in Range(mem'.queue) \cup mem'.unsent
  PROVE  Kept(mem)' /\ Kept(disk)'
<1>1. KeptBy(history', mem')
  BY KeptFollows DEF Kept
<1>2. CASE disk' = disk
  <2>1. KeptBy(history', disk)
    BY KeptFollows DEF Kept
  <2> QED BY <1>1, <1>2, <2>1 DEF Kept
<1>3. CASE disk' = Saved(mem')
  <2>1. /\ Settled(Saved(mem')) = Settled(mem')
        /\ Saved(mem').queue = mem'.queue /\ Saved(mem').unsent = mem'.unsent
    BY SavedGood DEF Alike
  <2>2. KeptBy(history', Saved(mem'))
    BY <1>1, <2>1 DEF KeptBy
  <2> QED BY <1>1, <1>3, <2>2 DEF Kept
<1> QED BY <1>2, <1>3 DEF DiskFollows

LEMMA SentGrows ==
  ASSUME history'.sent = history.sent, history'.batch = history.batch
  PROVE  \A a \in Asked : SentBy(history, a) => SentBy(history', a)
BY DEF SentBy

LEMMA DeliveredIsSent ==
  ASSUME NEW p, Delivered(p), NEW a \in Asked, a = p \/ p = Batch(a[1])
  PROVE  SentBy(history, a)
<1>1. a[1] \in Notes
  BY AskedIs
<1> QED BY <1>1 DEF Delivered, SentBy

LEMMA KeptIsKept == ASSUME Inv, Sound', Steps PROVE Kept(mem)' /\ Kept(disk)'
<1>0. Kept(mem) /\ Kept(disk) /\ Replies /\ Good(mem')
  BY DEF Inv, Delivery, Sound
<1>1. CASE Calm \/ Reading \/ Responding \/ Dying \/ Halting \/ Launch \/ Failing
  <2>1. /\ Settled(mem') = Settled(mem) /\ DiskFollows
        /\ Range(mem.queue) \cup mem.unsent \subseteq Range(mem'.queue) \cup mem'.unsent
    BY <1>1 DEF Calm, Reading, Responding, Dying, Halting, Launch, Failing, Alike,
                DiskFollows
  <2>2. /\ history'.sent = history.sent /\ history'.batch = history.batch
        /\ history'.declined = history.declined /\ history'.queued = history.queued
    BY <1>1 DEF Calm, Reading, Responding, Dying, Halting, Launch, Failing, Cut
  <2> QED BY <1>0, <2>1, <2>2, SentGrows, BothKept
<1>2. CASE Settling
  BY <1>0, <1>2, SentGrows, BothKept DEF Settling, DiskFollows
<1>3. CASE Recording
  <2>1. /\ Delivered(worker.prompt) /\ DiskFollows
        /\ history'.sent = history.sent /\ history'.batch = history.batch
        /\ history'.declined = history.declined /\ history'.queued = history.queued
        /\ mem'.queue = mem.queue /\ mem'.unsent = mem.unsent
    BY <1>0, <1>3 DEF Recording, Replies, DiskFollows
  <2>2. ASSUME NEW a \in Settled(mem') \ Settled(mem) PROVE SentBy(history', a)
    <3>1. a \in Asked
      BY DEF Settled
    <3>2. a = worker.prompt \/ worker.prompt = Batch(a[1])
      BY <1>3 DEF Recording
    <3> QED BY <2>1, <3>1, <3>2, DeliveredIsSent, SentGrows
  <2> QED BY <1>0, <2>1, <2>2, SentGrows, BothKept
<1>4. CASE Restarting
  <2>1. KeptBy(history, disk) /\ Alike(disk, mem') /\ disk' = mem'
        /\ history'.sent = history.sent /\ history'.batch = history.batch
        /\ history'.declined = history.declined /\ history'.queued = history.queued
    BY <1>0, <1>4 DEF Kept, Restarting, Cut
  <2>2. KeptBy(history', mem')
    BY <2>1, SentGrows, KeptFollows DEF Alike
  <2> QED BY <2>1, <2>2 DEF Kept
<1>5. CASE Accepting
  <2>1. /\ Settled(mem') = Settled(mem) /\ mem'.queue = mem.queue
        /\ mem'.unsent = mem.unsent \ {worker.prompt} /\ DiskFollows
        /\ UNCHANGED history /\ Delivered(worker.prompt)
    BY <1>0, <1>5 DEF Accepting, LosesReply, Drops, Replies, DiskFollows
  <2>2. \A a \in Asked : a = worker.prompt => SentBy(history, a)
    BY <2>1, DeliveredIsSent
  <2> QED BY <1>0, <2>1, <2>2, BothKept
<1>6. CASE Asking \/ Saying \/ Resolving \/ Ending
  <2>1. UNCHANGED <<mem, disk, history>>
    BY <1>6 DEF Asking, Saying, Resolving, Ending, Outside
  <2> QED BY <1>0, <2>1 DEF Kept
<1>7. CASE Taking
  <2>1. /\ UNCHANGED <<mem, disk>>
        /\ history'.declined = history.declined /\ history'.queued = history.queued
    BY <1>7 DEF Taking, Outside
  <2>2. \A a \in Asked : SentBy(history, a) => SentBy(history', a)
    BY <1>7 DEF Taking, SentBy
  <2> QED BY <1>0, <2>1, <2>2, BothKept DEF DiskFollows
<1> QED BY <1>1, <1>2, <1>3, <1>4, <1>5, <1>6, <1>7 DEF Steps

-----------------------------------------------------------------------------
(* The reply on the wire is the one that is waited for *)

\* No message is in flight, and none was.
LEMMA RepliesRest ==
  ASSUME Replies, ~Flying, ~Flying', UNCHANGED <<wire, provider>>
  PROVE  Replies'
BY DEF Replies, Flying, IsReply

\* The same message is in flight, and at least as much was taken.
LEMMA RepliesSame ==
  ASSUME Replies, SameWorker, UNCHANGED <<wire, provider>>,
         history'.sent = history.sent, history'.batch = history.batch
  PROVE  Replies'
BY DEF Replies, SameWorker, IsReply, Delivered

LEMMA RepliesLost ==
  ASSUME Replies, NEW k, LosesReply(k) PROVE \A j \in DOMAIN wire' : ~IsReply(j)'
<1>1. PICK f : \A j \in DOMAIN wire' : /\ f[j] \in DOMAIN wire /\ f[j] # k
                                       /\ wire'[j] = wire[f[j]]
  BY DroppedPlaces DEF LosesReply
<1>2. k \in DOMAIN wire /\ IsReply(k)
  BY DEF LosesReply, Drops
<1> QED BY <1>1, <1>2 DEF Replies, IsReply

LEMMA RepliesRead == ASSUME Replies, Sound, Reading PROVE Replies'
<1>1. Drops(1) /\ SameWorker /\ UNCHANGED <<provider, history>>
  BY HeadIsDropped DEF Sound, Reading
<1>2. PICK f : /\ \A j \in DOMAIN wire' : f[j] \in DOMAIN wire /\ f[j] # 1
                    /\ wire'[j] = wire[f[j]]
               /\ \A i, j \in DOMAIN wire' : f[i] = f[j] => i = j
  BY <1>1, DroppedPlaces
<1>3. /\ provider'.call # "taken" => \A k \in DOMAIN wire' : wire'[k].kind # "reply"
      /\ \A j, k \in DOMAIN wire' :
           wire'[j].kind = "reply" /\ wire'[k].kind = "reply" => j = k
      /\ \A k \in DOMAIN wire' :
           wire'[k].kind = "reply" /\ wire'[k].outcome = "ok"
             => Delivered(worker.prompt)
  BY <1>1, <1>2 DEF Replies, IsReply
<1> QED BY <1>1, <1>3 DEF Replies, IsReply, Delivered, SameWorker

LEMMA RepliesTaken == ASSUME Replies, Taking PROVE Replies'
<1>1. /\ worker.step = "calling" /\ \A k \in DOMAIN wire : wire[k].kind # "reply"
      /\ UNCHANGED worker /\ provider'.call = "taken" /\ Longer
  BY DEF Replies, Taking, IsReply, Outside
<1>2. \A k \in DOMAIN wire' : wire'[k].kind = "reply" => k \notin DOMAIN wire
  BY <1>1 DEF Longer
<1>3. \A j, k \in DOMAIN wire' :
        wire'[j].kind = "reply" /\ wire'[k].kind = "reply" => j = k
  BY <1>2 DEF Taking
<1>4. ASSUME NEW k \in DOMAIN wire', wire'[k].kind = "reply",
             wire'[k].outcome = "ok"
      PROVE  Delivered(worker.prompt)'
  <2>1. /\ \A a \in Asked : a = worker.prompt => history'.sent[a] > 0
        /\ \A n \in Notes : worker.prompt = Batch(n) => n \in history'.batch
    BY <1>2, <1>3, <1>4 DEF Taking
  <2> QED BY <1>1, <2>1 DEF Delivered
<1> QED BY <1>1, <1>3, <1>4 DEF Replies, IsReply

LEMMA RepliesIsKept == ASSUME Inv, Sound', Steps PROVE Replies'
<1>0. Replies /\ Sound
  BY DEF Inv, Delivery
<1>1. CASE Calm
  <2>1. CASE UNCHANGED worker
    BY <1>0, <1>1, <2>1, RepliesSame DEF Calm, SameWorker
  <2>2. CASE ~Flying /\ ~Flying'
    BY <1>0, <1>1, <2>2, RepliesRest DEF Calm
  <2> QED BY <1>1, <2>1, <2>2 DEF Calm
<1>2. CASE Launch
  BY <1>0, <1>2 DEF Launch, Replies, Flying, IsReply
<1>3. CASE Settling
  BY <1>0, <1>3, RepliesSame DEF Settling, SameWorker
<1>4. CASE Recording
  BY <1>0, <1>4 DEF Recording, Replies, Flying, IsReply
<1>5. CASE Reading
  BY <1>0, <1>5, RepliesRead
<1>6. CASE Responding
  BY <1>0, <1>6, RepliesRest DEF Responding
<1>7. CASE Dying \/ Halting \/ Restarting
  <2>1. Cut
    BY <1>7 DEF Dying, Halting, Restarting
  <2> QED BY <2>1 DEF Cut, Replies, Flying, IsReply
<1>8. CASE Accepting
  <2>1. \A j \in DOMAIN wire' : ~IsReply(j)'
    BY <1>0, <1>8, RepliesLost DEF Accepting
  <2>2. Delivered(worker.prompt) /\ UNCHANGED history /\ provider'.call = "none"
    BY <1>0, <1>8 DEF Accepting, LosesReply, Drops, Replies, CallIsOver
  <2>3. CASE worker'.step = "record" /\ worker'.prompt = worker.prompt
    BY <2>1, <2>2, <2>3 DEF Replies, Delivered
  <2>4. CASE ~Flying'
    BY <2>1, <2>2, <2>4 DEF Replies, Flying
  <2> QED BY <1>8, <2>3, <2>4 DEF Accepting
<1>9. CASE Failing
  <2>1. \A j \in DOMAIN wire' : ~IsReply(j)'
    BY <1>0, <1>9, RepliesLost DEF Failing, IsReply
  <2> QED BY <1>9, <2>1 DEF Failing, Replies, Flying, CallIsOver
<1>10. CASE Asking \/ Saying \/ Resolving \/ Ending
  <2>1. PICK e : Says(e) /\ e.kind # "reply"
    BY <1>10 DEF Asking, Saying, Resolving, Ending
  <2>2. /\ UNCHANGED <<worker, history>> /\ provider'.call = provider.call
    BY <1>10 DEF Asking, Saying, Resolving, Ending, Outside
  <2>3. \A k \in DOMAIN wire' : wire'[k].kind = "reply" =>
          k \in DOMAIN wire /\ wire'[k] = wire[k]
    BY <2>1 DEF Says, Longer
  <2> QED BY <1>0, <2>2, <2>3 DEF Replies, IsReply, Delivered
<1>11. CASE Taking
  BY <1>0, <1>11, RepliesTaken
<1> QED BY <1>1, <1>2, <1>3, <1>4, <1>5, <1>6, <1>7, <1>8, <1>9, <1>10, <1>11
        DEF Steps

-----------------------------------------------------------------------------
(* An answer is sent once *)

\* What is settled and what is queued, after a step that adds nothing that
\* could be queued.
LEMMA SecureFollows ==
  ASSUME Good(mem'), DiskFollows, Settled(mem) \subseteq Settled(mem'),
         NEW a, a \in Range(mem'.queue) => a \in Range(mem.queue)
  PROVE  (Secure(a) => Secure(a)') /\ (Unqueued(a) => Unqueued(a)')
<1>1. disk' = disk \/ (/\ Settled(disk') = Settled(mem')
                       /\ disk'.queue = mem'.queue)
  BY SavedGood DEF DiskFollows, Alike
<1> QED BY <1>1 DEF Secure, Unqueued

LEMMA OnceFollows ==
  ASSUME Once, history'.sent = history.sent,
         history.doubt \subseteq history'.doubt,
         \A a \in Asked : Secure(a) /\ Unqueued(a) => Secure(a)' /\ Unqueued(a)',
         \A a \in Asked \ history'.doubt : InFlight(a) /\ history.sent[a] > 0 =>
           InFlight(a)' \/ (Secure(a)' /\ Unqueued(a)'),
         \A a \in Asked : InFlight(a)' =>
           /\ Unqueued(a)'
           /\ worker'.cmd.kind # "answer" => Secure(a)'
           /\ worker'.step = "calling" /\ a \notin history'.doubt /\ Untaken'
                => history'.sent[a] = 0
  PROVE  Once'
<1>1. \A a \in Asked \ history'.doubt : history'.sent[a] <= 1
  BY DEF Once
<1>2. \A a \in Asked \ history'.doubt : history'.sent[a] > 0 =>
        InFlight(a)' \/ (Secure(a)' /\ Unqueued(a)')
  BY DEF Once
<1> QED BY <1>1, <1>2 DEF Once

\* The message in flight, if any, stays as it is.
LEMMA OnceSame ==
  ASSUME Once, Good(mem'), SameWorker, provider'.call = provider.call,
         history'.sent = history.sent, history'.doubt = history.doubt,
         Untaken' => Untaken,
         DiskFollows, Settled(mem) \subseteq Settled(mem'),
         \A a \in Asked : a \in Range(mem'.queue) =>
           a \in Range(mem.queue) \/ (~Flying /\ a \notin Settled(mem))
  PROVE  Once'
<1>1. \A a \in Asked : InFlight(a)' <=> InFlight(a)
  BY DEF InFlight, SameWorker, Flying
<1>2. ASSUME NEW a \in Asked, Secure(a) /\ Unqueued(a)
      PROVE  Secure(a)' /\ Unqueued(a)'
  <2>1. a \in Range(mem'.queue) => a \in Range(mem.queue)
    BY <1>2 DEF Secure
  <2> QED BY <1>2, <2>1, SecureFollows
<1>3. ASSUME NEW a \in Asked, InFlight(a)
      PROVE  /\ Unqueued(a)'
             /\ worker'.cmd.kind # "answer" => Secure(a)'
             /\ worker'.step = "calling" /\ a \notin history'.doubt /\ Untaken'
                  => history'.sent[a] = 0
  <2>1. a \in Range(mem'.queue) => a \in Range(mem.queue)
    BY <1>3 DEF InFlight
  <2>2. (Secure(a) => Secure(a)') /\ (Unqueued(a) => Unqueued(a)')
    BY <2>1, SecureFollows
  <2>3. /\ Unqueued(a)
        /\ worker.cmd.kind # "answer" => Secure(a)
        /\ worker.step = "calling" /\ a \notin history.doubt /\ Untaken
             => history.sent[a] = 0
    BY <1>3 DEF Once
  <2> QED BY <2>2, <2>3 DEF SameWorker
<1> QED BY <1>1, <1>2, <1>3, OnceFollows

\* No message is in flight, and if one was it is settled or in doubt.
LEMMA OnceRests ==
  ASSUME Once, ~Flying', history'.sent = history.sent,
         history.doubt \subseteq history'.doubt,
         \A a \in Asked : Secure(a) /\ Unqueued(a) => Secure(a)' /\ Unqueued(a)',
         \A a \in Asked \ history'.doubt : InFlight(a) /\ history.sent[a] > 0 =>
           Secure(a)' /\ Unqueued(a)'
  PROVE  Once'
<1>1. \A a : ~InFlight(a)'
  BY DEF InFlight, Flying
<1> QED BY <1>1, OnceFollows

\* What Once says of the message in flight.
LEMMA OnceInFlight ==
  ASSUME Once, NEW a \in Asked, InFlight(a)
  PROVE  /\ Unqueued(a)
         /\ worker.cmd.kind # "answer" => Secure(a)
         /\ worker.step = "calling" /\ a \notin history.doubt /\ Untaken
              => history.sent[a] = 0
BY DEF Once

\* Nothing was queued, and nothing that was settled is open again.
LEMMA SecureGoesOn ==
  ASSUME Good(mem'), DiskFollows, Settled(mem) \subseteq Settled(mem'),
         \A a \in Asked : a \in Range(mem'.queue) => a \in Range(mem.queue)
  PROVE  \A a \in Asked : (Secure(a) => Secure(a)') /\ (Unqueued(a) => Unqueued(a)')
BY SecureFollows

LEMMA OnceLaunch == ASSUME Once, Sound, Good(mem'), Launch PROVE Once'
<1>1. /\ ~Flying /\ Settled(mem') = Settled(mem) /\ DiskFollows /\ UNCHANGED history
      /\ Settled(disk') = Settled(mem') /\ disk'.queue = mem'.queue
      /\ Range(mem'.queue) \subseteq Range(mem.queue)
  BY SavedGood DEF Launch, DiskFollows, Alike
<1>2. \A a \in Asked : (Secure(a) => Secure(a)') /\ (Unqueued(a) => Unqueued(a)')
  BY <1>1, SecureGoesOn
<1>3. ASSUME NEW a \in Asked, InFlight(a)'
      PROVE  /\ Unqueued(a)'
             /\ worker'.cmd.kind # "answer" => Secure(a)'
             /\ a \notin history'.doubt => history'.sent[a] = 0
  <2>1. /\ worker'.prompt = a /\ a \notin Range(mem'.queue)
        /\ worker'.cmd.kind = "answer" => a \notin Settled(mem)
        /\ worker'.cmd.kind # "answer" => a \in Settled(mem) /\ a \in Range(mem.queue)
    BY <1>3 DEF Launch, InFlight
  <2>2. Unqueued(a)' /\ (worker'.cmd.kind # "answer" => Secure(a)')
    BY <1>1, <2>1 DEF Unqueued, Secure
  <2>3. ~InFlight(a) /\ ~(Secure(a) /\ Unqueued(a))
    BY <1>1, <2>1 DEF InFlight, Secure, Unqueued
  <2>4. a \notin history.doubt => ~(history.sent[a] > 0)
    BY <2>3 DEF Once
  <2>5. history.sent[a] \in Nat
    BY DEF Sound, Histories
  <2> QED BY <1>1, <2>2, <2>4, <2>5
<1>4. \A a \in Asked : ~InFlight(a)
  BY <1>1 DEF InFlight
<1> QED BY <1>1, <1>2, <1>3, <1>4, OnceFollows

LEMMA OnceTaken == ASSUME Once, Replies, Sound, Taking PROVE Once'
<1>1. /\ Outside /\ Flying /\ worker.step = "calling" /\ Untaken
      /\ \A k \in DOMAIN wire : ~IsReply(k)
      /\ history'.doubt = history.doubt /\ history'.told = history.told
  BY DEF Taking, Replies, Flying, Untaken
<1>2. \A a : /\ InFlight(a)' <=> InFlight(a)
             /\ Secure(a)' <=> Secure(a)
             /\ Unqueued(a)' <=> Unqueued(a)
  BY <1>1 DEF Outside, InFlight, Flying, Secure, Unqueued
<1>4. ASSUME NEW a \in Asked \ history.doubt
      PROVE  /\ history'.sent[a] <= 1
             /\ history'.sent[a] > 0 => InFlight(a) \/ (Secure(a) /\ Unqueued(a))
  <2>1. CASE InFlight(a)
    <3>1. history.sent[a] = 0
      BY <1>1, <1>4, <2>1, OnceInFlight
    <3> QED BY <2>1, <3>1 DEF Taking
  <2>2. CASE ~InFlight(a)
    <3>1. history'.sent[a] = history.sent[a]
      BY <1>1, <2>2 DEF Taking, InFlight
    <3> QED BY <1>4, <2>2, <3>1 DEF Once
  <2> QED BY <2>1, <2>2
<1>5. ASSUME NEW a \in Asked, InFlight(a), a \notin history.doubt, Untaken'
      PROVE  history'.sent[a] = 0
  <2>1. PICK k \in DOMAIN wire' : wire'[k].kind = "reply" /\ wire'[k].outcome = "error"
    BY <1>5 DEF Untaken, Taking, IsReply
  <2>2. k \notin DOMAIN wire
    BY <1>1, <2>1 DEF IsReply, Taking, Longer
  <2>3. history'.sent = history.sent
    BY <2>1, <2>2 DEF Taking
  <2> QED BY <1>1, <1>5, <2>3, OnceInFlight
<1>6. ASSUME NEW a \in Asked, InFlight(a)
      PROVE  Unqueued(a) /\ (worker.cmd.kind # "answer" => Secure(a))
  BY <1>6, OnceInFlight
<1>7. worker' = worker
  BY <1>1 DEF Outside
<1> QED BY <1>1, <1>2, <1>4, <1>5, <1>6, <1>7 DEF Once

LEMMA OnceIsKept == ASSUME Inv, Sound', Steps PROVE Once'
<1>0. Once /\ Replies /\ Sound /\ Good(mem')
  BY DEF Inv, Delivery, Sound
<1>1. CASE Calm
  <2>1. /\ DiskFollows /\ Settled(mem') = Settled(mem) /\ UNCHANGED <<wire, provider, history>>
        /\ \A a \in Asked : a \in Range(mem'.queue) => a \in Range(mem.queue)
    BY <1>1 DEF Calm, Alike
  <2>2. CASE UNCHANGED worker
    <3>1. Untaken' <=> Untaken
      BY <2>1 DEF Untaken, IsReply
    <3> QED BY <1>0, <2>1, <2>2, <3>1, OnceSame DEF SameWorker
  <2>3. CASE ~Flying /\ ~Flying'
    <3>1. \A a : ~InFlight(a)
      BY <2>3 DEF InFlight
    <3> QED BY <1>0, <2>1, <2>3, <3>1, SecureGoesOn, OnceRests
  <2> QED BY <1>1, <2>2, <2>3 DEF Calm
<1>2. CASE Launch
  BY <1>0, <1>2, OnceLaunch
<1>3. CASE Settling
  <2>1. Untaken' <=> Untaken
    BY <1>3 DEF Settling, Untaken, IsReply
  <2> QED BY <1>0, <1>3, <2>1, OnceSame DEF Settling, SameWorker, DiskFollows
<1>4. CASE Recording
  <2>1. /\ ~Flying' /\ history'.sent = history.sent /\ history'.doubt = history.doubt
        /\ Settled(mem) \subseteq Settled(mem') /\ DiskFollows /\ mem'.queue = mem.queue
        /\ Settled(disk') = Settled(mem')
    BY <1>0, <1>4, SavedGood DEF Recording, DiskFollows, Alike
  <2>2. \A a \in Asked : (Secure(a) => Secure(a)') /\ (Unqueued(a) => Unqueued(a)')
    BY <1>0, <2>1, SecureGoesOn
  <2>3. ASSUME NEW a \in Asked, InFlight(a) PROVE Secure(a)' /\ Unqueued(a)'
    <3>1. CASE worker.cmd.kind = "answer"
      <4>1. a \in Settled(mem')
        BY <1>4, <2>3, <3>1 DEF Recording, InFlight
      <4> QED BY <1>0, <2>1, <2>2, <2>3, <4>1, OnceInFlight DEF Secure
    <3>2. CASE worker.cmd.kind # "answer"
      BY <1>0, <2>2, <2>3, <3>2, OnceInFlight
    <3> QED BY <3>1, <3>2
  <2> QED BY <1>0, <2>1, <2>2, <2>3, OnceRests
<1>5. CASE Reading
  <2>1. Drops(1) /\ SameWorker /\ UNCHANGED <<provider, history>>
    BY <1>0, <1>5, HeadIsDropped DEF Sound, Reading
  <2>2. PICK f : \A j \in DOMAIN wire' : f[j] \in DOMAIN wire /\ wire'[j] = wire[f[j]]
    BY <2>1, DroppedPlaces
  <2>3. Untaken' => Untaken
    BY <2>1, <2>2 DEF Untaken, IsReply
  <2>4. /\ DiskFollows /\ Settled(mem') = Settled(mem)
        /\ \A a \in Asked : a \in Range(mem'.queue) => a \in Range(mem.queue)
    BY <1>5 DEF Reading, Alike, DiskFollows
  <2> QED BY <1>0, <2>1, <2>3, <2>4, OnceSame
<1>6. CASE Responding
  <2>1. \A a : ~InFlight(a)
    BY <1>6 DEF Responding, InFlight
  <2> QED BY <1>0, <1>6, <2>1, SecureGoesOn, OnceRests DEF Responding
<1>7. CASE Dying \/ Halting
  <2>1. /\ Cut /\ DiskFollows /\ Settled(mem') = Settled(mem)
        /\ \A a \in Asked : a \in Range(mem'.queue) => a \in Range(mem.queue)
    BY <1>7 DEF Dying, Halting, Alike, DiskFollows
  <2>2. \A a \in Asked \ history'.doubt : ~InFlight(a)
    BY <2>1 DEF Cut, InFlight
  <2> QED BY <1>0, <2>1, <2>2, SecureGoesOn, OnceRests DEF Cut
<1>8. CASE Restarting
  <2>1. /\ Cut /\ Settled(mem') = Settled(disk) /\ disk' = mem'
        /\ \A a \in Asked : a \in Range(mem'.queue) => a \in Range(disk.queue)
    BY <1>8 DEF Restarting, Alike
  <2>2. \A a \in Asked \ history'.doubt : ~InFlight(a)
    BY <2>1 DEF Cut, InFlight
  <2>3. \A a \in Asked : Secure(a) /\ Unqueued(a) => Secure(a)' /\ Unqueued(a)'
    BY <2>1 DEF Secure, Unqueued
  <2> QED BY <1>0, <2>1, <2>2, <2>3, OnceRests DEF Cut
<1>9. CASE Accepting
  <2>1. /\ DiskFollows /\ Settled(mem') = Settled(mem) /\ mem'.queue = mem.queue
        /\ UNCHANGED history /\ worker.step = "calling"
    BY <1>9 DEF Accepting, DiskFollows
  <2>2. \A a \in Asked : (Secure(a) => Secure(a)') /\ (Unqueued(a) => Unqueued(a)')
    BY <1>0, <2>1, SecureGoesOn
  <2>3. CASE /\ worker'.step = "record" /\ worker'.cmd = worker.cmd
             /\ worker'.prompt = worker.prompt
    <3>1. \A a : InFlight(a)' <=> InFlight(a)
      BY <2>1, <2>3 DEF InFlight, Flying
    <3> QED BY <1>0, <2>1, <2>2, <2>3, <3>1, OnceInFlight, OnceFollows
  <2>4. CASE worker.cmd.kind \notin {"answer", "respond"} /\ ~Flying'
    BY <1>0, <2>1, <2>2, <2>4, OnceInFlight, OnceRests
  <2> QED BY <1>9, <2>3, <2>4 DEF Accepting
<1>10. CASE Failing
  <2>1. /\ ~Flying' /\ UNCHANGED <<mem, disk>> /\ history'.sent = history.sent
        /\ history.doubt \subseteq history'.doubt /\ worker.step = "calling"
    BY <1>10 DEF Failing
  <2>2. \A a : (Secure(a)' <=> Secure(a)) /\ (Unqueued(a)' <=> Unqueued(a))
    BY <2>1 DEF Secure, Unqueued
  <2>3. ASSUME NEW a \in Asked \ history'.doubt, InFlight(a), history.sent[a] > 0
        PROVE  FALSE
    <3>1. Untaken
      BY <1>10, <2>3 DEF Failing, InFlight, Untaken
    <3> QED BY <1>0, <2>1, <2>3, <3>1, OnceInFlight
  <2> QED BY <1>0, <2>1, <2>2, <2>3, OnceRests
<1>11. CASE Asking \/ Saying \/ Resolving \/ Ending
  <2>1. PICK e : Says(e) /\ e.kind # "reply"
    BY <1>11 DEF Asking, Saying, Resolving, Ending
  <2>2. Outside /\ UNCHANGED history /\ provider'.call = provider.call
    BY <1>11 DEF Asking, Saying, Resolving, Ending
  <2>3. Untaken' => Untaken
    BY <2>1, <2>2 DEF Untaken, IsReply, Says, Longer
  <2> QED BY <1>0, <2>2, <2>3, OnceSame DEF Outside, SameWorker, DiskFollows
<1>12. CASE Taking
  BY <1>0, <1>12, OnceTaken
<1> QED BY <1>1, <1>2, <1>3, <1>4, <1>5, <1>6, <1>7, <1>8, <1>9, <1>10, <1>11, <1>12
        DEF Steps

-----------------------------------------------------------------------------
(* The invariant *)

\* A session whose notes, and nothing else, are asked.
LEMMA FirstGood ==
  ASSUME NEW asked \in SUBSET Notes,
         NEW s, s = [NewSession EXCEPT !.panel = asked, !.notes = asked]
  PROVE  /\ Good(s) /\ Settled(s) = {}
         /\ s.queue = <<>> /\ s.panel \cap Requests = {}
<1>1. /\ NewSession \in Session /\ NewSession.panel = {}
      /\ NewSession.finished = {} /\ NewSession.notes = {}
      /\ NewSession.queue = <<>> /\ NewSession.answers = [i \in Items |-> {}]
      /\ NewSession.status = "Idle"
  BY NewSessionGood DEF Good, NewSession
<1>2. asked \in SUBSET Items /\ asked \cap Requests = {}
  BY QuestionsAssumption DEF Items
<1>3. s \in Session
  BY <1>1, <1>2 DEF Session
<1>4. /\ s.panel = asked /\ s.notes = asked /\ s.finished = {} /\ s.queue = <<>>
      /\ s.answers = [i \in Items |-> {}] /\ s.status = "Idle"
  BY <1>1 DEF Session
<1>5. Good(s)
  BY <1>2, <1>3, <1>4 DEF Good, Active
<1>6. Settled(s) = {}
  BY <1>4, AskedIs DEF Settled, Items
<1> QED BY <1>2, <1>4, <1>5, <1>6

LEMMA SoundInitially == Init => Sound
<1> SUFFICES ASSUME Init PROVE Sound
  OBVIOUS
<1>1. PICK asked \in SUBSET Notes :
        mem = [NewSession EXCEPT !.panel = asked, !.notes = asked]
  BY DEF Init
<1>2. Good(mem) /\ disk = mem
  BY <1>1, FirstGood DEF Init
<1>3. handler = [step |-> "idle", cmd |-> Nothing, read |-> NewSession]
      /\ inbox = <<>> /\ worker = Connected /\ wire = <<>>
  BY DEF Init
<1>4. HandlerOK
  <2>1. handler.step = "idle" /\ handler.cmd = Nothing /\ handler.read = NewSession
    BY <1>3
  <2>2. handler \in Handlers
    BY <1>3, NothingIsCommand, NewSessionGood DEF Handlers, Good
  <2> QED BY <2>1, <2>2, NothingIsCommand, NewSessionGood DEF HandlerOK
<1>5. InboxOK /\ WireOK
  BY <1>3 DEF InboxOK, WireOK
<1>6. WorkerOK
  BY <1>3, NothingIsCommand, PromptKinds
     DEF WorkerOK, Workers, Connected, Idle, Flying, Nothing, WorkerSteps
<1>7. Known
  BY <1>3, NewSessionGood DEF Known, Flying, Connected, Idle
<1>8. provider \in Providers
  BY QuestionsAssumption DEF Init, Providers
<1>9. history \in Histories
  BY DEF Init, Histories
<1>10. left \in [asks : Nat, says : Nat, faults : Nat]
  BY QuestionsAssumption DEF Init
<1> QED BY <1>2, <1>4, <1>5, <1>6, <1>7, <1>8, <1>9, <1>10 DEF Sound

LEMMA InvInitially == Init => Inv
<1> SUFFICES ASSUME Init PROVE Inv
  OBVIOUS
<1>1. Sound
  BY SoundInitially
<1>2. PICK asked \in SUBSET Notes :
        mem = [NewSession EXCEPT !.panel = asked, !.notes = asked]
  BY DEF Init
<1>3. /\ Settled(mem) = {} /\ mem.panel \cap Requests = {} /\ disk = mem
      /\ wire = <<>> /\ ~Flying /\ worker.step = "loop"
      /\ handler.read = NewSession
  BY <1>2, FirstGood DEF Init, Flying, Connected, Idle
<1>4. /\ provider.open = {} /\ provider.asked = {} /\ provider.turn = 0
      /\ provider.call = "none" /\ history.told = {}
      /\ \A r \in Requests : history.responses[r] = 0
      /\ \A a \in Asked : history.sent[a] = 0
  BY DEF Init
<1>5. Blocking
  BY <1>3, <1>4 DEF Blocking
<1>6. Turns
  BY <1>3, <1>4 DEF Turns
<1>7. Told
  BY <1>3, <1>4, NewSessionGood DEF Told
<1>8. Kept(mem) /\ Kept(disk)
  BY <1>3 DEF Kept, KeptBy
<1>9. Replies
  BY <1>3, <1>4 DEF Replies, IsReply
<1>10. Once
  BY <1>3, <1>4 DEF Once, InFlight
<1> QED BY <1>1, <1>5, <1>6, <1>7, <1>8, <1>9, <1>10 DEF Inv, Delivery

LEMMA NextKeeps == Inv /\ [Next]_vars => Inv'
<1> SUFFICES ASSUME Inv, [Next]_vars PROVE Inv'
  OBVIOUS
<1>1. Sound' /\ Steps
  BY NextSteps
<1>2. Blocking' /\ Turns' /\ Told'
  BY <1>1, BlockingIsKept, TurnsIsKept, ToldIsKeptByAll
<1>3. Delivery'
  BY <1>1, KeptIsKept, RepliesIsKept, OnceIsKept DEF Delivery
<1> QED BY <1>1, <1>2, <1>3 DEF Inv

\* What the three parties hold and what is between them: everything the
\* properties follow from, at every point of every run.
THEOREM InvHolds == Spec => []Inv
BY InvInitially, NextKeeps, PTL DEF Spec

-----------------------------------------------------------------------------
(* The properties *)

\* The record, its file and the copies of it hold what they are declared to;
\* a request that is open was asked, and an answer is one to a question.
THEOREM TypeCorrect == Spec => []TypeOK
<1>1. ASSUME Inv PROVE TypeOK
  <2>1. /\ Good(mem) /\ Good(disk) /\ HandlerOK /\ WorkerOK
        /\ provider \in Providers /\ Blocking
    BY <1>1 DEF Inv, Sound
  <2>2. \A s \in {mem, disk} : \A i \in Items : s.answers[i] \subseteq Parts[i]
    BY <2>1 DEF Good
  <2>3. {mem, disk, handler.read} \subseteq Session
    BY <2>1 DEF Good, HandlerOK
  <2>4. /\ handler.step \in {"idle", "read", "waiting"}
        /\ worker.step \in WorkerSteps /\ worker.prompt \in Prompts
        /\ provider.open \subseteq provider.asked /\ provider.asked \subseteq Requests
    BY <2>1 DEF HandlerOK, Handlers, WorkerOK, Workers, Providers, Blocking
  <2> QED BY <2>2, <2>3, <2>4 DEF TypeOK
<1> QED BY <1>1, InvHolds, PTL

\* A request of the provider gets at most one response, whatever the user
\* repeats while the first one is on its way (Respond and AnswerQuestion).
THEOREM RespondsOnce == Spec => []OneResponse
<1>1. Inv => OneResponse
  BY DEF Inv, Blocking, OneResponse
<1> QED BY <1>1, InvHolds, PTL

\* A question that somebody was told is settled is not asked again, by no
\* event, no late answer and no restart (record_answer, save_answer,
\* restore_async_questions).
THEOREM ToldStaysSettled == Spec => []ToldIsSettled
<1>1. ASSUME Inv PROVE ToldIsSettled
  <2>1. history.told \subseteq Settled(mem) /\ mem.panel \cap mem.finished = {}
    BY <1>1 DEF Inv, Sound, Good, Told
  <2> QED BY <2>1 DEF ToldIsSettled, Settled, Open, Unanswered
<1> QED BY <1>1, InvHolds, PTL

\* An answer is recorded only when it was delivered; one that was queued while
\* the worktree was made stays in the queue or is shown as unsent.
THEOREM AnswersAreKept == Spec => []AnswerIsKept
<1>1. Inv => AnswerIsKept
  BY DEF Inv, Delivery, Kept, KeptBy, SentBy, Sent, AnswerIsKept
<1> QED BY <1>1, InvHolds, PTL

\* An answer is sent again only after a reply to it was lost: by a timeout, a
\* provider that disconnected, or a restart (send_turn, send_queued).
THEOREM AnswersAreSentOnce == Spec => []SentOnce
<1>1. ASSUME Inv PROVE SentOnce
  <2>1. \A a \in Asked \ history.doubt : history.sent[a] <= 1
    BY <1>1 DEF Inv, Delivery, Once
  <2>2. \A a \in Asked : history.sent[a] \in Nat
    BY <1>1 DEF Inv, Sound, Histories
  <2> QED BY <2>1, <2>2 DEF SentOnce
<1> QED BY <1>1, InvHolds, PTL

\* A request the panel shows is one the provider waits for, or one whose end
\* the worker has still to read (apply_event, worker_ended, after_restart).
THEOREM RequestsAreReal == Spec => []PanelIsReal
<1>1. Inv => PanelIsReal
  BY DEF Inv, Turns, EndsAfter, Ends, PanelIsReal
<1> QED BY <1>1, InvHolds, PTL
================================================================================
