------------------------ MODULE AgentService_proofs ------------------------
(***************************************************************************)
(* What holds of the session service for every set of messages and every   *)
(* bound: its types, that a message is written to the provider at most     *)
(* once, and that the session delivers its messages as MessageDelivery     *)
(* promises.  The invariant of the last two is OneCopy: a message that may *)
(* still be sent is in one place in memory, and neither in memory nor in   *)
(* the file once it has been sent.  Each step of the system leaves the     *)
(* message where it was, drops it, or moves it to one other place; the     *)
(* refinement maps that to a step of MessageDelivery or to a stutter.      *)
(***************************************************************************)
EXTENDS AgentService, SequenceTheorems, TLAPS

-----------------------------------------------------------------------------
(* Sequences: what the queue and the channels are made of *)

\* The head of a non-empty sequence of S is in S, its tail a sequence of S.
LEMMA TailTyped ==
  ASSUME NEW S, NEW q \in Seq(S), q # <<>>
  PROVE  Head(q) \in S /\ Tail(q) \in Seq(S)
  BY SMT

\* A sequence of S extended by an element of S is one.
LEMMA AppendTyped ==
  ASSUME NEW S, NEW q \in Seq(S), NEW e \in S
  PROVE  Append(q, e) \in Seq(S)
  BY SMT

\* A sequence whose elements are replaced one by one.
LEMMA MappedTyped ==
  ASSUME NEW S, NEW T, NEW q \in Seq(S), NEW f \in [DOMAIN q -> T]
  PROVE  f \in Seq(T)
  <1>1. Len(q) \in Nat /\ DOMAIN q = 1..Len(q)
    BY LenProperties
  <1> QED
    BY <1>1, SeqDef

\* RemoveAt yields a sequence of the same elements.
LEMMA RemoveAtTyped ==
  ASSUME NEW S, NEW q \in Seq(S), NEW i \in DOMAIN q
  PROVE  RemoveAt(q, i) \in Seq(S)
  <1>1. i \in 1..Len(q)
    OBVIOUS
  <1>2. SubSeq(q, 1, i - 1) \in Seq(S) /\ SubSeq(q, i + 1, Len(q)) \in Seq(S)
    BY <1>1, SubSeqProperties, SMT
  <1> QED
    BY <1>2, ConcatProperties DEF RemoveAt

-----------------------------------------------------------------------------
(* The session's operators keep it a Session *)

\* Adding entries keeps the type of the transcript.
LEMMA NotedTyped ==
  ASSUME NEW marks \in [Msg -> SUBSET Kind], NEW M, NEW kind \in Kind
  PROVE  Noted(marks, M, kind) \in [Msg -> SUBSET Kind]
  BY DEF Noted

\* So does settling the "sending" entries.
LEMMA SettledTyped ==
  ASSUME NEW marks \in [Msg -> SUBSET Kind], NEW M, NEW kind \in Kind
  PROVE  Settled(marks, M, kind) \in [Msg -> SUBSET Kind]
  BY DEF Settled

\* Giving up the queue (Session::unsent) yields a session.
LEMMA QueueUnsentTyped ==
  ASSUME NEW s \in Session
  PROVE  QueueUnsent(s) \in Session
  <1> DEFINE marks == Noted(s.marks, Range(s.queue), "unsent")
  <1>1. marks \in [Msg -> SUBSET Kind]
    BY NotedTyped DEF Session, Kind
  <1>2. QueueUnsent(s) = [s EXCEPT !.queue = <<>>, !.marks = marks]
    BY DEF QueueUnsent, Session
  <1>3. <<>> \in Seq(Msg)
    OBVIOUS
  <1> HIDE DEF marks
  <1> QED
    BY <1>1, <1>2, <1>3 DEF Session

\* So does settling what nobody waits for any more.
LEMMA SendingUnackedTyped ==
  ASSUME NEW s \in Session
  PROVE  SendingUnacked(s) \in Session
  <1>1. Settled(s.marks, Msg, "unacked") \in [Msg -> SUBSET Kind]
    BY SettledTyped DEF Session, Kind
  <1> QED
    BY <1>1 DEF SendingUnacked, Session

\* So does each of the three changes that send_turn makes.
LEMMA SendTyped ==
  ASSUME NEW s \in Session, NEW p \in Prompt, NEW steer \in BOOLEAN,
         NEW t \in Turn
  PROVE  /\ SendIntent(s, p, steer) \in Session
         /\ SendAccepted(s, p, t) \in Session
         /\ SendRefused(s, p) \in Session
  <1>1. SendIntent(s, p, steer) \in Session
    BY DEF SendIntent, Session, Status, Kind
  <1>2. SendAccepted(s, p, t) \in Session
    <2>1. Settled(s.marks, {p}, "delivered") \in [Msg -> SUBSET Kind]
      BY SettledTyped DEF Session, Kind
    <2> QED
      BY <2>1 DEF SendAccepted, Session, Status
  <1>3. SendRefused(s, p) \in Session
    BY DEF SendRefused, Session, Kind
  <1> QED
    BY <1>1, <1>2, <1>3

\* So does every event and every late reply (apply_event).
LEMMA ApplyEventTyped ==
  ASSUME NEW s \in Session, NEW e \in Event \cup Reply
  PROVE  ApplyEvent(s, e) \in Session
  <1>1. CASE e \in [kind : {"started"}, turn : Turn]
    BY <1>1 DEF ApplyEvent, TurnStarted, Session, Status
  <1>2. CASE e \in [kind : {"finished"}, turn : Turn, outcome : Outcome]
    <2> DEFINE ended == [s EXCEPT !.completed = e.turn, !.turn = 0,
                                   !.status = StatusAfter(e.outcome)]
    <2>1. e.turn \in Turn /\ e.outcome \in Outcome /\ 0 \in Turn
      BY <1>2, SessionAssumption DEF Turn
    <2>2. StatusAfter(e.outcome) \in Status
      BY <2>1 DEF StatusAfter, Outcome, Status
    <2>3. ended \in Session
      BY <2>1, <2>2 DEF Session
    <2>4. QueueUnsent(ended) \in Session
      BY <2>3, QueueUnsentTyped
    <2>5. ApplyEvent(s, e) = TurnFinished(s, e.turn, e.outcome)
      BY <1>2 DEF ApplyEvent
    <2> QED
      BY <2>3, <2>4, <2>5 DEF TurnFinished
  <1>3. CASE e \in [kind : {"echo"}, prompt : Msg]
    BY <1>3 DEF ApplyEvent, Echoed, Session, Kind
  <1>4. CASE e \in Reply
    BY <1>4 DEF ApplyEvent, Reply
  <1> QED
    BY <1>1, <1>2, <1>3, <1>4 DEF Event

\* So does an event with the queue taken aside (InterruptAndSend).
LEMMA ApplyKeepingQueueTyped ==
  ASSUME NEW s \in Session, NEW e \in Event \cup Reply
  PROVE  ApplyKeepingQueue(s, e) \in Session
  <1>0. <<>> \in Seq(Msg)
    OBVIOUS
  <1>1. [s EXCEPT !.queue = <<>>] \in Session
    BY <1>0 DEF Session
  <1> DEFINE applied == ApplyEvent([s EXCEPT !.queue = <<>>], e)
  <1>2. applied \in Session
    BY <1>1, ApplyEventTyped
  <1>3. ApplyKeepingQueue(s, e) = [applied EXCEPT !.queue = s.queue]
    BY DEF ApplyKeepingQueue
  <1> HIDE DEF applied
  <1> QED
    BY <1>2, <1>3 DEF Session

\* So does the end of a worker (worker_ended).
LEMMA WorkerEndedTyped ==
  ASSUME NEW s \in Session, NEW c \in BOOLEAN, NEW stopping \in BOOLEAN
  PROVE  WorkerEnded(s, c, stopping) \in Session
  <1> DEFINE settled ==
        IF ~(c \/ stopping) THEN [s EXCEPT !.status = "Failed"]
        ELSE IF Active(s)
          THEN [s EXCEPT !.status = "Interrupted", !.resume = @ \/ stopping]
        ELSE s
      emptied == IF settled.resume THEN settled ELSE QueueUnsent(settled)
  <1>1. settled \in Session
    BY DEF Session, Status
  <1>2. emptied \in Session
    BY <1>1, QueueUnsentTyped
  <1>3. SendingUnacked(emptied) \in Session
    BY <1>2, SendingUnackedTyped
  <1>4. 0 \in Turn
    BY SessionAssumption DEF Turn
  <1> HIDE DEF settled, emptied
  <1>5. [SendingUnacked(emptied) EXCEPT !.turn = 0] \in Session
    BY <1>3, <1>4 DEF Session
  <1> QED
    BY <1>5 DEF WorkerEnded, settled, emptied

\* So do the two changes of a shutdown (server::run).
LEMMA ShutdownTyped ==
  ASSUME NEW s \in Session
  PROVE  MarkedForResume(s) \in Session /\ InterruptedForExit(s) \in Session
  <1>1. 0 \in Turn /\ "Interrupted" \in Status
    BY SessionAssumption DEF Turn, Status
  <1>2. MarkedForResume(s) \in Session
    BY DEF MarkedForResume, Session
  <1>3. InterruptedForExit(s) \in Session
    BY <1>1 DEF InterruptedForExit, Session
  <1> QED
    BY <1>2, <1>3

\* So does a restart, which counts its continuations within the limit.
LEMMA AfterRestartTyped ==
  ASSUME NEW s \in Session, NEW recent \in 0..s.resumes
  PROVE  AfterRestart(s, recent) \in Session
  <1> DEFINE working == Active(s) \/ s.resume
             resumes == working /\ MayContinue(s, recent)
             marked  == [s EXCEPT
                    !.status  = IF working THEN "Interrupted" ELSE @,
                    !.turn    = IF working THEN 0 ELSE @,
                    !.resumes = IF resumes THEN recent + 1
                                ELSE IF working THEN recent ELSE @,
                    !.resume  = resumes]
  <1>1. recent \in 0..ResumeLimit /\ (resumes => recent + 1 \in 0..ResumeLimit)
    BY SessionAssumption DEF Session, MayContinue
  <1>2. resumes \in BOOLEAN /\ 0 \in Turn /\ "Interrupted" \in Status
    BY SessionAssumption DEF Turn, Status
  <1>3. marked \in Session
    <2> HIDE DEF resumes, working
    <2> QED BY <1>1, <1>2 DEF Session
  <1> HIDE DEF marked, resumes
  <1>4. (IF resumes THEN marked ELSE QueueUnsent(marked)) \in Session
    BY <1>3, QueueUnsentTyped
  <1>5. SendingUnacked(IF resumes THEN marked ELSE QueueUnsent(marked)) \in Session
    BY <1>4, SendingUnackedTyped
  <1> QED
    BY <1>5 DEF AfterRestart, marked, resumes
-----------------------------------------------------------------------------
(* Every action keeps the types *)

\* What the proofs below use of a session's fields.
LEMMA FieldTyped ==
  ASSUME NEW s \in Session
  PROVE  /\ s.status \in Status /\ s.turn \in Turn /\ s.queue \in Seq(Msg)
         /\ s.marks \in [Msg -> SUBSET Kind] /\ s.resumes \in 0..ResumeLimit
         /\ s.thread \in BOOLEAN /\ s.attempted \in BOOLEAN /\ s.resume \in BOOLEAN
         /\ \A status \in Status : [s EXCEPT !.status = status] \in Session
         /\ \A q \in Seq(Msg) : [s EXCEPT !.queue = q] \in Session
         /\ \A marks \in [Msg -> SUBSET Kind] : [s EXCEPT !.marks = marks] \in Session
         /\ [s EXCEPT !.resume = FALSE] \in Session
  BY DEF Session

\* Every initial state is well typed.
LEMMA InitTyped == Init => TypeOK
  <1> SUFFICES ASSUME Init PROVE TypeOK
    OBVIOUS
  <1>1. NewSession \in Session /\ 0 \in Turn
    BY SessionAssumption DEF NewSession, Session, Status, Turn
  <1>2. mem \in Session /\ initial \in InitialControl
        /\ submitted \in SUBSET Msg /\ acked \in SUBSET Msg /\ pc \in WorkerPc
    <2>1. CASE InitEmpty
      BY <1>1, <2>1 DEF InitEmpty, Plain, Control, InitialControl, WorkerPc
    <2>2. CASE InitPrompt
      <3>1. PICK m \in Msg : /\ mem = [NewSession EXCEPT !.marks[m] = {"launch"}]
                             /\ initial = Launch(m)
                             /\ submitted = {m} /\ acked = {m}
        BY <2>2 DEF InitPrompt
      <3>2. mem \in Session
        BY <1>1, <3>1 DEF NewSession, Session, Kind
      <3> QED
        BY <2>2, <3>1, <3>2 DEF InitPrompt, Launch, InitialControl, WorkerPc
    <2> QED
      BY <2>1, <2>2 DEF Init
  <1>3. InitRest
    BY DEF Init, InitEmpty, InitPrompt
  <1>4. provider \in Provider
    BY <1>1, <1>3 DEF InitRest, Provider
  <1>5. sent \in [Prompt -> Nat] /\ hand \in Prompt
    BY <1>3 DEF InitRest, Prompt
  <1>6. hctl \in Control /\ hpc \in HandlerPc /\ hpc # "push" /\ seen \in Status
        /\ via \in Via
    BY <1>3 DEF InitRest, Plain, Control, HandlerPc, Status, Via
  <1>7. 0 \in 0..MaxStops /\ 0 \in 0..MaxCrashes /\ 0 \in 0..MaxControls
    BY ServiceAssumption
  <1>8. inbox \in Seq(Control) /\ pipe \in Seq(Request)
        /\ output \in Seq(Event \cup Reply)
    BY <1>3, EmptySeq DEF InitRest
  <1> QED
    BY <1>1, <1>2, <1>3, <1>4, <1>5, <1>6, <1>7, <1>8 DEF InitRest, TypeOK

\* A new control keeps the types, with a message where one is pushed.
LEMMA SubmitTyped ==
  ASSUME TypeOK, SubmitMessage \/ SubmitControl \/ ResumeHandled
  PROVE  TypeOK'
  <1> USE DEF serviceVars, handlerVars, sendVars, connVars, workerVars,
              channelVars, providerVars, userVars, historyVars
  <1>1. ASSUME NEW c \in Control, Accept(c)
        PROVE  hpc' \in HandlerPc /\ hctl' \in Control /\ seen' \in Status
               /\ disk' \in Session /\ (hpc' = "push" => IsMessage(hctl'))
    <2>1. CASE c.kind \in {"message", "remove"}
      BY <1>1, <2>1 DEF TypeOK, Accept, HandlerPc
    <2>2. CASE c.kind \notin {"message", "remove"}
      BY <1>1, <2>2, FieldTyped DEF TypeOK, Accept, Read, HandlerPc
    <2> QED
      BY <2>1, <2>2
  <1>2. CASE SubmitMessage
    <2>1. PICK m \in Msg \ submitted, queue \in BOOLEAN :
            Accept(Message(m, queue)) /\ submitted' = submitted \cup {m}
      BY <1>2 DEF SubmitMessage
    <2>2. Message(m, queue) \in Control
      BY DEF Message, Control
    <2> QED
      BY <1>1, <1>2, <2>1, <2>2 DEF SubmitMessage, TypeOK
  <1>3. CASE SubmitControl
    <2>1. PICK c \in UserControl : Accept(c)
      BY <1>3 DEF SubmitControl
    <2>2. mem.queue \in Seq(Msg)
      BY DEF TypeOK, Session
    <2>3. c \in Control
      BY <2>2 DEF UserControl, Plain, Withdraw, Control
    <2>4. controls' \in 0..MaxControls
      BY <1>3, ServiceAssumption DEF SubmitControl, TypeOK
    <2> QED
      BY <1>1, <1>3, <2>1, <2>3, <2>4 DEF SubmitControl, TypeOK
  <1>4. CASE ResumeHandled
    <2>1. Plain("resume") \in Control
      BY DEF Plain, Control
    <2> QED
      BY <1>1, <1>4, <2>1 DEF ResumeHandled, TypeOK
  <1> QED
    BY <1>2, <1>3, <1>4

\* The steps of the handler keep the types.
LEMMA HandlerTyped ==
  ASSUME TypeOK, Handler
  PROVE  TypeOK'
  <1> USE DEF serviceVars, handlerVars, sendVars, connVars, workerVars,
              channelVars, providerVars, userVars, historyVars
  <1>1. ASSUME NEW place \in HandlerPc \ {"push"}, Proceed(place)
        PROVE  hpc' \in HandlerPc \ {"push"} /\ hctl' \in Control /\ seen' \in Status
    BY <1>1 DEF Proceed, TypeOK, Plain, Control, Status
  <1>2. {"save", "reply", "reconnect", "start", "free"} \subseteq HandlerPc \ {"push"}
    BY DEF HandlerPc
  <1>3. IsMessage(hctl) \/ hctl.kind = "remove" => hctl.msg \in Msg
    BY DEF TypeOK, Control, IsMessage
  <1>4. CASE PushQueued
    <2>1. Append(mem.queue, hctl.msg) \in Seq(Msg)
      BY <1>3, <1>4, FieldTyped, AppendTyped DEF PushQueued, TypeOK
    <2>2. mem' \in Session
      BY <1>4, <2>1, FieldTyped DEF PushQueued, TypeOK
    <2> QED
      BY <1>1, <1>2, <1>4, <2>2 DEF PushQueued, TypeOK
  <1>5. CASE QueuePreparing
    <2>1. CASE ~Preparing(mem) /\ Read(hctl) /\ UNCHANGED <<mem, acked, halted>>
      BY <1>5, <2>1, FieldTyped DEF QueuePreparing, Read, TypeOK, HandlerPc
    <2>2. CASE /\ IsMessage(hctl)
               /\ mem' = [mem EXCEPT !.queue = Append(@, hctl.msg)]
               /\ Proceed("save") /\ halted' = FALSE
               /\ UNCHANGED <<disk, acked>>
      <3>1. Append(mem.queue, hctl.msg) \in Seq(Msg)
        BY <1>3, <2>2, FieldTyped, AppendTyped DEF TypeOK
      <3>2. mem' \in Session
        BY <2>2, <3>1, FieldTyped DEF TypeOK
      <3> QED
        BY <1>1, <1>2, <1>5, <2>2, <3>2 DEF QueuePreparing, TypeOK
    <2>3. CASE /\ Holds(mem.queue, hctl.index, hctl.msg)
               /\ mem' = [mem EXCEPT !.queue = RemoveAt(@, hctl.index)]
               /\ Proceed("save") /\ acked' = acked \ {hctl.msg}
               /\ UNCHANGED <<disk, halted>>
      <3>1. RemoveAt(mem.queue, hctl.index) \in Seq(Msg)
        BY <2>3, FieldTyped, RemoveAtTyped DEF Holds, TypeOK
      <3>2. mem' \in Session
        BY <2>3, <3>1, FieldTyped DEF TypeOK
      <3> QED
        BY <1>1, <1>2, <1>5, <2>3, <3>2 DEF QueuePreparing, TypeOK
    <2>4. CASE Proceed("free") /\ UNCHANGED <<mem, disk, acked, halted>>
      BY <1>1, <1>2, <1>5, <2>4 DEF QueuePreparing, TypeOK
    <2> QED
      BY <1>5, <2>1, <2>2, <2>3, <2>4 DEF QueuePreparing
  <1>6. CASE SaveAndAnswer
    <2>1. acked' \in SUBSET Msg
      BY <1>3, <1>6 DEF SaveAndAnswer, TypeOK
    <2> QED
      BY <1>1, <1>2, <1>6, <2>1 DEF SaveAndAnswer, TypeOK
  <1>7. CASE Dispatch
    <2>1. \E place \in HandlerPc \ {"push"} : Proceed(place)
      BY <1>2, <1>7 DEF Dispatch
    <2>2. hpc' \in HandlerPc \ {"push"} /\ hctl' \in Control /\ seen' \in Status
      BY <1>1, <2>1 DEF Proceed
    <2>3. inbox' \in Seq(Control)
      BY <1>7, AppendTyped DEF Dispatch, TypeOK
    <2>4. cancelled' \in BOOLEAN /\ wake' \in BOOLEAN
      BY <1>7 DEF Dispatch, TypeOK
    <2> QED
      BY <1>7, <2>2, <2>3, <2>4 DEF Dispatch, TypeOK
  <1>8. CASE StopWaiting
    BY <1>1, <1>2, <1>8 DEF StopWaiting, TypeOK
  <1>9. CASE Reconnect
    <2> DEFINE marks == IF IsMessage(hctl) THEN Noted(mem.marks, {hctl.msg}, "awaiting")
                        ELSE mem.marks
    <2>1. marks \in [Msg -> SUBSET Kind]
      BY FieldTyped, NotedTyped DEF TypeOK, Kind
    <2>2. mem' = [mem EXCEPT !.status = "Starting", !.marks = marks]
      BY <1>9 DEF Reconnect, TypeOK, Session
    <2>3. mem' \in Session
      <3> HIDE DEF marks
      <3> QED BY <2>1, <2>2 DEF TypeOK, Session, Status
    <2> QED
      BY <1>1, <1>2, <1>9, <2>3 DEF Reconnect, TypeOK
  <1>10. CASE StartWorker
    <2>1. pc' \in WorkerPc /\ initial' \in InitialControl /\ cancelled' \in BOOLEAN
          /\ wake' \in BOOLEAN
      BY <1>10 DEF StartWorker, TypeOK, WorkerPc, InitialControl
    <2>2. inbox' \in Seq(Control)
      BY <1>10, EmptySeq DEF StartWorker, TypeOK
    <2>3. acked' \in SUBSET Msg
      BY <1>3, <1>10 DEF StartWorker, TypeOK
    <2> QED
      BY <1>1, <1>2, <1>10, <2>1, <2>2, <2>3 DEF StartWorker, TypeOK
  <1> QED
    BY <1>4, <1>5, <1>6, <1>7, <1>8, <1>9, <1>10 DEF Handler

\* A new provider process is a provider.
LEMMA NewProcessTyped ==
  ASSUME NEW p \in Provider
  PROVE  NewProcess(p) \in Provider
  <1>1. 0 \in Turn /\ <<>> \in Seq(Owed)
    BY SessionAssumption, EmptySeq DEF Turn
  <1> QED
    BY <1>1 DEF NewProcess, Provider

\* The steps of the provider keep the types.
LEMMA ProviderTyped ==
  ASSUME TypeOK, CodexProvider
  PROVE  TypeOK'
  <1> USE DEF serviceVars, handlerVars, sendVars, connVars, workerVars,
              channelVars, providerVars, userVars, historyVars
  <1>1. 0 \in Turn /\ <<>> \in Seq(Owed)
    BY SessionAssumption, EmptySeq DEF Turn
  <1>2. ASSUME NEW e \in Event \cup Reply, Speak(e)
        PROVE  output' \in Seq(Event \cup Reply) /\ wake' \in BOOLEAN
    BY <1>2, AppendTyped DEF Speak, TypeOK
  <1>3. CASE ProviderReads
    <2>1. pipe' \in Seq(Request) /\ Head(pipe) \in Request
      BY <1>3, TailTyped DEF ProviderReads, TypeOK
    <2> DEFINE r == Head(pipe)
               owe(ok, t) == <<[ok |-> ok, turn |-> t, live |-> r.live]>>
    <2>2. ASSUME NEW ok \in BOOLEAN, NEW t \in Turn
          PROVE  owe(ok, t) \in Seq(Owed)
      <3>1. [ok |-> ok, turn |-> t, live |-> r.live] \in Owed
        BY <2>1 DEF Request, Owed
      <3> QED
        BY <3>1
    <2>3. r.prompt \in Prompt /\ {r.prompt} \cap Msg \in SUBSET Msg
      BY <2>1 DEF Request
    <2> HIDE DEF r, owe
    <2>4. provider' \in Provider
      <3>1. CASE /\ provider.last < MaxTurn
                 /\ provider' = [provider EXCEPT
                       !.turn = provider.last + 1, !.last = @ + 1,
                       !.announced = FALSE, !.stopping = FALSE,
                       !.history = @ \cup {r.prompt},
                       !.echoes = @ \cup ({r.prompt} \cap Msg),
                       !.owed = owe(TRUE, provider.last + 1)]
        <4>1. provider.last + 1 \in Turn
          BY <3>1, SessionAssumption DEF TypeOK, Provider, Turn
        <4>2. owe(TRUE, provider.last + 1) \in Seq(Owed)
          BY <4>1, <2>2
        <4> QED
          BY <2>3, <3>1, <4>1, <4>2 DEF TypeOK, Provider
      <3>2. CASE provider' = [provider EXCEPT
                       !.history = @ \cup {r.prompt},
                       !.echoes = @ \cup ({r.prompt} \cap Msg),
                       !.owed = owe(TRUE, 0)]
        <4>1. owe(TRUE, 0) \in Seq(Owed)
          BY <1>1, <2>2
        <4> QED
          BY <2>3, <3>2, <4>1 DEF TypeOK, Provider
      <3>3. CASE provider' = [provider EXCEPT !.stopping = TRUE, !.owed = owe(TRUE, 0)]
        <4>1. owe(TRUE, 0) \in Seq(Owed)
          BY <1>1, <2>2
        <4> QED
          BY <3>3, <4>1 DEF TypeOK, Provider
      <3>4. CASE provider' = [provider EXCEPT !.owed = owe(FALSE, 0)]
        <4>1. owe(FALSE, 0) \in Seq(Owed)
          BY <1>1, <2>2
        <4> QED
          BY <3>4, <4>1 DEF TypeOK, Provider
      <3> QED
        BY <1>3, <3>1, <3>2, <3>3, <3>4 DEF ProviderReads, r, owe
    <2> QED
      BY <1>3, <2>1, <2>4 DEF ProviderReads, TypeOK
  <1>4. CASE ProviderReplies
    <2>1. provider' \in Provider
      BY <1>1, <1>4 DEF ProviderReplies, TypeOK, Provider
    <2>2. Head(provider.owed) \in Owed
      BY <1>4, TailTyped DEF ProviderReplies, TypeOK, Provider
    <2>3. Answer(Head(provider.owed)) \in Reply
      BY <2>2 DEF Answer, Owed, Reply
    <2>4. output' \in Seq(Event \cup Reply) /\ wake' \in BOOLEAN
      BY <1>2, <1>4, <2>3 DEF ProviderReplies, TypeOK
    <2> QED
      BY <1>4, <2>1, <2>4 DEF ProviderReplies, TypeOK
  <1>5. CASE ProviderStartsTurn
    <2>1. provider' \in Provider /\ provider.turn \in Turn
      BY <1>5 DEF ProviderStartsTurn, TypeOK, Provider
    <2>2. Started(provider.turn) \in Event
      BY <2>1 DEF Started, Event
    <2>3. output' \in Seq(Event \cup Reply) /\ wake' \in BOOLEAN
      BY <1>2, <1>5, <2>2 DEF ProviderStartsTurn
    <2> QED
      BY <1>5, <2>1, <2>3 DEF ProviderStartsTurn, TypeOK
  <1>6. CASE ProviderEchoes
    <2>1. PICK m \in provider.echoes :
            provider' = [provider EXCEPT !.echoes = @ \ {m}] /\ Speak(Echo(m))
      BY <1>6 DEF ProviderEchoes
    <2>2. provider' \in Provider /\ m \in Msg
      BY <2>1 DEF TypeOK, Provider
    <2>3. Echo(m) \in Event
      BY <2>2 DEF Echo, Event
    <2>4. output' \in Seq(Event \cup Reply) /\ wake' \in BOOLEAN
      BY <1>2, <2>1, <2>3
    <2> QED
      BY <1>6, <2>2, <2>4 DEF ProviderEchoes, TypeOK
  <1>7. CASE ProviderEndsTurn
    <2>1. provider' \in Provider /\ provider.turn \in Turn
      BY <1>1, <1>7 DEF ProviderEndsTurn, TypeOK, Provider
    <2>2. \A o \in Outcome : Finished(provider.turn, o) \in Event
      BY <2>1 DEF Finished, Event
    <2>3. \E o \in Outcome : Speak(Finished(provider.turn, o))
      BY <1>7 DEF ProviderEndsTurn, Outcome
    <2>4. output' \in Seq(Event \cup Reply) /\ wake' \in BOOLEAN
      BY <1>2, <2>2, <2>3
    <2> QED
      BY <1>7, <2>1, <2>4 DEF ProviderEndsTurn, TypeOK
  <1>8. CASE ProviderDies
    <2>1. provider' \in Provider
      <3>1. NewProcess(provider) \in Provider
        BY NewProcessTyped DEF TypeOK
      <3> QED
        BY <1>8, <3>1 DEF ProviderDies, Provider
    <2>2. pipe' \in Seq(Request)
      BY <1>8, EmptySeq DEF ProviderDies
    <2> QED
      BY <1>8, <2>1, <2>2 DEF ProviderDies, TypeOK
  <1> QED
    BY <1>3, <1>4, <1>5, <1>6, <1>7, <1>8 DEF CodexProvider

\* What is left when the process is gone.
LEMMA GoneTyped ==
  ASSUME TypeOK, Gone, disk' \in Session, stops' \in 0..MaxStops,
         crashes' \in 0..MaxCrashes
  PROVE  TypeOK'
  <1> USE DEF userVars, historyVars
  <1>1. 0 \in Turn /\ Continue \in Prompt
    BY SessionAssumption DEF Turn, Prompt
  <1>2. provider' \in Provider
    BY NewProcessTyped DEF Gone, TypeOK
  <1>3. /\ Plain("none") \in Control /\ Plain("none") \in InitialControl
        /\ "free" \in HandlerPc /\ "none" \in WorkerPc
        /\ "initial" \in Via /\ "Idle" \in Status
    BY DEF Plain, Control, InitialControl, HandlerPc, WorkerPc, Via, Status
  <1>4. inbox' \in Seq(Control) /\ pipe' \in Seq(Request)
        /\ output' \in Seq(Event \cup Reply)
    BY EmptySeq DEF Gone
  <1> QED
    BY <1>1, <1>2, <1>3, <1>4 DEF Gone, TypeOK

\* The steps of the service process keep the types.
LEMMA ServiceTyped ==
  ASSUME TypeOK, Service \/ StopSignal \/ Crash
  PROVE  TypeOK'
  <1> USE DEF serviceVars, handlerVars, sendVars, connVars, workerVars,
              channelVars, providerVars, userVars, historyVars
  <1>1. CASE Flush
    BY <1>1 DEF Flush, TypeOK
  <1>2. CASE StopSignal
    <2>1. stops' \in 0..MaxStops
      BY <1>2, ServiceAssumption DEF StopSignal, TypeOK
    <2> QED
      BY <1>2, <2>1 DEF StopSignal, TypeOK
  <1>3. CASE MarkActive
    <2>1. mem' \in Session
      BY <1>3, ShutdownTyped DEF MarkActive, TypeOK
    <2> QED
      BY <1>3, <2>1 DEF MarkActive, TypeOK
  <1>4. CASE CancelWorkers
    BY <1>4 DEF CancelWorkers, TypeOK
  <1>5. CASE Exit
    <2>1. disk' \in Session
      BY <1>5, ShutdownTyped DEF Exit, TypeOK
    <2> QED
      BY <1>5, <2>1, GoneTyped DEF Exit, TypeOK
  <1>6. CASE Crash
    <2>1. crashes' \in 0..MaxCrashes
      BY <1>6, ServiceAssumption DEF Crash, TypeOK
    <2> QED
      BY <1>6, <2>1, GoneTyped DEF Crash, TypeOK
  <1>7. CASE Restart
    <2>1. mem' \in Session
      BY <1>7, AfterRestartTyped DEF Restart, TypeOK
    <2> QED
      BY <1>7, <2>1 DEF Restart, TypeOK
  <1>8. CASE ResumeDue
    <2>1. mem' \in Session
      BY <1>8, FieldTyped DEF ResumeDue, TypeOK
    <2> QED
      BY <1>8, <2>1 DEF ResumeDue, TypeOK
  <1>9. CASE ResumeHandled
    BY <1>9, SubmitTyped
  <1> QED
    BY <1>1, <1>2, <1>3, <1>4, <1>5, <1>6, <1>7, <1>8, <1>9 DEF Service

\* The worker's places, for the steps below.
LEMMA PlaceTyped ==
  /\ {"setup", "empty", "connect", "connected", "initial", "resume", "intent",
      "write", "call", "drain", "next", "popped", "house", "loop", "command",
      "sleep", "ending", "ended", "none"} \subseteq WorkerPc
  /\ {"initial", "command", "queue", "waiting", "drain", "interrupt"} \subseteq Via
  /\ Plain("none") \in Control /\ Plain("none") \in InitialControl
  /\ Continue \in Prompt /\ Msg \subseteq Prompt
  /\ 0 \in Turn
  /\ {"Starting", "Idle", "Interrupted"} \subseteq Status
  BY SessionAssumption
     DEF WorkerPc, Via, Plain, Control, InitialControl, Prompt, Turn, Status

\* The steps of a worker that sets up or connects keep the types.
LEMMA ConnectTyped ==
  ASSUME TypeOK,
         \/ SetUp \/ FirstQueued \/ FirstCommand \/ StartFails \/ Connect
         \/ ConnectDone \/ Initial
  PROVE  TypeOK'
  <1> USE PlaceTyped
      DEF serviceVars, handlerVars, sendVars, connVars, workerVars,
          channelVars, providerVars, userVars, historyVars
  <1>1. CASE SetUp
    <2>1. mem' \in Session /\ disk' \in Session
      BY <1>1, FieldTyped DEF SetUp, TypeOK
    <2> QED
      BY <1>1, <2>1 DEF SetUp, TypeOK
  <1>2. ASSUME NEW c \in Control, LeaveEmpty(c)
        PROVE  mem' \in Session /\ disk' \in Session /\ initial' \in InitialControl
               /\ pc' \in WorkerPc
    BY <1>2, FieldTyped DEF LeaveEmpty, TypeOK, InitialControl
  <1>3. CASE FirstQueued
    BY <1>2, <1>3 DEF FirstQueued, TypeOK
  <1>4. CASE FirstCommand
    <2>1. Head(inbox) \in Control /\ inbox' \in Seq(Control)
      BY <1>4, TailTyped DEF FirstCommand, TypeOK
    <2> DEFINE c == Head(inbox)
    <2>2. CASE c.kind = "message" /\ mem' = [mem EXCEPT !.queue = Append(@, c.msg)]
               /\ disk' = mem' /\ halted' = FALSE
               /\ UNCHANGED <<pc, initial, cancelled>>
      <3>1. c.msg \in Msg
        BY <2>1, <2>2 DEF Control
      <3>2. Append(mem.queue, c.msg) \in Seq(Msg)
        BY <3>1, FieldTyped, AppendTyped DEF TypeOK
      <3>3. mem' \in Session
        BY <2>2, <3>2, FieldTyped DEF TypeOK
      <3> QED
        BY <1>4, <2>1, <2>2, <3>3 DEF FirstCommand, TypeOK
    <2>3. CASE c.kind = "resume" /\ LeaveEmpty(c) /\ halted' = FALSE
               /\ UNCHANGED cancelled
      BY <1>2, <1>4, <2>1, <2>3 DEF FirstCommand, TypeOK
    <2>4. CASE cancelled' \in BOOLEAN /\ UNCHANGED <<mem, disk, pc, initial, halted>>
      BY <1>4, <2>1, <2>4 DEF FirstCommand, TypeOK
    <2> QED
      BY <1>4, <2>2, <2>3, <2>4 DEF FirstCommand, TypeOK
  <1>5. CASE StartFails
    BY <1>5 DEF StartFails, TypeOK
  <1>6. CASE Connect
    <2> DEFINE open == [mem EXCEPT !.thread = TRUE, !.status = "Idle"]
    <2>1. open \in Session
      BY DEF TypeOK, Session
    <2>2. Restored(open, provider.history \cap Msg) \in Session
      <3>1. open.marks \in [Msg -> SUBSET Kind]
        BY <2>1, FieldTyped
      <3>2. Noted(open.marks, provider.history \cap Msg, "delivered")
              \in [Msg -> SUBSET Kind]
        BY <3>1, NotedTyped DEF Kind
      <3> HIDE DEF open
      <3> QED
        BY <2>1, <3>2, FieldTyped DEF Restored
    <2>3. resuming' \in BOOLEAN
      BY <1>6, FieldTyped DEF Connect, TypeOK
    <2>4. mem' \in Session
      BY <1>6, <2>1, <2>2 DEF Connect
    <2> QED
      BY <1>6, <2>3, <2>4 DEF Connect, TypeOK
  <1>7. CASE ConnectDone
    BY <1>7 DEF ConnectDone, TypeOK
  <1>8. CASE Initial
    <2>1. initial.kind \in {"message", "launch"} => initial.msg \in Msg
      BY DEF TypeOK, Control, InitialControl
    <2>2. hand' \in Prompt /\ via' \in Via /\ target' \in Turn /\ pc' \in WorkerPc
          /\ disk' \in Session
      BY <1>8, <2>1 DEF Initial, Take, PutDown, TypeOK
    <2> QED
      BY <1>8, <2>2 DEF Initial, TypeOK
  <1> QED
    BY <1>1, <1>3, <1>4, <1>5, <1>6, <1>7, <1>8

\* The steps of a worker that sends (send_turn, call) keep the types.
LEMMA SendingTyped ==
  ASSUME TypeOK,
         \/ Resumed \/ NotAttempted \/ Intend \/ Write \/ EventWhileWaiting
         \/ Acknowledged \/ CallFails
  PROVE  TypeOK'
  <1> USE PlaceTyped
      DEF serviceVars, handlerVars, sendVars, connVars, workerVars,
          channelVars, providerVars, userVars, historyVars
  <1>1. CASE Resumed
    BY <1>1 DEF Resumed, TypeOK
  <1>2. AfterFailure \in WorkerPc
    BY DEF AfterFailure
  <1>3. CASE NotAttempted
    <2> DEFINE marks == Noted(mem.marks, {hand}, "unsent")
    <2>1. marks \in [Msg -> SUBSET Kind]
      BY FieldTyped, NotedTyped DEF TypeOK, Kind
    <2>2. [mem EXCEPT !.marks = marks] \in Session
      BY <2>1, FieldTyped DEF TypeOK
    <2>3. \/ mem' = [mem EXCEPT !.marks = marks] /\ disk' = mem'
          \/ mem' = mem /\ disk' = disk
      BY <1>3 DEF NotAttempted
    <2>4. mem' \in Session /\ disk' \in Session
      BY <2>2, <2>3 DEF TypeOK
    <2> QED
      BY <1>2, <1>3, <2>4 DEF NotAttempted, PutDown, Take, TypeOK
  <1>4. CASE Intend
    <2>1. (target # 0) \in BOOLEAN
      OBVIOUS
    <2>2. mem' \in Session
      BY <1>4, <2>1, SendTyped DEF Intend, TypeOK
    <2>3. target' \in Turn
      BY <1>4, FieldTyped DEF Intend, TypeOK
    <2> QED
      BY <1>4, <2>2, <2>3 DEF Intend, TypeOK
  <1>5. CASE Write
    <2>1. [kind |-> IF target = 0 THEN "start" ELSE "steer",
           prompt |-> hand, turn |-> target, live |-> TRUE] \in Request
      BY DEF Request, TypeOK
    <2>2. pipe' \in Seq(Request)
      BY <1>5, <2>1, AppendTyped DEF Write, TypeOK
    <2>3. sent' \in [Prompt -> Nat]
      BY <1>5 DEF Write, TypeOK
    <2> QED
      BY <1>5, <2>2, <2>3 DEF Write, TypeOK
  <1>6. CASE EventWhileWaiting
    <2>1. Head(output) \in Event \cup Reply /\ output' \in Seq(Event \cup Reply)
      BY <1>6, TailTyped DEF EventWhileWaiting, TypeOK
    <2>2. mem' \in Session
      BY <1>6, <2>1, ApplyEventTyped, ApplyKeepingQueueTyped
         DEF EventWhileWaiting, TypeOK
    <2> QED
      BY <1>6, <2>1, <2>2 DEF EventWhileWaiting, TypeOK
  <1>7. CASE Acknowledged
    <2>1. Head(output) \in Event \cup Reply /\ output' \in Seq(Event \cup Reply)
      BY <1>7, TailTyped DEF Acknowledged, TypeOK
    <2>2. Head(output).turn \in Turn
      BY <1>7, <2>1 DEF Acknowledged, Event, Reply
    <2>3. SendAccepted(mem, hand, Head(output).turn) \in Session
      <3>1. TRUE \in BOOLEAN
        OBVIOUS
      <3> QED
        BY <2>2, <3>1, SendTyped DEF TypeOK
    <2>4. QueueUnsent([mem EXCEPT !.status = "Interrupted"]) \in Session
      BY FieldTyped, QueueUnsentTyped DEF TypeOK
    <2>5. mem' \in Session /\ disk' \in Session
      <3>1. CASE Sends
        BY <1>7, <2>3, <3>1 DEF Acknowledged
      <3>2. CASE ~Sends
        BY <1>7, <2>4, <3>2 DEF Acknowledged, TypeOK
      <3> QED
        BY <3>1, <3>2
    <2>6. AfterReply \in WorkerPc
      BY DEF AfterReply
    <2>7. via' \in Via /\ hand' \in Prompt /\ target' \in Turn
      BY <1>7 DEF Acknowledged, PutDown, Take, TypeOK
    <2>8. halted' \in BOOLEAN
      BY <1>7 DEF Acknowledged, TypeOK
    <2> QED
      BY <1>7, <2>1, <2>5, <2>6, <2>7, <2>8 DEF Acknowledged, TypeOK
  <1>8. CASE CallFails
    <2>1. output' \in Seq(Event \cup Reply)
      <3>1. Late \in Reply
        BY DEF Late, Reply
      <3>2. \A i \in DOMAIN output : output[i] \in Event \cup Reply
        BY ElementOfSeq DEF TypeOK
      <3>3. output' \in [DOMAIN output -> Event \cup Reply]
        BY <1>8, <3>1, <3>2 DEF CallFails, Abandon
      <3> QED
        BY <3>3, MappedTyped DEF TypeOK
    <2>2. pipe' \in Seq(Request)
      <3>1. \A i \in DOMAIN pipe : pipe[i] \in Request
        BY ElementOfSeq DEF TypeOK
      <3>2. \A r \in Request : [r EXCEPT !.live = FALSE] \in Request
        BY DEF Request
      <3>3. pipe' \in [DOMAIN pipe -> Request]
        BY <1>8, <3>1, <3>2 DEF CallFails, Abandon
      <3> QED
        BY <3>3, MappedTyped DEF TypeOK
    <2>3. provider' \in Provider
      <3> DEFINE owed == [i \in DOMAIN provider.owed |->
                            [ok |-> FALSE, turn |-> 0, live |-> FALSE]]
      <3>1. provider.owed \in Seq(Owed)
        BY DEF TypeOK, Provider
      <3>2. [ok |-> FALSE, turn |-> 0, live |-> FALSE] \in Owed
        BY DEF Owed
      <3>3. owed \in Seq(Owed)
        <4>1. owed \in [DOMAIN provider.owed -> Owed]
          BY <3>2
        <4> QED
          BY <3>1, <4>1, MappedTyped
      <3>4. provider' = [provider EXCEPT !.owed = owed]
        BY <1>8 DEF CallFails, Abandon
      <3> QED
        <4> HIDE DEF owed
        <4> QED BY <3>3, <3>4 DEF TypeOK, Provider
    <2>4. SendFailed(mem) \in Session
      <3>1. SendRefused(mem, hand) \in Session
        <4>1. TRUE \in BOOLEAN
          OBVIOUS
        <4> QED
          BY <4>1, SendTyped DEF TypeOK
      <3>2. Noted(SendRefused(mem, hand).marks, {hand}, "unsent")
              \in [Msg -> SUBSET Kind]
        BY <3>1, FieldTyped, NotedTyped DEF Kind
      <3> QED
        BY <3>1, <3>2, FieldTyped DEF SendFailed
    <2>5. mem' \in Session /\ disk' \in Session
      BY <1>8, <2>4 DEF CallFails, Abandon, TypeOK
    <2>6. pc' \in WorkerPc
      BY <1>2, <1>8 DEF CallFails, Abandon
    <2>7. via' \in Via /\ hand' \in Prompt /\ target' \in Turn
      BY <1>8 DEF CallFails, Abandon, PutDown, Take
    <2> QED
      BY <1>8, <2>1, <2>2, <2>3, <2>5, <2>6, <2>7 DEF CallFails, Abandon, TypeOK
  <1> QED
    BY <1>1, <1>3, <1>4, <1>5, <1>6, <1>7, <1>8

\* The steps of the worker's loop and its end keep the types.
LEMMA LoopTyped ==
  ASSUME TypeOK,
         \/ TakeQueued \/ SaveTaken \/ NothingQueued \/ LoopEvent \/ LoopDrained
         \/ NoCommand \/ LoopWake \/ LoopEnds \/ Drained \/ DrainFails
         \/ TakeWaiting \/ WaitingSent \/ WorkerEnds \/ WorkerExits
  PROVE  TypeOK'
  <1> USE PlaceTyped
      DEF serviceVars, handlerVars, sendVars, connVars, workerVars,
          channelVars, providerVars, userVars, historyVars
  <1>1. ASSUME mem.queue # <<>>, mem' = [mem EXCEPT !.queue = Tail(@)]
        PROVE  mem' \in Session /\ Head(mem.queue) \in Prompt /\ mem.turn \in Turn
    <2>1. Head(mem.queue) \in Msg /\ Tail(mem.queue) \in Seq(Msg)
      BY <1>1, FieldTyped, TailTyped DEF TypeOK
    <2> QED
      BY <1>1, <2>1, FieldTyped DEF TypeOK
  <1>2. CASE TakeQueued
    BY <1>1, <1>2 DEF TakeQueued, Take, TypeOK
  <1>3. CASE TakeWaiting
    BY <1>1, <1>3 DEF TakeWaiting, Take, TypeOK
  <1>4. CASE SaveTaken
    BY <1>4 DEF SaveTaken, TypeOK
  <1>5. CASE NothingQueued
    BY <1>5 DEF NothingQueued, TypeOK
  <1>6. CASE LoopEvent
    <2>1. Head(output) \in Event \cup Reply /\ output' \in Seq(Event \cup Reply)
      BY <1>6, TailTyped DEF LoopEvent, TypeOK
    <2>2. mem' \in Session
      BY <1>6, <2>1, ApplyEventTyped DEF LoopEvent, TypeOK
    <2> QED
      BY <1>6, <2>1, <2>2 DEF LoopEvent, TypeOK
  <1>7. CASE LoopDrained
    BY <1>7 DEF LoopDrained, TypeOK
  <1>8. CASE NoCommand
    BY <1>8 DEF NoCommand, TypeOK
  <1>9. CASE LoopWake
    BY <1>9 DEF LoopWake, TypeOK
  <1>10. CASE LoopEnds
    BY <1>10 DEF LoopEnds, TypeOK
  <1>11. CASE Drained
    BY <1>11 DEF Drained, PutDown, Take, TypeOK
  <1>12. CASE DrainFails
    BY <1>12 DEF DrainFails, PutDown, Take, TypeOK
  <1>13. CASE WaitingSent
    BY <1>13 DEF WaitingSent, TypeOK
  <1>14. CASE WorkerEnds
    <2>1. (svc # "up") \in BOOLEAN
      OBVIOUS
    <2>2. mem' \in Session
      BY <1>14, <2>1, WorkerEndedTyped DEF WorkerEnds, TypeOK
    <2>3. provider' \in Provider
      BY <1>14, NewProcessTyped DEF WorkerEnds, TypeOK
    <2>4. inbox' \in Seq(Control) /\ pipe' \in Seq(Request)
          /\ output' \in Seq(Event \cup Reply)
      BY <1>14, EmptySeq DEF WorkerEnds
    <2> QED
      BY <1>14, <2>2, <2>3, <2>4 DEF WorkerEnds, TypeOK
  <1>15. CASE WorkerExits
    BY <1>15 DEF WorkerExits, TypeOK
  <1> QED
    BY <1>2, <1>3, <1>4, <1>5, <1>6, <1>7, <1>8, <1>9, <1>10, <1>11, <1>12,
       <1>13, <1>14, <1>15

\* The commands of users (engine::command) keep the types.
LEMMA CommandTyped ==
  ASSUME TypeOK, LoopCommand
  PROVE  TypeOK'
  <1> USE PlaceTyped
      DEF serviceVars, handlerVars, sendVars, connVars, workerVars,
          channelVars, providerVars, userVars, historyVars
  <1> DEFINE c == Head(inbox)
             Good == /\ mem' \in Session /\ disk' \in Session /\ pc' \in WorkerPc
                     /\ via' \in Via /\ hand' \in Prompt /\ target' \in Turn
                     /\ pipe' \in Seq(Request) /\ halted' \in BOOLEAN
  <1>1. c \in Control /\ inbox' \in Seq(Control)
    BY TailTyped DEF LoopCommand, TypeOK
  <1>2. ASSUME NEW purpose \in Via, Interrupting(purpose)
        PROVE  /\ pipe' \in Seq(Request) /\ pc' \in WorkerPc
               /\ via' \in Via /\ hand' \in Prompt /\ target' \in Turn
    <2>1. mem.turn \in Turn
      BY FieldTyped DEF TypeOK
    <2>2. [kind |-> "interrupt", prompt |-> Continue, turn |-> mem.turn,
           live |-> TRUE] \in Request
      BY <2>1 DEF Request
    <2> QED
      BY <1>2, <2>1, <2>2, AppendTyped DEF Interrupting, Take, TypeOK
  <1>3. ASSUME c.kind = "message" /\ CommandMessage(c.msg, c.queue) PROVE Good
    <2>1. c.msg \in Msg
      BY <1>1, <1>3 DEF Control
    <2>2. Append(mem.queue, c.msg) \in Seq(Msg)
      BY <2>1, FieldTyped, AppendTyped DEF TypeOK
    <2>3. mem' \in Session
      BY <1>3, <2>2, FieldTyped DEF CommandMessage, TypeOK
    <2>4. mem.turn \in Turn
      BY FieldTyped DEF TypeOK
    <2> QED
      BY <1>3, <2>1, <2>3, <2>4 DEF CommandMessage, Take, TypeOK
  <1>4. ASSUME c.kind = "remove" /\ CommandRemove(c.msg, c.index) PROVE Good
    <2>1. ASSUME Holds(mem.queue, c.index, c.msg)
          PROVE  RemoveAt(mem.queue, c.index) \in Seq(Msg)
      BY <2>1, FieldTyped, RemoveAtTyped DEF Holds, TypeOK
    <2>2. mem' \in Session /\ disk' \in Session
      <3>1. CASE Holds(mem.queue, c.index, c.msg)
        <4>1. RemoveAt(mem.queue, c.index) \in Seq(Msg)
          BY <2>1, <3>1
        <4>2. mem' = [mem EXCEPT !.queue = RemoveAt(@, c.index)] /\ disk' = mem'
          BY <1>4, <3>1 DEF CommandRemove
        <4> QED
          BY <4>1, <4>2, FieldTyped DEF TypeOK
      <3>2. CASE ~Holds(mem.queue, c.index, c.msg)
        BY <1>4, <3>2 DEF CommandRemove, TypeOK
      <3> QED
        BY <3>1, <3>2
    <2> QED
      BY <1>4, <2>2 DEF CommandRemove, TypeOK
  <1>5. ASSUME c.kind = "sendWaiting" /\ CommandSendWaiting PROVE Good
    BY <1>2, <1>5 DEF CommandSendWaiting, TypeOK
  <1>6. ASSUME c.kind = "interrupt" /\ CommandInterrupt PROVE Good
    <2>1. QueueUnsent([mem EXCEPT !.status = "Interrupted"]) \in Session
      BY FieldTyped, QueueUnsentTyped DEF TypeOK
    <2> QED
      BY <1>2, <1>6, <2>1 DEF CommandInterrupt, TypeOK
  <1>7. ASSUME c.kind = "resume" /\ CommandResume PROVE Good
    BY <1>7 DEF CommandResume, Take, TypeOK
  <1>8. Good
    BY <1>3, <1>4, <1>5, <1>6, <1>7 DEF LoopCommand
  <1>9. acked' \in SUBSET Msg
    BY DEF LoopCommand, TypeOK
  <1> HIDE DEF Good
  <1> QED
    BY <1>1, <1>8, <1>9 DEF LoopCommand, TypeOK, Good

-----------------------------------------------------------------------------

\* TypeOK is inductive.
LEMMA NextTyped == TypeOK /\ [Next]_vars => TypeOK'
  <1> SUFFICES ASSUME TypeOK, [Next]_vars PROVE TypeOK'
    OBVIOUS
  <1>1. CASE Next
    <2>1. CASE Worker
      BY <2>1, ConnectTyped, SendingTyped, LoopTyped, CommandTyped DEF Worker
    <2> QED
      BY <1>1, <2>1, SubmitTyped, HandlerTyped, ProviderTyped, ServiceTyped DEF Next
  <1>2. CASE UNCHANGED vars
    BY <1>2 DEF vars, serviceVars, handlerVars, sendVars, connVars, workerVars,
                channelVars, providerVars, userVars, historyVars, TypeOK
  <1> QED
    BY <1>1, <1>2

\* Type correctness.  Beyond the shape of the state it says that a turn or a
\* command always names a prompt that exists and that a session continues
\* after restarts at most ResumeLimit times within a window (after_restart).
THEOREM TypeCorrect == Spec => []TypeOK
  <1>1. TypeOK /\ [Next]_vars => TypeOK'
    BY NextTyped
  <1> QED
    BY <1>1, InitTyped, PTL DEF Spec

-----------------------------------------------------------------------------
(* Sequences without repetitions *)

\* An empty queue repeats nothing.
LEMMA EmptyDistinct == IsInjective(<<>>) /\ Range(<<>>) = {}
  BY DEF IsInjective, Range

\* The tail of a queue without repetitions lacks its head.
LEMMA TailDistinct ==
  ASSUME NEW S, NEW q \in Seq(S), q # <<>>, IsInjective(q)
  PROVE  /\ IsInjective(Tail(q)) /\ Range(Tail(q)) \subseteq Range(q)
         /\ Head(q) \in Range(q) /\ Head(q) \notin Range(Tail(q))
  <1>1. /\ Len(q) \in Nat \ {0} /\ DOMAIN q = 1..Len(q)
        /\ Tail(q) \in Seq(S) /\ Len(Tail(q)) = Len(q) - 1
        /\ \A i \in 1..Len(Tail(q)) : Tail(q)[i] = q[i + 1]
    BY HeadTailProperties, EmptySeq, LenProperties
  <1>2. DOMAIN Tail(q) = 1..(Len(q) - 1)
    BY <1>1, LenProperties
  <1>3. Head(q) = q[1]
    BY <1>1
  <1>4. IsInjective(Tail(q))
    BY <1>1, <1>2 DEF IsInjective
  <1>5. Range(Tail(q)) \subseteq Range(q)
    BY <1>1, <1>2 DEF Range
  <1>6. Head(q) \in Range(q)
    BY <1>1, <1>3 DEF Range
  <1>7. Head(q) \notin Range(Tail(q))
    BY <1>1, <1>2, <1>3 DEF IsInjective, Range
  <1> QED
    BY <1>4, <1>5, <1>6, <1>7

\* A new element keeps a queue free of repetitions.
LEMMA AppendDistinct ==
  ASSUME NEW S, NEW q \in Seq(S), NEW e \in S, IsInjective(q), e \notin Range(q)
  PROVE  IsInjective(Append(q, e)) /\ Range(Append(q, e)) = Range(q) \cup {e}
  <1>1. /\ Len(q) \in Nat /\ DOMAIN q = 1..Len(q)
        /\ Append(q, e) \in Seq(S) /\ Len(Append(q, e)) = Len(q) + 1
        /\ \A i \in 1..Len(q) : Append(q, e)[i] = q[i]
        /\ Append(q, e)[Len(q) + 1] = e
    BY AppendProperties, LenProperties
  <1>2. DOMAIN Append(q, e) = 1..(Len(q) + 1)
    BY <1>1, LenProperties
  <1>3. \A i \in 1..Len(q) : q[i] # e
    BY <1>1 DEF Range
  <1>4. IsInjective(Append(q, e))
    BY <1>1, <1>2, <1>3 DEF IsInjective
  <1>5. Range(Append(q, e)) = Range(q) \cup {e}
    BY <1>1, <1>2 DEF Range
  <1> QED
    BY <1>4, <1>5

\* A sequence without its i-th element is shifted from there on.
LEMMA RemoveAtIs ==
  ASSUME NEW S, NEW q \in Seq(S), NEW i \in DOMAIN q
  PROVE  /\ DOMAIN RemoveAt(q, i) = 1..(Len(q) - 1)
         /\ \A k \in DOMAIN RemoveAt(q, i) :
              RemoveAt(q, i)[k] = q[IF k < i THEN k ELSE k + 1]
  <1> DEFINE a == SubSeq(q, 1, i - 1)
             b == SubSeq(q, i + 1, Len(q))
  <1>1. Len(q) \in Nat /\ DOMAIN q = 1..Len(q) /\ i \in 1..Len(q)
    BY LenProperties
  <1>2. /\ a \in Seq(S) /\ Len(a) = i - 1
        /\ \A k \in 1..(i - 1) : a[k] = q[k]
    BY <1>1, SubSeqProperties, ElementOfSeq
  <1>3. /\ b \in Seq(S) /\ Len(b) = Len(q) - i
        /\ \A k \in 1..(Len(q) - i) : b[k] = q[i + k]
    BY <1>1, SubSeqProperties, ElementOfSeq
  <1> HIDE DEF a, b
  <1> DEFINE r == a \o b
  <1>4. /\ r \in Seq(S) /\ Len(r) = Len(a) + Len(b)
        /\ \A k \in 1..(Len(a) + Len(b)) :
             r[k] = IF k <= Len(a) THEN a[k] ELSE b[k - Len(a)]
    BY <1>2, <1>3, ConcatProperties
  <1> HIDE DEF r
  <1>5. DOMAIN r = 1..(Len(q) - 1)
    <2>1. DOMAIN r = 1..Len(r)
      BY <1>4, LenProperties
    <2> QED
      BY <1>1, <1>2, <1>3, <1>4, <2>1
  <1>6. ASSUME NEW k \in DOMAIN r
        PROVE  r[k] = q[IF k < i THEN k ELSE k + 1]
    <2>1. k \in 1..(Len(a) + Len(b))
      BY <1>1, <1>2, <1>3, <1>5
    <2>2. r[k] = IF k <= Len(a) THEN a[k] ELSE b[k - Len(a)]
      BY <1>4, <2>1
    <2>3. CASE k < i
      BY <1>1, <1>2, <2>1, <2>2, <2>3
    <2>4. CASE ~(k < i)
      <3>1. k - Len(a) \in 1..(Len(q) - i) /\ i + (k - Len(a)) = k + 1
        BY <1>1, <1>2, <1>3, <2>1, <2>4
      <3> QED
        BY <1>1, <1>2, <1>3, <2>1, <2>2, <2>4, <3>1
    <2> QED
      BY <2>3, <2>4
  <1> QED
    BY <1>5, <1>6 DEF RemoveAt, a, b, r

\* So does a removal, which adds nothing.
LEMMA RemoveAtDistinct ==
  ASSUME NEW S, NEW q \in Seq(S), NEW i \in DOMAIN q, IsInjective(q)
  PROVE  IsInjective(RemoveAt(q, i)) /\ Range(RemoveAt(q, i)) \subseteq Range(q)
  <1> DEFINE r == RemoveAt(q, i)
  <1>1. Len(q) \in Nat /\ DOMAIN q = 1..Len(q) /\ i \in 1..Len(q)
    BY LenProperties
  <1>2. DOMAIN r = 1..(Len(q) - 1)
    BY RemoveAtIs
  <1>3. ASSUME NEW k \in DOMAIN r
        PROVE  r[k] = q[IF k < i THEN k ELSE k + 1]
    BY RemoveAtIs
  <1> HIDE DEF r
  <1>4. IsInjective(r)
    <2> SUFFICES ASSUME NEW j \in DOMAIN r, NEW k \in DOMAIN r, r[j] = r[k]
                 PROVE  j = k
      BY DEF IsInjective
    <2> DEFINE f(n) == IF n < i THEN n ELSE n + 1
    <2>1. f(j) \in DOMAIN q /\ f(k) \in DOMAIN q
      BY <1>1, <1>2
    <2>2. q[f(j)] = q[f(k)]
      BY <1>3
    <2>3. f(j) = f(k)
      <3> HIDE DEF f
      <3> QED BY <2>1, <2>2 DEF IsInjective
    <2> QED
      BY <1>1, <1>2, <2>3
  <1>5. Range(r) \subseteq Range(q)
    <2> SUFFICES ASSUME NEW k \in DOMAIN r PROVE r[k] \in Range(q)
      BY DEF Range
    <2>1. (IF k < i THEN k ELSE k + 1) \in DOMAIN q
      BY <1>1, <1>2
    <2> QED
      BY <1>3, <2>1 DEF Range
  <1> QED
    BY <1>4, <1>5 DEF r

-----------------------------------------------------------------------------
(* The messages among the commands of the inbox *)

\* An empty inbox holds no message.
LEMMA NoMessages ==
  ASSUME inbox = <<>>
  PROVE  DistinctMessages(inbox) /\ \A m : ~InInbox(m)
  BY DEF DistinctMessages, InInbox

\* Receiving a command adds no message to the inbox.
LEMMA FirstOut ==
  ASSUME inbox \in Seq(Control), inbox # <<>>, DistinctMessages(inbox),
         inbox' = Tail(inbox)
  PROVE  /\ DistinctMessages(inbox')
         /\ \A m : InInbox(m)' => InInbox(m)
         /\ \A m : IsMessage(Head(inbox)) /\ Head(inbox).msg = m
                   => InInbox(m) /\ ~InInbox(m)'
  <1>1. /\ Len(inbox) \in Nat \ {0} /\ DOMAIN inbox = 1..Len(inbox)
        /\ Tail(inbox) \in Seq(Control) /\ Len(Tail(inbox)) = Len(inbox) - 1
        /\ \A i \in 1..Len(Tail(inbox)) : Tail(inbox)[i] = inbox[i + 1]
    BY HeadTailProperties, EmptySeq, LenProperties
  <1>2. DOMAIN Tail(inbox) = 1..(Len(inbox) - 1)
    BY <1>1, LenProperties
  <1>3. Head(inbox) = inbox[1]
    BY <1>1
  <1>4. DistinctMessages(inbox')
    BY <1>1, <1>2 DEF DistinctMessages
  <1>5. \A m : InInbox(m)' => InInbox(m)
    BY <1>1, <1>2 DEF InInbox, IsMessage
  <1>6. \A m : IsMessage(Head(inbox)) /\ Head(inbox).msg = m => InInbox(m)
    BY <1>1, <1>3 DEF InInbox
  <1>7. \A m : IsMessage(Head(inbox)) /\ Head(inbox).msg = m => ~InInbox(m)'
    BY <1>1, <1>2, <1>3 DEF DistinctMessages, InInbox, IsMessage
  <1> QED
    BY <1>4, <1>5, <1>6, <1>7

\* A new command adds at most its own message.
LEMMA OneMore ==
  ASSUME NEW c \in Control, inbox \in Seq(Control), DistinctMessages(inbox),
         inbox' = Append(inbox, c), IsMessage(c) => ~InInbox(c.msg)
  PROVE  /\ DistinctMessages(inbox')
         /\ \A m : InInbox(m)' => InInbox(m) \/ (IsMessage(c) /\ c.msg = m)
  <1>1. /\ Len(inbox) \in Nat /\ DOMAIN inbox = 1..Len(inbox)
        /\ Append(inbox, c) \in Seq(Control)
        /\ Len(Append(inbox, c)) = Len(inbox) + 1
        /\ \A i \in 1..Len(inbox) : Append(inbox, c)[i] = inbox[i]
        /\ Append(inbox, c)[Len(inbox) + 1] = c
    BY AppendProperties, LenProperties
  <1>2. DOMAIN Append(inbox, c) = 1..(Len(inbox) + 1)
    BY <1>1, LenProperties
  <1>3. \A i \in 1..Len(inbox) :
          IsMessage(inbox[i]) /\ IsMessage(c) => inbox[i].msg # c.msg
    BY <1>1 DEF InInbox
  <1>4. DistinctMessages(inbox')
    BY <1>1, <1>2, <1>3 DEF DistinctMessages
  <1>5. \A m : InInbox(m)' => InInbox(m) \/ (IsMessage(c) /\ c.msg = m)
    BY <1>1, <1>2 DEF InInbox
  <1> QED
    BY <1>4, <1>5

-----------------------------------------------------------------------------
(* What the session's operators do to its queue *)

\* What the changes that add and settle entries do to the queue.
LEMMA QueueOf ==
  ASSUME NEW s \in Session
  PROVE  /\ QueueUnsent(s).queue = <<>>
         /\ SendingUnacked(s).queue = s.queue
         /\ MarkedForResume(s).queue = s.queue
         /\ InterruptedForExit(s).queue = s.queue
         /\ \A p, steer : SendIntent(s, p, steer).queue = s.queue
         /\ \A p, t : SendAccepted(s, p, t).queue = s.queue
         /\ \A p : SendRefused(s, p).queue = s.queue
         /\ \A H : Restored(s, H).queue = s.queue
  BY DEF QueueUnsent, SendingUnacked, MarkedForResume, InterruptedForExit,
         SendIntent, SendAccepted, SendRefused, Restored, Session

\* An event keeps the queue or empties it.
LEMMA QueueAfterEvent ==
  ASSUME NEW s \in Session, NEW e \in Event \cup Reply
  PROVE  /\ ApplyEvent(s, e).queue \in {s.queue, <<>>}
         /\ ApplyKeepingQueue(s, e).queue = s.queue
  <1>1. ASSUME e.kind = "finished"
        PROVE  ApplyEvent(s, e).queue \in {s.queue, <<>>}
    <2> DEFINE ended == [s EXCEPT !.completed = e.turn, !.turn = 0,
                                   !.status = StatusAfter(e.outcome)]
    <2>1. ended.queue = s.queue
      BY DEF Session
    <2>2. QueueUnsent(ended).queue = <<>>
      <3>1. DOMAIN ended = DOMAIN s /\ "queue" \in DOMAIN s
        BY DEF Session
      <3> QED
        BY <3>1 DEF QueueUnsent, Session
    <2> QED
      BY <1>1, <2>1, <2>2 DEF ApplyEvent, TurnFinished
  <1>2. ASSUME e.kind # "finished"
        PROVE  ApplyEvent(s, e).queue \in {s.queue, <<>>}
    BY <1>2 DEF ApplyEvent, TurnStarted, Echoed, Session
  <1>3. ApplyEvent(s, e).queue \in {s.queue, <<>>}
    BY <1>1, <1>2
  <1>4. ApplyKeepingQueue(s, e).queue = s.queue
    <2> DEFINE applied == ApplyEvent([s EXCEPT !.queue = <<>>], e)
    <2>1. <<>> \in Seq(Msg)
      OBVIOUS
    <2>2. [s EXCEPT !.queue = <<>>] \in Session
      BY <2>1, FieldTyped
    <2>3. applied \in Session
      BY <2>2, ApplyEventTyped
    <2>4. ApplyKeepingQueue(s, e) = [applied EXCEPT !.queue = s.queue]
      BY DEF ApplyKeepingQueue
    <2> HIDE DEF applied
    <2> QED
      BY <2>3, <2>4 DEF Session
  <1> QED
    BY <1>3, <1>4

\* The end of a worker keeps the queue or empties it.
LEMMA QueueAtTheEnd ==
  ASSUME NEW s \in Session, NEW cancel \in BOOLEAN, NEW stopping \in BOOLEAN
  PROVE  WorkerEnded(s, cancel, stopping).queue \in {s.queue, <<>>}
  <1> DEFINE h == IF ~(cancel \/ stopping) THEN [s EXCEPT !.status = "Failed"]
                  ELSE IF Active(s)
                    THEN [s EXCEPT !.status = "Interrupted", !.resume = @ \/ stopping]
                  ELSE s
             e == IF h.resume THEN h ELSE QueueUnsent(h)
  <1>1. h \in Session /\ h.queue = s.queue
    BY DEF Session, Status
  <1>2. e \in Session /\ e.queue \in {s.queue, <<>>}
    BY <1>1, QueueUnsentTyped, QueueOf
  <1>3. SendingUnacked(e) \in Session /\ SendingUnacked(e).queue = e.queue
    BY <1>2, SendingUnackedTyped, QueueOf
  <1>4. WorkerEnded(s, cancel, stopping) = [SendingUnacked(e) EXCEPT !.turn = 0]
    BY DEF WorkerEnded
  <1> HIDE DEF e
  <1> QED
    BY <1>2, <1>3, <1>4 DEF Session

\* A restart keeps the queue or empties it.
LEMMA QueueAfterRestart ==
  ASSUME NEW s \in Session, NEW recent \in 0..s.resumes
  PROVE  AfterRestart(s, recent).queue \in {s.queue, <<>>}
  <1> DEFINE working == Active(s) \/ s.resume
             resumes == working /\ MayContinue(s, recent)
             marked  == [s EXCEPT
                    !.status  = IF working THEN "Interrupted" ELSE @,
                    !.turn    = IF working THEN 0 ELSE @,
                    !.resumes = IF resumes THEN recent + 1
                                ELSE IF working THEN recent ELSE @,
                    !.resume  = resumes]
  <1>1. marked.queue = s.queue /\ DOMAIN marked = DOMAIN s
    BY DEF Session
  <1>2. "queue" \in DOMAIN s
    BY DEF Session
  <1> HIDE DEF marked, resumes
  <1> DEFINE e == IF resumes THEN marked ELSE QueueUnsent(marked)
  <1>3. e.queue \in {s.queue, <<>>}
    BY <1>1, <1>2 DEF QueueUnsent
  <1>4. SendingUnacked(e).queue = e.queue
    BY DEF SendingUnacked
  <1>5. AfterRestart(s, recent) = SendingUnacked(e)
    BY DEF AfterRestart, marked, resumes
  <1> HIDE DEF e
  <1> QED
    BY <1>3, <1>4, <1>5

-----------------------------------------------------------------------------
(* Steps that leave a message where it is, drop it or move it *)

Stays(m) ==
  /\ m \in Range(mem.queue)' => m \in Range(mem.queue)
  /\ m \in Range(disk.queue)' => m \in Range(mem.queue) \cup Range(disk.queue)
  /\ WithHandler(m)' => WithHandler(m)
  /\ ForConnection(m)' => ForConnection(m)
  /\ InInbox(m)' => InInbox(m)
  /\ InHand(m)' => InHand(m)
  /\ sent'[m] = sent[m]
  /\ m \in submitted => m \in submitted'

\* A message that memory holds, which a crash would forget.
InMemory(m) == m \in Range(mem.queue) \/ InPassing(m)

\* What a step has to show of a message: it is in one place still, and does not
\* come back when nobody held it.
Placed(m) ==
  OnePlace(m)' /\ (Live(m)' => Live(m)) /\ (InMemory(m)' => InMemory(m))

\* Memory takes from the file only when it is lost.
OneCopyKept ==
  /\ OneCopy'
  /\ \A m \in Msg : (Live(m)' => Live(m)) /\ (InMemory(m)' => InMemory(m) \/ Exit \/ Crash)

\* A message that stays where it was, or is gone, is in one place still.
LEMMA StaysOnePlace ==
  ASSUME NEW m \in Msg, OnePlace(m), Stays(m)
  PROVE  Placed(m)
  BY DEF Placed, OnePlace, Stays, Live, InMemory, InPassing

\* Whoever is in no second place after the step was in one place before it.
LEMMA MovesOnePlace ==
  ASSUME NEW m \in Msg, OnePlace(m), InMemory(m), sent'[m] = sent[m],
         m \in submitted => m \in submitted',
         m \in Range(mem.queue)' => ~InPassing(m)',
         WithHandler(m)' => ~ForConnection(m)' /\ ~InInbox(m)' /\ ~InHand(m)',
         ForConnection(m)' => ~InInbox(m)' /\ ~InHand(m)',
         InInbox(m)' => ~InHand(m)'
  PROVE  Placed(m)
  BY DEF Placed, OnePlace, Live, InMemory

\* A place whose variables do not change holds the same messages.
LEMMA HandlerStill ==
  ASSUME UNCHANGED <<hpc, hctl>>
  PROVE  \A m : WithHandler(m)' <=> WithHandler(m)
  BY DEF WithHandler

\* A handler outside these places holds no message.
LEMMA HandlerRests ==
  ASSUME hpc' \notin {"push", "prepare", "dispatch", "reconnect", "start"}
  PROVE  \A m : ~WithHandler(m)'
  BY DEF WithHandler

\* A connection that gets no new message holds what it held.
LEMMA ConnectionStill ==
  ASSUME UNCHANGED initial \/ initial'.kind \notin {"message", "launch"}
  PROVE  \A m : ForConnection(m)' => ForConnection(m)
  BY DEF ForConnection

\* An inbox that does not change holds what it held.
LEMMA InboxStill ==
  ASSUME UNCHANGED inbox
  PROVE  /\ \A m : InInbox(m)' <=> InInbox(m)
         /\ DistinctMessages(inbox) => DistinctMessages(inbox)'
  BY DEF InInbox, DistinctMessages

\* An emptied inbox holds no message.
LEMMA InboxGone ==
  ASSUME inbox' = <<>>
  PROVE  DistinctMessages(inbox)' /\ \A m : ~InInbox(m)'
  BY DEF DistinctMessages, InInbox

\* A worker that takes up no prompt has in hand what it had.
LEMMA HandStill ==
  ASSUME \/ pc' \notin {"popped", "resume", "intent", "write"}
         \/ hand' \notin Msg
         \/ hand' = hand /\ pc \in {"popped", "resume", "intent", "write"}
         \/ UNCHANGED <<pc, hand>>
  PROVE  \A m \in Msg : InHand(m)' => InHand(m)
  BY DEF InHand

\* Steps that move no message.
NoMove ==
  /\ \/ mem'.queue \in {mem.queue, <<>>}
     \/ \E i \in DOMAIN mem.queue : mem'.queue = RemoveAt(mem.queue, i)
  /\ disk'.queue \in {disk.queue, mem.queue, mem'.queue}
  /\ \/ UNCHANGED <<hpc, hctl>>
     \/ hpc' \notin {"push", "prepare", "dispatch", "reconnect", "start"}
     \/ ~IsMessage(hctl')
     \/ hctl' = hctl /\ hpc \in {"prepare", "dispatch", "reconnect"}
  /\ UNCHANGED initial \/ initial'.kind \notin {"message", "launch"}
  /\ \/ inbox' \in {inbox, <<>>}
     \/ inbox # <<>> /\ inbox' = Tail(inbox)
     \/ \E c \in Control : ~IsMessage(c) /\ inbox' = Append(inbox, c)
  /\ \/ pc' \notin {"popped", "resume", "intent", "write"}
     \/ hand' \notin Msg
     \/ hand' = hand /\ pc \in {"popped", "resume", "intent", "write"}
     \/ UNCHANGED <<pc, hand>>
  /\ \A m \in Msg : sent'[m] = sent[m]
  /\ submitted' = submitted

\* A step that moves no message leaves each where it is, or drops it.
LEMMA NoMoveStays ==
  ASSUME TypeOK, OneCopy, NoMove
  PROVE  /\ IsInjective(mem.queue)' /\ IsInjective(disk.queue)'
         /\ DistinctMessages(inbox)'
         /\ \A m \in Msg : Stays(m)
  <1>1. mem.queue \in Seq(Msg)
    BY FieldTyped DEF TypeOK
  <1>2. IsInjective(mem.queue)' /\ Range(mem.queue)' \subseteq Range(mem.queue)
    <2>1. CASE mem'.queue = mem.queue
      BY <2>1 DEF OneCopy
    <2>2. CASE mem'.queue = <<>>
      BY <2>2, EmptyDistinct
    <2>3. ASSUME NEW i \in DOMAIN mem.queue, mem'.queue = RemoveAt(mem.queue, i)
          PROVE  IsInjective(mem.queue)' /\ Range(mem.queue)' \subseteq Range(mem.queue)
      BY <1>1, <2>3, RemoveAtDistinct DEF OneCopy
    <2> QED
      BY <2>1, <2>2, <2>3 DEF NoMove
  <1>3. /\ IsInjective(disk.queue)'
        /\ Range(disk.queue)' \subseteq Range(mem.queue) \cup Range(disk.queue)
    BY <1>2 DEF NoMove, OneCopy
  <1>4. DistinctMessages(inbox)' /\ \A m : InInbox(m)' => InInbox(m)
    <2>1. CASE inbox' = inbox
      BY <2>1, InboxStill DEF OneCopy
    <2>2. CASE inbox' = <<>>
      BY <2>2, InboxGone
    <2>3. CASE inbox # <<>> /\ inbox' = Tail(inbox)
      BY <2>3, FirstOut DEF OneCopy, TypeOK
    <2>4. ASSUME NEW c \in Control, ~IsMessage(c), inbox' = Append(inbox, c)
          PROVE  DistinctMessages(inbox)' /\ \A m : InInbox(m)' => InInbox(m)
      BY <2>4, OneMore DEF OneCopy, TypeOK
    <2> QED
      BY <2>1, <2>2, <2>3, <2>4 DEF NoMove
  <1>5. \A m : WithHandler(m)' => WithHandler(m)
    BY HandlerStill DEF NoMove, WithHandler
  <1>6. \A m : ForConnection(m)' => ForConnection(m)
    BY ConnectionStill DEF NoMove
  <1>7. \A m \in Msg : InHand(m)' => InHand(m)
    BY HandStill DEF NoMove
  <1>8. \A m \in Msg : Stays(m)
    BY <1>2, <1>3, <1>4, <1>5, <1>6, <1>7 DEF Stays, NoMove
  <1> QED
    BY <1>2, <1>3, <1>4, <1>8

\* So it keeps one copy.
LEMMA NoMoveKeeps ==
  ASSUME TypeOK, OneCopy, NoMove
  PROVE  OneCopyKept
  <1>1. \A m \in Msg : Placed(m)
    BY NoMoveStays, StaysOnePlace DEF OneCopy
  <1> QED
    BY <1>1, NoMoveStays DEF OneCopy, OneCopyKept, Placed

-----------------------------------------------------------------------------
(* A service that is down holds what the file holds *)

AtRest == svc = "down" => mem = disk /\ pc = "none" /\ hpc = "free"

\* While the service is down memory and file agree, and nobody acts.
LEMMA RestKept == AtRest /\ [Next]_vars => AtRest'
  <1> SUFFICES ASSUME AtRest, [Next]_vars PROVE AtRest'
    OBVIOUS
  <1> USE DEF serviceVars, handlerVars, workerVars, sendVars, connVars,
              channelVars, providerVars, userVars, historyVars
  <1>1. CASE SubmitMessage \/ SubmitControl \/ Handler
    BY <1>1 DEF AtRest, SubmitMessage, SubmitControl, Accept, Handler, PushQueued,
         QueuePreparing, SaveAndAnswer, Dispatch, StopWaiting, Reconnect,
         StartWorker, Serving
  <1>2. CASE Worker
    <2>1. pc # "none" /\ svc' = svc
      <3>1. CASE SetUp \/ FirstQueued \/ FirstCommand \/ StartFails \/ Connect
                 \/ ConnectDone \/ Initial
        BY <3>1 DEF SetUp, FirstQueued, FirstCommand, StartFails, Connect,
                    ConnectDone, Initial
      <3>2. CASE Resumed \/ NotAttempted \/ Intend \/ Write \/ EventWhileWaiting
                 \/ Acknowledged \/ CallFails
        BY <3>2 DEF Resumed, NotAttempted, Intend, Write, EventWhileWaiting,
                    Acknowledged, CallFails
      <3>3. CASE TakeQueued \/ SaveTaken \/ NothingQueued \/ LoopEvent \/ LoopDrained
                 \/ NoCommand \/ LoopWake \/ LoopEnds \/ LoopCommand
        BY <3>3 DEF TakeQueued, SaveTaken, NothingQueued, LoopEvent, LoopDrained,
                    NoCommand, LoopWake, LoopEnds, LoopCommand
      <3>4. CASE Drained \/ DrainFails \/ TakeWaiting \/ WaitingSent
                 \/ WorkerEnds \/ WorkerExits
        BY <3>4 DEF Drained, DrainFails, TakeWaiting, WaitingSent, WorkerEnds,
                    WorkerExits
      <3> QED
        BY <1>2, <3>1, <3>2, <3>3, <3>4 DEF Worker
    <2> QED
      BY <2>1 DEF AtRest
  <1>3. CASE CodexProvider
    BY <1>3 DEF AtRest, CodexProvider, ProviderReads, ProviderReplies,
         ProviderStartsTurn, ProviderEchoes, ProviderEndsTurn, ProviderDies
  <1>4. CASE Service \/ StopSignal \/ Crash
    <2>1. CASE Gone
      BY <2>1 DEF Gone, AtRest
    <2>2. CASE Flush \/ StopSignal \/ MarkActive \/ CancelWorkers \/ Restart
               \/ ResumeDue \/ ResumeHandled
      BY <2>2 DEF AtRest, Flush, StopSignal, MarkActive, CancelWorkers, Restart,
           ResumeDue, ResumeHandled, Accept, Serving
    <2> QED
      BY <1>4, <2>1, <2>2 DEF Service, Exit, Crash
  <1>5. CASE UNCHANGED vars
    BY <1>5 DEF vars, AtRest
  <1> QED
    BY <1>1, <1>2, <1>3, <1>4, <1>5 DEF Next

-----------------------------------------------------------------------------
(* Every action keeps one copy *)

\* A new control keeps one copy and brings no message back.
LEMMA ControlKeeps ==
  ASSUME TypeOK, OneCopy, SubmitControl \/ ResumeHandled
  PROVE  OneCopyKept
  <1> USE DEF serviceVars, handlerVars, workerVars, sendVars, connVars,
              channelVars, providerVars, userVars, historyVars
  <1>1. ASSUME NEW c, Accept(c)
        PROVE  hpc = "free" /\ hctl' = c /\ disk'.queue \in {disk.queue, mem.queue}
    BY <1>1 DEF Accept, Read
  <1>2. CASE SubmitControl
    <2>1. PICK c \in UserControl : Accept(c)
      BY <1>2 DEF SubmitControl
    <2>2. ~IsMessage(c)
      BY DEF UserControl, Plain, Withdraw, IsMessage
    <2>3. NoMove
      BY <1>1, <1>2, <2>1, <2>2 DEF SubmitControl, NoMove
    <2> QED
      BY <2>3, NoMoveKeeps
  <1>3. CASE ResumeHandled
    <2>1. ~IsMessage(Plain("resume"))
      BY DEF Plain, IsMessage
    <2>2. NoMove
      BY <1>1, <1>3, <2>1 DEF ResumeHandled, NoMove
    <2> QED
      BY <2>2, NoMoveKeeps
  <1> QED
    BY <1>2, <1>3

\* The message x is submitted, and is with the handler alone.
Submitted(x) ==
  /\ x \notin submitted /\ submitted' = submitted \cup {x}
  /\ Live(x)' /\ UNCHANGED sent
  /\ \A m \in Msg \ {x} : (Live(m)' <=> Live(m)) /\ (InMemory(m)' => InMemory(m))

\* A new message keeps one copy: a message is submitted once.
LEMMA SubmitKeeps ==
  ASSUME TypeOK, OneCopy, SubmitMessage
  PROVE  OneCopy' /\ \E x \in Msg : Submitted(x)
  <1> USE DEF serviceVars, handlerVars, workerVars, sendVars, connVars,
              channelVars, providerVars, userVars, historyVars
  <1>1. PICK x \in Msg \ submitted, queue \in BOOLEAN :
          Accept(Message(x, queue)) /\ submitted' = submitted \cup {x}
    BY DEF SubmitMessage
  <1>2. /\ UNCHANGED <<mem, disk, initial, inbox, pc, hand, sent>>
        /\ hctl' = Message(x, queue) /\ hpc = "free" /\ hpc' \in {"push", "prepare"}
    BY <1>1 DEF SubmitMessage, Accept, Message, IsMessage
  <1>3. /\ \A m : WithHandler(m)' => m = x
        /\ WithHandler(x)'
    BY <1>2 DEF WithHandler, Message, IsMessage
  <1>4. /\ \A m : ForConnection(m)' <=> ForConnection(m)
        /\ \A m : InInbox(m)' <=> InInbox(m)
        /\ \A m : InHand(m)' <=> InHand(m)
        /\ DistinctMessages(inbox)'
    BY <1>2, InboxStill DEF ForConnection, InHand, OneCopy
  <1>5. ASSUME NEW m \in Msg, m # x PROVE Placed(m)
    <2>1. Stays(m)
      BY <1>1, <1>2, <1>3, <1>4, <1>5 DEF Stays
    <2> QED
      BY <2>1, StaysOnePlace DEF OneCopy
  <1>6. OnePlace(x)'
    <2>1. ~Live(x) /\ sent[x] = 0
      BY <1>1 DEF OneCopy, OnePlace
    <2>2. x \notin Range(mem.queue)' /\ x \notin Range(disk.queue)'
      BY <1>2, <2>1 DEF Live
    <2>3. ~ForConnection(x)' /\ ~InInbox(x)' /\ ~InHand(x)'
      BY <1>4, <2>1 DEF Live, InPassing
    <2> QED
      BY <1>1, <1>2, <2>1, <2>2, <2>3 DEF OnePlace
  <1>7. OneCopy'
    BY <1>2, <1>4, <1>5, <1>6 DEF OneCopy, Placed
  <1>8. Submitted(x)
    <2>1. Live(x)'
      BY <1>3 DEF Live, InPassing
    <2>2. \A m \in Msg \ {x} : ~WithHandler(m) /\ ~WithHandler(m)'
      BY <1>2, <1>3 DEF WithHandler
    <2>3. \A m \in Msg \ {x} : (Live(m)' <=> Live(m)) /\ (InMemory(m)' => InMemory(m))
      BY <1>2, <1>4, <2>2 DEF Live, InMemory, InPassing
    <2> QED
      BY <1>1, <1>2, <2>1, <2>3 DEF Submitted
  <1> QED
    BY <1>1, <1>7, <1>8

\* A message passes from another place to the queue: the shared end of the steps that
\* queue one.
LEMMA QueuedKeeps ==
  ASSUME TypeOK, OneCopy, NEW x \in Msg, InPassing(x),
         mem'.queue = Append(mem.queue, x),
         disk'.queue \in {disk.queue, mem'.queue},
         DistinctMessages(inbox)',
         \A m \in Msg : /\ WithHandler(m)' => WithHandler(m)
                        /\ ForConnection(m)' => ForConnection(m)
                        /\ InInbox(m)' => InInbox(m)
                        /\ InHand(m)' => InHand(m),
         ~InPassing(x)',
         \A m \in Msg : sent'[m] = sent[m],
         submitted' = submitted
  PROVE  OneCopyKept
  <1>1. x \notin Range(mem.queue)
    BY DEF OneCopy, OnePlace
  <1>2. /\ IsInjective(mem.queue)'
        /\ Range(mem.queue)' = Range(mem.queue) \cup {x}
    <2>1. mem.queue \in Seq(Msg) /\ IsInjective(mem.queue)
      BY FieldTyped DEF OneCopy, TypeOK
    <2>2. /\ IsInjective(Append(mem.queue, x))
          /\ Range(Append(mem.queue, x)) = Range(mem.queue) \cup {x}
      BY <1>1, <2>1, AppendDistinct
    <2> QED
      BY <2>2
  <1>3. IsInjective(disk.queue)'
    BY <1>2 DEF OneCopy
  <1>4. Range(disk.queue)' \in {Range(disk.queue), Range(mem.queue)'}
    OBVIOUS
  <1>5. ASSUME NEW m \in Msg, m # x PROVE Placed(m)
    <2>1. Stays(m)
      BY <1>2, <1>4, <1>5 DEF Stays
    <2> QED
      BY <2>1, StaysOnePlace DEF OneCopy
  <1>6. Placed(x)
    <2>1. OnePlace(x) /\ InMemory(x)
      BY DEF OneCopy, InMemory
    <2> QED
      BY <2>1, MovesOnePlace DEF InPassing
  <1> QED
    BY <1>2, <1>3, <1>5, <1>6 DEF OneCopy, OneCopyKept, Placed

\* The steps of the handler keep one copy.
LEMMA HandlerKeeps ==
  ASSUME TypeOK, OneCopy, Handler
  PROVE  OneCopyKept
  <1> USE DEF serviceVars, handlerVars, workerVars, sendVars, connVars,
              channelVars, providerVars, userVars, historyVars
  <1>1. IsMessage(hctl) => hctl.msg \in Msg
    BY DEF TypeOK, Control, IsMessage
  <1>2. ASSUME hpc \in {"push", "prepare"}, IsMessage(hctl), Proceed("save"),
               mem' = [mem EXCEPT !.queue = Append(@, hctl.msg)],
               UNCHANGED <<disk, initial, inbox, pc, hand, sent, submitted>>
        PROVE  OneCopyKept
    <2> DEFINE x == hctl.msg
    <2>1. x \in Msg /\ WithHandler(x)
      BY <1>1, <1>2 DEF WithHandler
    <2>2. mem'.queue = Append(mem.queue, x)
      BY <1>2 DEF TypeOK, Session
    <2>3. /\ \A m : ~WithHandler(m)'
          /\ \A m : ForConnection(m)' <=> ForConnection(m)
          /\ \A m : InInbox(m)' <=> InInbox(m)
          /\ \A m : InHand(m)' <=> InHand(m)
          /\ DistinctMessages(inbox)'
      BY <1>2, HandlerRests, InboxStill DEF Proceed, ForConnection, InHand, OneCopy
    <2>4. ASSUME NEW m \in Msg, m = x PROVE ~InPassing(m)'
      BY <2>1, <2>3, <2>4 DEF OneCopy, OnePlace, InPassing
    <2>5. PICK m \in Msg : m = x
      BY <2>1
    <2> HIDE DEF x
    <2> QED
      BY <1>2, <2>1, <2>2, <2>3, <2>4, <2>5, QueuedKeeps DEF InPassing
  <1>3. CASE PushQueued
    BY <1>2, <1>3 DEF PushQueued, TypeOK
  <1>4. CASE QueuePreparing
    <2>1. CASE IsMessage(hctl) /\ mem' = [mem EXCEPT !.queue = Append(@, hctl.msg)]
               /\ Proceed("save") /\ UNCHANGED disk
      BY <1>2, <1>4, <2>1 DEF QueuePreparing
    <2>2. CASE Read(hctl) /\ UNCHANGED mem
      <3>1. NoMove
        BY <1>4, <2>2 DEF QueuePreparing, Read, NoMove
      <3> QED
        BY <3>1, NoMoveKeeps
    <2>3. CASE /\ Holds(mem.queue, hctl.index, hctl.msg)
               /\ mem' = [mem EXCEPT !.queue = RemoveAt(@, hctl.index)]
               /\ Proceed("save") /\ UNCHANGED disk
      <3>1. /\ mem'.queue = RemoveAt(mem.queue, hctl.index)
            /\ hctl.index \in DOMAIN mem.queue
        BY <2>3 DEF Holds, TypeOK, Session
      <3>2. NoMove
        BY <1>4, <2>3, <3>1 DEF QueuePreparing, Proceed, NoMove
      <3> QED
        BY <3>2, NoMoveKeeps
    <2>4. CASE Proceed("free") /\ UNCHANGED <<mem, disk>>
      <3>1. NoMove
        BY <1>4, <2>4 DEF QueuePreparing, Proceed, NoMove
      <3> QED
        BY <3>1, NoMoveKeeps
    <2> QED
      BY <1>4, <2>1, <2>2, <2>3, <2>4 DEF QueuePreparing
  <1>5. CASE SaveAndAnswer \/ StopWaiting
    <2>1. NoMove
      BY <1>5 DEF SaveAndAnswer, StopWaiting, Proceed, NoMove
    <2> QED
      BY <2>1, NoMoveKeeps
  <1>6. CASE Reconnect
    <2>1. mem'.queue = mem.queue
      BY <1>6 DEF Reconnect, TypeOK, Session
    <2>2. NoMove
      BY <1>6, <2>1 DEF Reconnect, Proceed, NoMove
    <2> QED
      BY <2>2, NoMoveKeeps
  <1>7. CASE Dispatch
    <2>1. UNCHANGED <<mem, disk, initial, pc, hand, sent, submitted>> /\ hpc = "dispatch"
      BY <1>7 DEF Dispatch
    <2>2. CASE inbox' = inbox
      <3>1. NoMove
        BY <1>7, <2>1, <2>2 DEF Dispatch, Proceed, NoMove
      <3> QED
        BY <3>1, NoMoveKeeps
    <2>3. CASE inbox' = Append(inbox, hctl) /\ ~IsMessage(hctl) /\ Proceed("reply")
      <3>1. NoMove
        BY <2>1, <2>3 DEF Proceed, NoMove, TypeOK
      <3> QED
        BY <3>1, NoMoveKeeps
    <2>4. CASE inbox' = Append(inbox, hctl) /\ IsMessage(hctl) /\ Proceed("reply")
      <3> DEFINE x == hctl.msg
      <3>1. x \in Msg /\ WithHandler(x) /\ OnePlace(x)
        BY <1>1, <2>1, <2>4 DEF WithHandler, OneCopy
      <3>2. /\ \A m : ~WithHandler(m)'
            /\ \A m : ForConnection(m)' <=> ForConnection(m)
            /\ \A m : InHand(m)' <=> InHand(m)
        BY <2>1, <2>4, HandlerRests DEF Proceed, ForConnection, InHand
      <3>3. ~InInbox(x)
        BY <3>1 DEF OnePlace
      <3>4. /\ DistinctMessages(inbox)'
            /\ \A m : InInbox(m)' => InInbox(m) \/ x = m
        BY <2>4, <3>3, OneMore DEF OneCopy, TypeOK
      <3>5. ASSUME NEW m \in Msg, m # x PROVE Placed(m)
        <4>1. Stays(m)
          BY <2>1, <3>2, <3>4, <3>5 DEF Stays
        <4> QED
          BY <4>1, StaysOnePlace DEF OneCopy
      <3>6. ASSUME NEW m \in Msg, m = x PROVE Placed(m)
        <4>1. m \notin Range(mem.queue) /\ ~ForConnection(m) /\ ~InHand(m)
              /\ InMemory(m)
          BY <3>1, <3>6 DEF OnePlace, InMemory, InPassing
        <4>2. m \notin Range(mem.queue)' /\ ~WithHandler(m)' /\ ~ForConnection(m)'
              /\ ~InHand(m)'
          BY <2>1, <3>2, <4>1
        <4> QED
          BY <2>1, <4>1, <4>2, MovesOnePlace DEF OneCopy
      <3>7. \A m \in Msg : Placed(m)
        BY <3>5, <3>6
      <3> QED
        BY <2>1, <3>4, <3>7 DEF OneCopy, OneCopyKept, Placed
    <2> QED
      BY <1>7, <2>2, <2>3, <2>4 DEF Dispatch
  <1>8. CASE StartWorker
    <2>1. /\ UNCHANGED <<mem, hand, sent, submitted>> /\ disk'.queue = mem.queue
          /\ hpc = "start" /\ Proceed("free")
      BY <1>8 DEF StartWorker
    <2>2. CASE pc # "none" /\ UNCHANGED <<pc, initial, cancelled, inbox, wake, acked>>
      <3>1. NoMove
        BY <2>1, <2>2 DEF Proceed, NoMove
      <3> QED
        BY <3>1, NoMoveKeeps
    <2>3. CASE pc' = "connect" /\ initial' = hctl /\ inbox' = <<>> /\ ~IsMessage(hctl)
      <3>1. initial'.kind \notin {"message", "launch"}
        BY <2>3 DEF TypeOK, Control, IsMessage
      <3>2. NoMove
        BY <2>1, <2>3, <3>1 DEF Proceed, NoMove
      <3> QED
        BY <3>2, NoMoveKeeps
    <2>4. CASE pc' = "connect" /\ initial' = hctl /\ inbox' = <<>> /\ IsMessage(hctl)
      <3> DEFINE x == hctl.msg
      <3>1. x \in Msg /\ WithHandler(x) /\ OnePlace(x)
        BY <1>1, <2>1, <2>4 DEF WithHandler, OneCopy
      <3>2. /\ \A m : ~WithHandler(m)'
            /\ \A m : ForConnection(m)' => m = x
            /\ \A m : ~InHand(m)'
        BY <2>1, <2>4, HandlerRests DEF Proceed, ForConnection, InHand
      <3>3. DistinctMessages(inbox)' /\ \A m : ~InInbox(m)'
        BY <2>4, InboxGone
      <3>4. ASSUME NEW m \in Msg, m # x PROVE Placed(m)
        <4>1. Stays(m)
          BY <2>1, <3>2, <3>3, <3>4 DEF Stays
        <4> QED
          BY <4>1, StaysOnePlace DEF OneCopy
      <3>5. ASSUME NEW m \in Msg, m = x PROVE Placed(m)
        <4>1. m \notin Range(mem.queue) /\ InMemory(m)
          BY <3>1, <3>5 DEF OnePlace, InMemory, InPassing
        <4> QED
          BY <2>1, <3>2, <3>3, <4>1, MovesOnePlace DEF OneCopy
      <3>6. \A m \in Msg : Placed(m)
        BY <3>4, <3>5
      <3> QED
        BY <2>1, <3>3, <3>6 DEF OneCopy, OneCopyKept, Placed
    <2> QED
      BY <1>8, <2>2, <2>3, <2>4 DEF StartWorker
  <1> QED
    BY <1>3, <1>4, <1>5, <1>6, <1>7, <1>8 DEF Handler

\* A message comes into the worker's hands: the shared end of the steps that
\* take one.
LEMMA TakenKeeps ==
  ASSUME TypeOK, OneCopy, NEW x \in Msg, x \in Range(mem.queue) \/ InPassing(x),
         IsInjective(mem.queue)', Range(mem.queue)' \subseteq Range(mem.queue),
         x \notin Range(mem.queue)',
         disk'.queue \in {disk.queue, mem.queue, mem'.queue},
         DistinctMessages(inbox)',
         \A m \in Msg : /\ WithHandler(m)' => WithHandler(m)
                        /\ ForConnection(m)' => ForConnection(m)
                        /\ InInbox(m)' => InInbox(m)
                        /\ InHand(m)' => m = x,
         ~WithHandler(x)', ~ForConnection(x)', ~InInbox(x)',
         \A m \in Msg : sent'[m] = sent[m],
         submitted' = submitted
  PROVE  OneCopyKept
  <1>1. Range(disk.queue)' \in {Range(disk.queue), Range(mem.queue), Range(mem.queue)'}
    OBVIOUS
  <1>2. IsInjective(disk.queue)'
    BY DEF OneCopy
  <1>3. ASSUME NEW m \in Msg, m # x PROVE Placed(m)
    <2>1. Stays(m)
      BY <1>1, <1>3 DEF Stays
    <2> QED
      BY <2>1, StaysOnePlace DEF OneCopy
  <1>4. Placed(x)
    <2>1. OnePlace(x) /\ InMemory(x)
      BY DEF OneCopy, InMemory
    <2> QED
      BY <2>1, MovesOnePlace DEF InPassing
  <1> QED
    BY <1>2, <1>3, <1>4 DEF OneCopy, OneCopyKept, Placed

\* Whoever takes the first message of the queue leaves no copy there.
LEMMA QueueHeadTaken ==
  ASSUME TypeOK, OneCopy, mem.queue # <<>>, mem'.queue = Tail(mem.queue)
  PROVE  /\ Head(mem.queue) \in Msg /\ Head(mem.queue) \in Range(mem.queue)
         /\ IsInjective(mem.queue)' /\ Range(mem.queue)' \subseteq Range(mem.queue)
         /\ \A m : m = Head(mem.queue) => m \notin Range(mem.queue)'
  <1>1. mem.queue \in Seq(Msg) /\ IsInjective(mem.queue)
    BY FieldTyped DEF OneCopy, TypeOK
  <1>2. /\ IsInjective(Tail(mem.queue))
        /\ Range(Tail(mem.queue)) \subseteq Range(mem.queue)
        /\ Head(mem.queue) \in Range(mem.queue)
        /\ Head(mem.queue) \notin Range(Tail(mem.queue))
    BY <1>1, TailDistinct
  <1>3. Head(mem.queue) \in Msg
    BY <1>1, TailTyped
  <1> QED
    BY <1>2, <1>3

\* The steps of a worker that sets up or connects keep one copy.
LEMMA ConnectKeeps ==
  ASSUME TypeOK, OneCopy,
         \/ SetUp \/ FirstQueued \/ FirstCommand \/ StartFails \/ Connect
         \/ ConnectDone \/ Initial
  PROVE  OneCopyKept
  <1> USE DEF serviceVars, handlerVars, workerVars, sendVars, connVars,
              channelVars, providerVars, userVars, historyVars
  <1>1. mem \in Session
    BY DEF TypeOK
  <1>2. Plain("none").kind = "none"
    BY DEF Plain
  <1>3. ASSUME NEW status, mem' = [mem EXCEPT !.status = status]
        PROVE  mem'.queue = mem.queue
    BY <1>1, <1>3 DEF Session
  <1>4. CASE SetUp \/ FirstQueued \/ StartFails \/ ConnectDone
    <2>1. mem'.queue = mem.queue
      BY <1>3, <1>4 DEF SetUp, FirstQueued, LeaveEmpty, StartFails, ConnectDone
    <2>2. NoMove
      BY <1>2, <1>4, <2>1
         DEF SetUp, FirstQueued, LeaveEmpty, StartFails, ConnectDone, NoMove
    <2> QED
      BY <2>2, NoMoveKeeps
  <1>5. CASE Connect
    <2>1. mem'.queue = mem.queue
      <3> DEFINE open == [mem EXCEPT !.thread = TRUE, !.status = "Idle"]
      <3>1. open \in Session /\ open.queue = mem.queue
        BY <1>1 DEF Session, Status
      <3>2. Restored(open, provider.history \cap Msg).queue = open.queue
        BY <3>1, QueueOf
      <3>3. mem' = open \/ mem' = Restored(open, provider.history \cap Msg)
        BY <1>5 DEF Connect
      <3> QED
        BY <3>1, <3>2, <3>3
    <2>2. NoMove
      BY <1>5, <2>1 DEF Connect, NoMove
    <2> QED
      BY <2>2, NoMoveKeeps
  <1>6. CASE FirstCommand
    <2> DEFINE c == Head(inbox)
    <2>1. /\ c \in Control /\ inbox # <<>> /\ inbox' = Tail(inbox) /\ pc = "empty"
          /\ UNCHANGED <<hpc, hctl, hand, sent, submitted>>
      BY <1>6, TailTyped DEF FirstCommand, TypeOK
    <2>2. CASE UNCHANGED <<mem, disk, pc, initial>>
      <3>1. NoMove
        BY <2>1, <2>2 DEF NoMove
      <3> QED
        BY <3>1, NoMoveKeeps
    <2>3. CASE c.kind = "resume" /\ LeaveEmpty(c)
      <3>1. mem'.queue = mem.queue
        BY <1>3, <2>3 DEF LeaveEmpty
      <3>2. NoMove
        BY <2>1, <2>3, <3>1 DEF LeaveEmpty, NoMove
      <3> QED
        BY <3>2, NoMoveKeeps
    <2>4. CASE c.kind = "message" /\ mem' = [mem EXCEPT !.queue = Append(@, c.msg)]
               /\ disk' = mem' /\ UNCHANGED <<pc, initial>>
      <3>1. c.msg \in Msg /\ IsMessage(c)
        BY <2>1, <2>4 DEF Control, IsMessage
      <3>2. PICK x \in Msg : x = c.msg
        BY <3>1
      <3>3. /\ DistinctMessages(inbox)' /\ \A m : InInbox(m)' => InInbox(m)
            /\ InInbox(x) /\ ~InInbox(x)'
        BY <2>1, <3>1, <3>2, FirstOut DEF OneCopy, TypeOK
      <3>4. /\ \A m : WithHandler(m)' <=> WithHandler(m)
            /\ \A m : ForConnection(m)' <=> ForConnection(m)
            /\ \A m : ~InHand(m)'
        BY <2>1, <2>4 DEF WithHandler, ForConnection, InHand
      <3>5. OnePlace(x)
        BY DEF OneCopy
      <3>6. ~InPassing(x)'
        BY <3>3, <3>4, <3>5 DEF OnePlace, InPassing
      <3>7. mem'.queue = Append(mem.queue, x)
        BY <1>1, <2>4, <3>2 DEF Session
      <3>8. InPassing(x) /\ disk'.queue = mem'.queue
        BY <2>4, <3>3 DEF InPassing
      <3> QED
        BY <2>1, <3>3, <3>4, <3>6, <3>7, <3>8, QueuedKeeps
    <2> QED
      BY <1>6, <2>2, <2>3, <2>4 DEF FirstCommand
  <1>7. CASE Initial
    <2>1. /\ UNCHANGED <<mem, hpc, hctl, inbox, sent, submitted>>
          /\ disk'.queue \in {disk.queue, mem.queue} /\ initial'.kind = "none"
          /\ pc = "initial"
      BY <1>2, <1>7 DEF Initial
    <2>2. CASE hand' = Continue
      <3>1. Continue \notin Msg
        BY SessionAssumption
      <3>2. NoMove
        BY <2>1, <2>2, <3>1 DEF NoMove
      <3> QED
        BY <3>2, NoMoveKeeps
    <2>3. CASE initial.kind \in {"message", "launch"} /\ hand' = initial.msg
      <3>1. PICK x \in Msg : x = initial.msg
        BY <2>3 DEF TypeOK, Control, InitialControl
      <3>2. ForConnection(x) /\ OnePlace(x)
        BY <2>3, <3>1 DEF ForConnection, OneCopy
      <3>3. /\ \A m : WithHandler(m)' <=> WithHandler(m)
            /\ \A m : ~ForConnection(m)'
            /\ \A m : InInbox(m)' <=> InInbox(m)
            /\ \A m : InHand(m)' => m = x
            /\ DistinctMessages(inbox)'
        BY <2>1, <2>3, <3>1, InboxStill
           DEF WithHandler, ForConnection, InHand, OneCopy
      <3>4. x \notin Range(mem.queue) /\ ~WithHandler(x) /\ ~InInbox(x)
        BY <3>2 DEF OnePlace, InPassing
      <3>5. IsInjective(mem.queue)' /\ Range(mem.queue)' = Range(mem.queue)
        BY <2>1 DEF OneCopy
      <3> QED
        BY <2>1, <3>2, <3>3, <3>4, <3>5, TakenKeeps DEF InPassing
    <2> QED
      BY <1>7, <2>2, <2>3 DEF Initial, PutDown, Take
  <1> QED
    BY <1>4, <1>5, <1>6, <1>7

\* The steps of a worker that sends keep one copy.
LEMMA SendingKeeps ==
  ASSUME TypeOK, OneCopy,
         \/ Resumed \/ NotAttempted \/ Intend \/ Write \/ EventWhileWaiting
         \/ Acknowledged \/ CallFails
  PROVE  OneCopyKept
  <1> USE DEF serviceVars, handlerVars, workerVars, sendVars, connVars,
              channelVars, providerVars, userVars, historyVars
  <1>1. mem \in Session /\ Continue \notin Msg
    BY SessionAssumption DEF TypeOK
  <1>2. ASSUME NEW marks, mem' = [mem EXCEPT !.marks = marks]
        PROVE  mem'.queue = mem.queue
    BY <1>1, <1>2 DEF Session
  <1>3. CASE Resumed
    <2>1. NoMove
      BY <1>3 DEF Resumed, NoMove
    <2> QED
      BY <2>1, NoMoveKeeps
  <1>4. CASE NotAttempted
    <2>1. mem'.queue = mem.queue /\ disk'.queue \in {disk.queue, mem.queue}
      BY <1>2, <1>4 DEF NotAttempted
    <2>2. NoMove
      BY <1>1, <1>4, <2>1 DEF NotAttempted, PutDown, Take, NoMove
    <2> QED
      BY <2>2, NoMoveKeeps
  <1>5. CASE Intend
    <2>1. mem'.queue = mem.queue
      BY <1>1, <1>5, QueueOf DEF Intend
    <2>2. NoMove
      BY <1>5, <2>1 DEF Intend, NoMove
    <2> QED
      BY <2>2, NoMoveKeeps
  <1>6. CASE EventWhileWaiting
    <2>1. Head(output) \in Event \cup Reply
      BY <1>6, TailTyped DEF EventWhileWaiting, TypeOK
    <2>2. mem'.queue \in {mem.queue, <<>>}
      BY <1>1, <1>6, <2>1, QueueAfterEvent DEF EventWhileWaiting
    <2>3. NoMove
      BY <1>6, <2>2 DEF EventWhileWaiting, NoMove
    <2> QED
      BY <2>3, NoMoveKeeps
  <1>7. CASE Acknowledged
    <2>1. [mem EXCEPT !.status = "Interrupted"] \in Session
      BY <1>1, FieldTyped DEF Status
    <2>2. QueueUnsent([mem EXCEPT !.status = "Interrupted"]).queue = <<>>
      BY <2>1, QueueOf
    <2>3. \A p, t : SendAccepted(mem, p, t).queue = mem.queue
      BY <1>1, QueueOf
    <2>4. mem'.queue \in {mem.queue, <<>>} /\ disk'.queue \in {disk.queue, mem'.queue}
      <3>1. CASE Sends
        BY <1>7, <2>3, <3>1 DEF Acknowledged
      <3>2. CASE ~Sends
        BY <1>7, <2>2, <3>2 DEF Acknowledged
      <3> QED
        BY <3>1, <3>2
    <2>5. AfterReply \notin {"popped", "resume", "intent", "write"}
      BY DEF AfterReply
    <2>6. UNCHANGED <<hpc, hctl, initial, inbox, sent, submitted>> /\ pc' = AfterReply
      BY <1>7 DEF Acknowledged
    <2>7. NoMove
      BY <2>4, <2>5, <2>6 DEF NoMove
    <2> QED
      BY <2>7, NoMoveKeeps
  <1>8. CASE CallFails
    <2>1. SendFailed(mem).queue = mem.queue
      <3>1. SendRefused(mem, hand) \in Session
        <4>1. TRUE \in BOOLEAN /\ hand \in Prompt /\ 0 \in Turn
          BY PlaceTyped DEF TypeOK
        <4> QED
          BY <1>1, <4>1, SendTyped
      <3>2. SendRefused(mem, hand).queue = mem.queue
        BY <1>1, QueueOf
      <3>3. \A marks : [SendRefused(mem, hand) EXCEPT !.marks = marks].queue
                         = SendRefused(mem, hand).queue
        BY <3>1 DEF Session
      <3> QED
        BY <3>2, <3>3 DEF SendFailed
    <2>2. mem'.queue = mem.queue /\ disk'.queue \in {disk.queue, mem'.queue}
      BY <1>8, <2>1 DEF CallFails, Abandon
    <2>3. pc' \notin {"popped", "resume", "intent", "write"}
      BY <1>8 DEF CallFails, Abandon, AfterFailure
    <2>4. NoMove
      BY <1>8, <2>2, <2>3 DEF CallFails, Abandon, NoMove
    <2> QED
      BY <2>4, NoMoveKeeps
  <1>9. CASE Write
    <2>1. /\ UNCHANGED <<mem, hpc, hctl, initial, inbox, hand, submitted>>
          /\ disk'.queue = mem.queue /\ pc = "write" /\ pc' = "call"
          /\ sent' = [sent EXCEPT ![hand] = @ + 1]
      BY <1>9 DEF Write
    <2>2. sent \in [Prompt -> Nat] /\ hand \in Prompt /\ Msg \subseteq Prompt
      BY PlaceTyped DEF TypeOK
    <2>3. \A m \in Msg : m # hand => sent'[m] = sent[m]
      BY <2>1, <2>2
    <2>4. /\ \A m : WithHandler(m)' <=> WithHandler(m)
          /\ \A m : ForConnection(m)' <=> ForConnection(m)
          /\ \A m : InInbox(m)' <=> InInbox(m)
          /\ \A m : ~InHand(m)'
          /\ DistinctMessages(inbox)'
      BY <2>1, InboxStill DEF WithHandler, ForConnection, InHand, OneCopy
    <2>5. IsInjective(mem.queue)' /\ IsInjective(disk.queue)'
      BY <2>1 DEF OneCopy
    <2>6. ASSUME NEW m \in Msg, m # hand PROVE Placed(m)
      <3>1. Stays(m)
        BY <2>1, <2>3, <2>4, <2>6 DEF Stays
      <3> QED
        BY <3>1, StaysOnePlace DEF OneCopy
    <2>7. ASSUME NEW m \in Msg, m = hand PROVE Placed(m)
      <3>1. InHand(m) /\ OnePlace(m)
        BY <2>1, <2>7 DEF InHand, OneCopy
      <3>2. /\ m \notin Range(mem.queue) /\ m \in submitted
            /\ ~WithHandler(m) /\ ~ForConnection(m) /\ ~InInbox(m)
        BY <3>1 DEF OnePlace, Live, InPassing
      <3>3. m \notin Range(mem.queue)' /\ m \notin Range(disk.queue)' /\ m \in submitted'
        BY <2>1, <3>2
      <3>4. ~Live(m)' /\ ~InPassing(m)'
        BY <2>4, <3>2, <3>3 DEF Live, InPassing
      <3> QED
        BY <3>3, <3>4 DEF Placed, OnePlace, InMemory, InPassing
    <2> QED
      BY <2>4, <2>5, <2>6, <2>7 DEF OneCopy, OneCopyKept, Placed
  <1> QED
    BY <1>3, <1>4, <1>5, <1>6, <1>7, <1>8, <1>9

\* The steps of the worker's loop and its end keep one copy.
LEMMA LoopKeeps ==
  ASSUME TypeOK, OneCopy,
         \/ TakeQueued \/ SaveTaken \/ NothingQueued \/ LoopEvent \/ LoopDrained
         \/ NoCommand \/ LoopWake \/ LoopEnds \/ Drained \/ DrainFails
         \/ TakeWaiting \/ WaitingSent \/ WorkerEnds \/ WorkerExits
  PROVE  OneCopyKept
  <1> USE DEF serviceVars, handlerVars, workerVars, sendVars, connVars,
              channelVars, providerVars, userVars, historyVars
  <1>1. mem \in Session
    BY DEF TypeOK
  <1>2. CASE TakeQueued \/ TakeWaiting
    <2>1. /\ mem.queue # <<>> /\ mem'.queue = Tail(mem.queue)
          /\ hand' = Head(mem.queue)
          /\ UNCHANGED <<disk, hpc, hctl, initial, inbox, sent, submitted>>
      BY <1>1, <1>2 DEF TakeQueued, TakeWaiting, Take, Session
    <2>2. /\ Head(mem.queue) \in Msg /\ Head(mem.queue) \in Range(mem.queue)
          /\ IsInjective(mem.queue)' /\ Range(mem.queue)' \subseteq Range(mem.queue)
          /\ \A m : m = Head(mem.queue) => m \notin Range(mem.queue)'
      BY <2>1, QueueHeadTaken
    <2>3. PICK x \in Msg : x = Head(mem.queue)
      BY <2>2
    <2>4. /\ \A m : WithHandler(m)' <=> WithHandler(m)
          /\ \A m : ForConnection(m)' <=> ForConnection(m)
          /\ \A m : InInbox(m)' <=> InInbox(m)
          /\ \A m : InHand(m)' => m = x
          /\ DistinctMessages(inbox)'
      BY <2>1, <2>3, InboxStill DEF WithHandler, ForConnection, InHand, OneCopy
    <2>5. ~WithHandler(x) /\ ~ForConnection(x) /\ ~InInbox(x)
      BY <2>2, <2>3 DEF OneCopy, OnePlace, InPassing
    <2> QED
      BY <2>1, <2>2, <2>3, <2>4, <2>5, TakenKeeps
  <1>3. CASE SaveTaken \/ NothingQueued \/ LoopDrained \/ NoCommand \/ LoopWake
             \/ LoopEnds \/ Drained \/ DrainFails \/ WaitingSent \/ WorkerExits
    <2>1. NoMove
      BY <1>3 DEF SaveTaken, NothingQueued, LoopDrained, NoCommand, LoopWake,
           LoopEnds, Drained, DrainFails, WaitingSent, WorkerExits, NoMove
    <2> QED
      BY <2>1, NoMoveKeeps
  <1>4. CASE LoopEvent
    <2>1. Head(output) \in Event \cup Reply
      BY <1>4, TailTyped DEF LoopEvent, TypeOK
    <2>2. mem'.queue \in {mem.queue, <<>>}
      BY <1>1, <1>4, <2>1, QueueAfterEvent DEF LoopEvent
    <2>3. NoMove
      BY <1>4, <2>2 DEF LoopEvent, NoMove
    <2> QED
      BY <2>3, NoMoveKeeps
  <1>5. CASE WorkerEnds
    <2>1. (svc # "up") \in BOOLEAN /\ cancelled \in BOOLEAN
      BY DEF TypeOK
    <2>2. mem'.queue \in {mem.queue, <<>>}
      BY <1>1, <1>5, <2>1, QueueAtTheEnd DEF WorkerEnds
    <2>3. NoMove
      BY <1>5, <2>2 DEF WorkerEnds, NoMove
    <2> QED
      BY <2>3, NoMoveKeeps
  <1> QED
    BY <1>2, <1>3, <1>4, <1>5

\* The commands of users keep one copy.
LEMMA CommandKeeps ==
  ASSUME TypeOK, OneCopy, LoopCommand
  PROVE  OneCopyKept
  <1> USE DEF serviceVars, handlerVars, workerVars, sendVars, connVars,
              channelVars, providerVars, userVars, historyVars
  <1> DEFINE c == Head(inbox)
  <1>1. /\ pc = "command" /\ inbox # <<>> /\ inbox' = Tail(inbox)
        /\ UNCHANGED <<hpc, hctl, initial, sent, submitted>>
    BY DEF LoopCommand
  <1>2. mem \in Session /\ c \in Control /\ Continue \notin Msg
    BY <1>1, TailTyped, SessionAssumption DEF TypeOK
  <1>3. CASE c.kind = "remove" /\ CommandRemove(c.msg, c.index)
    <2>1. \/ mem' = mem /\ disk' = disk
          \/ c.index \in DOMAIN mem.queue /\ disk' = mem'
             /\ mem'.queue = RemoveAt(mem.queue, c.index)
      BY <1>2, <1>3 DEF CommandRemove, Holds, Session
    <2>2. pc' = "house"
      BY <1>3 DEF CommandRemove
    <2>3. NoMove
      BY <1>1, <2>1, <2>2 DEF NoMove
    <2> QED
      BY <2>3, NoMoveKeeps
  <1>4. CASE \/ c.kind = "sendWaiting" /\ CommandSendWaiting
             \/ c.kind = "interrupt" /\ CommandInterrupt
             \/ c.kind = "resume" /\ CommandResume
    <2>1. [mem EXCEPT !.status = "Interrupted"] \in Session
      BY <1>2, FieldTyped DEF Status
    <2>2. QueueUnsent([mem EXCEPT !.status = "Interrupted"]).queue = <<>>
      BY <2>1, QueueOf
    <2>3. mem'.queue \in {mem.queue, <<>>} /\ UNCHANGED disk
      BY <1>4, <2>2 DEF CommandSendWaiting, CommandInterrupt, CommandResume
    <2>4. pc' \notin {"popped", "resume", "intent", "write"} \/ hand' = Continue
      BY <1>4 DEF CommandSendWaiting, CommandInterrupt, CommandResume, Interrupting, Take
    <2>5. NoMove
      BY <1>1, <1>2, <2>3, <2>4 DEF NoMove
    <2> QED
      BY <2>5, NoMoveKeeps
  <1>5. CASE c.kind = "message" /\ CommandMessage(c.msg, c.queue)
    <2>1. c.msg \in Msg /\ IsMessage(c)
      BY <1>2, <1>5 DEF Control, IsMessage
    <2>2. PICK x \in Msg : x = c.msg
      BY <2>1
    <2>3. /\ DistinctMessages(inbox)' /\ \A m : InInbox(m)' => InInbox(m)
          /\ InInbox(x) /\ ~InInbox(x)'
      BY <1>1, <2>1, <2>2, FirstOut DEF OneCopy, TypeOK
    <2>4. /\ \A m : WithHandler(m)' <=> WithHandler(m)
          /\ \A m : ForConnection(m)' <=> ForConnection(m)
      BY <1>1 DEF WithHandler, ForConnection
    <2>5. /\ x \notin Range(mem.queue) /\ ~WithHandler(x) /\ ~ForConnection(x)
          /\ InPassing(x)
      BY <2>3 DEF OneCopy, OnePlace, InPassing
    <2>6. disk' = mem'
      BY <1>5 DEF CommandMessage
    <2>7. CASE mem' = mem /\ hand' = c.msg /\ pc' \in {"resume", "intent"}
      <3>1. \A m : InHand(m)' => m = x
        BY <2>2, <2>7 DEF InHand
      <3>2. IsInjective(mem.queue)' /\ Range(mem.queue)' = Range(mem.queue)
        BY <2>7 DEF OneCopy
      <3> QED
        BY <1>1, <2>3, <2>4, <2>5, <2>6, <3>1, <3>2, TakenKeeps
    <2>8. CASE mem' = mem /\ pc' = "house"
      <3>1. NoMove
        BY <1>1, <2>6, <2>8 DEF NoMove
      <3> QED
        BY <3>1, NoMoveKeeps
    <2>9. CASE mem' = [mem EXCEPT !.queue = Append(@, c.msg)] /\ pc' = "house"
      <3>1. mem'.queue = Append(mem.queue, x)
        BY <1>2, <2>2, <2>9 DEF Session
      <3>2. \A m : ~InHand(m)'
        BY <2>9 DEF InHand
      <3>3. ~InPassing(x)'
        BY <2>3, <2>4, <2>5, <3>2 DEF InPassing
      <3> QED
        BY <1>1, <2>3, <2>4, <2>5, <2>6, <3>1, <3>2, <3>3, QueuedKeeps
    <2> QED
      BY <1>5, <2>7, <2>8, <2>9 DEF CommandMessage, Take
  <1> QED
    BY <1>3, <1>4, <1>5 DEF LoopCommand

\* The provider never holds a message that may still be sent.
LEMMA ProviderKeeps ==
  ASSUME TypeOK, OneCopy, CodexProvider
  PROVE  OneCopyKept
  <1> USE DEF serviceVars, handlerVars, workerVars, sendVars, connVars,
              channelVars, providerVars, userVars, historyVars
  <1>1. NoMove
    BY DEF CodexProvider, ProviderReads, ProviderReplies, ProviderStartsTurn,
           ProviderEchoes, ProviderEndsTurn, ProviderDies, NoMove
  <1> QED
    BY <1>1, NoMoveKeeps

\* A crash or an exit: only the file is left.
LEMMA GoneKeeps ==
  ASSUME TypeOK, OneCopy, Exit \/ Crash
  PROVE  OneCopyKept
  <1> USE DEF userVars, historyVars
  <1> Gone /\ disk'.queue \in {disk.queue, mem.queue}
    BY QueueOf DEF Exit, Crash, TypeOK
  <1>1. mem'.queue = disk'.queue /\ UNCHANGED <<sent, submitted>>
    BY DEF Gone
  <1>2. IsInjective(disk.queue)' /\ IsInjective(mem.queue)'
    BY <1>1 DEF OneCopy
  <1>3. /\ \A m : ~WithHandler(m)'
        /\ \A m : ~ForConnection(m)'
        /\ \A m : ~InHand(m)'
    BY DEF Gone, WithHandler, ForConnection, InHand, Plain
  <1>4. DistinctMessages(inbox)' /\ \A m : ~InInbox(m)'
    BY InboxGone DEF Gone
  <1>5. ASSUME NEW m \in Msg PROVE OnePlace(m)' /\ (Live(m)' => Live(m))
    <2>1. ~InPassing(m)' /\ (Live(m)' => Live(m))
      BY <1>1, <1>3, <1>4 DEF Live, InPassing
    <2>2. OnePlace(m)
      BY DEF OneCopy
    <2> QED
      BY <1>1, <1>3, <1>4, <2>1, <2>2 DEF OnePlace
  <1> QED
    BY <1>2, <1>4, <1>5 DEF OneCopy, OneCopyKept

\* Shutdown, crash and restart keep one copy.
LEMMA ServiceKeeps ==
  ASSUME TypeOK, OneCopy, AtRest, Service \/ StopSignal \/ Crash
  PROVE  OneCopyKept
  <1> USE DEF serviceVars, handlerVars, workerVars, sendVars, connVars,
              channelVars, providerVars, userVars, historyVars
  <1>1. mem \in Session /\ disk \in Session
    BY DEF TypeOK
  <1>2. CASE Flush \/ StopSignal \/ CancelWorkers
    <2>1. NoMove
      BY <1>2 DEF Flush, StopSignal, CancelWorkers, NoMove
    <2> QED
      BY <2>1, NoMoveKeeps
  <1>3. CASE MarkActive
    <2>1. mem'.queue = mem.queue /\ disk'.queue \in {disk.queue, mem'.queue}
      BY <1>1, <1>3, QueueOf DEF MarkActive
    <2>2. NoMove
      BY <1>3, <2>1 DEF MarkActive, NoMove
    <2> QED
      BY <2>2, NoMoveKeeps
  <1>4. CASE Exit
    BY <1>4, GoneKeeps
  <1>5. CASE Crash
    BY <1>5, GoneKeeps
  <1>6. CASE Restart
    <2>1. mem = disk
      BY <1>6 DEF Restart, AtRest
    <2>2. mem'.queue \in {disk.queue, <<>>} /\ disk' = mem'
      BY <1>1, <1>6, QueueAfterRestart DEF Restart
    <2>3. NoMove
      BY <1>6, <2>1, <2>2 DEF Restart, NoMove
    <2> QED
      BY <2>3, NoMoveKeeps
  <1>7. CASE ResumeDue
    <2>1. mem'.queue = mem.queue
      BY <1>1, <1>7 DEF ResumeDue, Session
    <2>2. NoMove
      BY <1>7, <2>1 DEF ResumeDue, NoMove
    <2> QED
      BY <2>2, NoMoveKeeps
  <1>8. CASE ResumeHandled
    BY <1>8, ControlKeeps
  <1> QED
    BY <1>2, <1>3, <1>4, <1>5, <1>6, <1>7, <1>8 DEF Service

-----------------------------------------------------------------------------
(* The theorems *)

Inv == TypeOK /\ AtRest /\ OneCopy

\* The inductive invariant holds initially.
LEMMA InitOneCopy == Init => Inv
  <1> SUFFICES ASSUME Init PROVE Inv
    OBVIOUS
  <1>1. TypeOK
    BY InitTyped
  <1>2. /\ svc = "up" /\ mem.queue = <<>> /\ disk = mem /\ inbox = <<>>
        /\ hpc = "free" /\ pc \in {"setup", "connect"}
        /\ sent = [p \in Prompt |-> 0]
    <2>1. NewSession.queue = <<>> /\ \A f : [NewSession EXCEPT !.marks = f].queue = <<>>
      BY DEF NewSession
    <2>2. CASE InitEmpty
      BY <2>1, <2>2 DEF InitEmpty, InitRest
    <2>3. CASE InitPrompt
      <3>1. PICK x \in Msg : mem = [NewSession EXCEPT !.marks[x] = {"launch"}]
        BY <2>3 DEF InitPrompt
      <3>2. mem.queue = <<>>
        BY <3>1 DEF NewSession
      <3> QED
        BY <2>3, <3>2 DEF InitPrompt, InitRest
    <2> QED
      BY <2>2, <2>3 DEF Init
  <1>3. /\ IsInjective(mem.queue) /\ IsInjective(disk.queue)
        /\ Range(mem.queue) = {} /\ Range(disk.queue) = {}
    BY <1>2, EmptyDistinct
  <1>4. DistinctMessages(inbox) /\ \A m : ~InInbox(m)
    BY <1>2, NoMessages
  <1>5. \A m : ~WithHandler(m) /\ ~InHand(m)
    BY <1>2 DEF WithHandler, InHand
  <1>6. \A m \in Msg : sent[m] = 0
    BY <1>2 DEF Prompt
  <1>7. \A m : ForConnection(m) => m \in submitted
    BY DEF Init, InitEmpty, InitPrompt, Plain, Launch, ForConnection
  <1>8. \A m \in Msg : OnePlace(m)
    BY <1>3, <1>4, <1>5, <1>6, <1>7 DEF OnePlace, Live, InPassing
  <1> QED
    BY <1>1, <1>2, <1>3, <1>4, <1>8 DEF Inv, AtRest, OneCopy

\* Every step keeps the inductive invariant.
LEMMA NextOneCopy == Inv /\ [Next]_vars => Inv'
  <1> SUFFICES ASSUME Inv, [Next]_vars PROVE Inv'
    OBVIOUS
  <1>1. TypeOK' /\ AtRest'
    BY NextTyped, RestKept DEF Inv
  <1>2. CASE Next
    <2>1. ASSUME Worker PROVE OneCopyKept
      BY <2>1, ConnectKeeps, SendingKeeps, LoopKeeps, CommandKeeps DEF Inv, Worker
    <2>2. OneCopy'
      BY <1>2, <2>1, SubmitKeeps, ControlKeeps, HandlerKeeps, ProviderKeeps,
         ServiceKeeps DEF Inv, Next, OneCopyKept
    <2> QED
      BY <1>1, <2>2 DEF Inv
  <1>3. CASE UNCHANGED vars
    <2>1. NoMove
      BY <1>3 DEF vars, serviceVars, handlerVars, workerVars, sendVars, connVars,
                  channelVars, providerVars, userVars, historyVars, NoMove
    <2>2. OneCopy'
      BY <2>1, NoMoveKeeps DEF Inv, OneCopyKept
    <2> QED
      BY <1>1, <2>2 DEF Inv
  <1> QED
    BY <1>2, <1>3

\* A message that may still be sent exists once in memory, and no longer in the
\* file once it was written to the provider (send_queued, send_turn).
THEOREM OneCopyAlways == Spec => []OneCopy
  <1>1. Inv => OneCopy
    BY DEF Inv
  <1> QED
    BY <1>1, InitOneCopy, NextOneCopy, PTL DEF Spec

\* Only Write writes a prompt.
LEMMA OnlyWriteSends ==
  ASSUME [Next]_vars, ~Write
  PROVE  sent' = sent
  <1> USE DEF serviceVars, handlerVars, workerVars, sendVars, connVars,
              channelVars, providerVars, userVars, historyVars
  <1>1. CASE SubmitMessage \/ SubmitControl \/ Handler
    BY <1>1 DEF SubmitMessage, SubmitControl, Handler, PushQueued, QueuePreparing,
         SaveAndAnswer, Dispatch, StopWaiting, Reconnect, StartWorker
  <1>2. CASE Worker
    BY <1>2 DEF Worker, SetUp, FirstQueued, FirstCommand, StartFails, Connect,
         ConnectDone, Initial, Resumed, NotAttempted, Intend, EventWhileWaiting,
         Acknowledged, CallFails, TakeQueued, SaveTaken, NothingQueued, LoopEvent,
         LoopDrained, NoCommand, LoopWake, LoopEnds, LoopCommand, Drained,
         DrainFails, TakeWaiting, WaitingSent, WorkerEnds, WorkerExits
  <1>3. CASE CodexProvider
    BY <1>3 DEF CodexProvider, ProviderReads, ProviderReplies, ProviderStartsTurn,
         ProviderEchoes, ProviderEndsTurn, ProviderDies
  <1>4. CASE Service \/ StopSignal \/ Crash
    BY <1>4 DEF Service, Flush, StopSignal, MarkActive, CancelWorkers, Exit, Crash,
         Gone, Restart, ResumeDue, ResumeHandled
  <1>5. CASE UNCHANGED vars
    BY <1>5 DEF vars
  <1> QED
    BY <1>1, <1>2, <1>3, <1>4, <1>5 DEF Next

\* A prompt of a user is written to the provider at most once, whatever fails,
\* crashes or is restarted (send_turn, worker_ended, after_restart).
THEOREM SentAtMostOnce == Spec => []AtMostOnce
  <1>1. Init => AtMostOnce
    BY DEF Init, InitEmpty, InitPrompt, InitRest, AtMostOnce, Prompt
  <1>2. Inv /\ AtMostOnce /\ [Next]_vars => AtMostOnce'
    <2> SUFFICES ASSUME Inv, AtMostOnce, [Next]_vars PROVE AtMostOnce'
      OBVIOUS
    <2>1. CASE Write
      <3>1. sent \in [Prompt -> Nat] /\ hand \in Prompt /\ Msg \subseteq Prompt
        BY PlaceTyped DEF Inv, TypeOK
      <3>2. pc = "write" /\ sent' = [sent EXCEPT ![hand] = @ + 1]
        BY <2>1 DEF Write
      <3>3. ASSUME NEW m \in Msg PROVE sent'[m] <= 1
        <4>1. CASE m # hand
          BY <3>1, <3>2, <4>1 DEF AtMostOnce
        <4>2. CASE m = hand
          <5>1. InHand(m)
            BY <3>2, <4>2 DEF InHand
          <5>2. sent[m] = 0
            BY <5>1 DEF Inv, OneCopy, OnePlace, Live, InPassing
          <5> QED
            BY <3>1, <3>2, <4>2, <5>2
        <4> QED
          BY <4>1, <4>2
      <3> QED
        BY <3>3 DEF AtMostOnce
    <2>2. CASE ~Write
      BY <2>2, OnlyWriteSends DEF AtMostOnce
    <2> QED
      BY <2>1, <2>2
  <1> QED
    BY <1>1, <1>2, InitOneCopy, NextOneCopy, PTL DEF Spec

-----------------------------------------------------------------------------
(* The session implements MessageDelivery *)

\* Only a user's submission adds to what was submitted.
LEMMA OnlyUsersSubmit ==
  ASSUME [Next]_vars, ~SubmitMessage
  PROVE  submitted' = submitted
  <1> USE DEF serviceVars, handlerVars, workerVars, sendVars, connVars,
              channelVars, providerVars, userVars, historyVars
  <1>1. CASE SubmitControl \/ Handler
    BY <1>1 DEF SubmitControl, Handler, PushQueued, QueuePreparing,
         SaveAndAnswer, Dispatch, StopWaiting, Reconnect, StartWorker
  <1>2. CASE Worker
    BY <1>2 DEF Worker, SetUp, FirstQueued, FirstCommand, StartFails, Connect,
         ConnectDone, Initial, Resumed, NotAttempted, Intend, Write,
         EventWhileWaiting, Acknowledged, CallFails, TakeQueued, SaveTaken,
         NothingQueued, LoopEvent, LoopDrained, NoCommand, LoopWake, LoopEnds,
         LoopCommand, Drained, DrainFails, TakeWaiting, WaitingSent, WorkerEnds,
         WorkerExits
  <1>3. CASE CodexProvider
    BY <1>3 DEF CodexProvider, ProviderReads, ProviderReplies, ProviderStartsTurn,
         ProviderEchoes, ProviderEndsTurn, ProviderDies
  <1>4. CASE Service \/ StopSignal \/ Crash
    BY <1>4 DEF Service, Flush, StopSignal, MarkActive, CancelWorkers, Exit, Crash,
         Gone, Restart, ResumeDue, ResumeHandled
  <1>5. CASE UNCHANGED vars
    BY <1>5 DEF vars
  <1> QED
    BY <1>1, <1>2, <1>3, <1>4, <1>5 DEF Next

\* No step but a submission brings a message back that nobody held.
LEMMA NothingComesBack ==
  ASSUME Inv, [Next]_vars, ~SubmitMessage
  PROVE  \A m \in Msg : /\ Live(m)' => Live(m)
                        /\ InMemory(m)' => InMemory(m) \/ Exit \/ Crash
  <1>1. CASE UNCHANGED vars
    <2>1. NoMove
      BY <1>1 DEF vars, serviceVars, handlerVars, workerVars, sendVars, connVars,
                  channelVars, providerVars, userVars, historyVars, NoMove
    <2> QED
      BY <2>1, NoMoveKeeps DEF Inv, OneCopyKept
  <1>2. CASE Worker
    BY <1>2, ConnectKeeps, SendingKeeps, LoopKeeps, CommandKeeps
       DEF Inv, Worker, OneCopyKept
  <1> QED
    BY <1>1, <1>2, ControlKeeps, HandlerKeeps, ProviderKeeps, ServiceKeeps
       DEF Inv, Next, OneCopyKept

\* The fates that the refinement mapping gives to all messages.
Fates == [m \in Msg |-> FateOf(m)]

Writes == [m \in Msg |-> sent[m]]

\* What FateOf says of a message that the service holds, or no longer holds.
LEMMA FateMeans ==
  ASSUME Inv, NEW m \in Msg
  PROVE  /\ FateOf(m) = "held" <=> Live(m)
         /\ FateOf(m) = "new" <=> m \notin submitted
         /\ FateOf(m) = "sent" <=> sent[m] > 0
         /\ FateOf(m) \in {"new", "held", "sent", "dropped"}
         /\ sent[m] \in Nat
  <1>1. OnePlace(m) /\ sent[m] \in Nat
    BY PlaceTyped DEF Inv, OneCopy, TypeOK
  <1> QED
    BY <1>1 DEF OnePlace, FateOf

\* A submission gives one message to the service to hold.
LEMMA SubmissionMaps ==
  ASSUME Inv, Inv', SubmitMessage
  PROVE  \E x \in Msg : Delivery!Submit(x)
  <1>1. PICK x \in Msg : Submitted(x)
    BY SubmitKeeps DEF Inv
  <1>2. FateOf(x) = "new" /\ FateOf(x)' = "held"
    <2>1. FateOf(x) = "new"
      BY <1>1, FateMeans DEF Submitted
    <2>2. sent'[x] = 0 /\ Live(x)'
      BY <1>1 DEF Submitted, Inv, OneCopy, OnePlace
    <2> QED
      BY <2>1, <2>2 DEF FateOf
  <1>3. ASSUME NEW m \in Msg, m # x PROVE FateOf(m)' = FateOf(m)
    <2>1. Live(m)' <=> Live(m)
      BY <1>1, <1>3 DEF Submitted
    <2> QED
      BY <1>1, <1>3, <2>1 DEF Submitted, FateOf
  <1>4. Fates' = [Fates EXCEPT ![x] = "held"] /\ Fates[x] = "new"
    BY <1>2, <1>3 DEF Fates
  <1>5. Writes' = Writes
    BY <1>1 DEF Submitted, Writes
  <1> QED
    BY <1>4, <1>5 DEF Delivery!Submit, Fates, Writes

\* Those the service no longer holds after a step that writes none of them.
GivenUp(K) == {m \in K : FateOf(m) = "held" /\ ~Live(m)'}

\* What a step that submits nothing makes of a message it does not write.
LEMMA FateAfter ==
  ASSUME Inv, Inv', [Next]_vars, ~SubmitMessage, NEW m \in Msg, sent'[m] = sent[m]
  PROVE  FateOf(m)' = IF m \in GivenUp(Msg) THEN "dropped" ELSE FateOf(m)
  <1>1. m \in submitted' <=> m \in submitted
    BY OnlyUsersSubmit
  <1>2. Live(m)' => Live(m)
    BY NothingComesBack
  <1>3. sent[m] \in Nat /\ (FateOf(m) = "held" <=> Live(m)) /\ (Live(m) => sent[m] = 0)
        /\ (m \notin submitted => ~Live(m))
    BY FateMeans DEF Inv, OneCopy, OnePlace
  <1>4. (sent'[m] > 0) <=> (sent[m] > 0)
    OBVIOUS
  <1>5. FateOf(m)' = IF sent'[m] > 0 THEN "sent"
                     ELSE IF Live(m)' THEN "held"
                     ELSE IF m \in submitted' THEN "dropped" ELSE "new"
    BY DEF FateOf
  <1>6. CASE m \in GivenUp(Msg)
    BY <1>1, <1>3, <1>5, <1>6 DEF GivenUp
  <1>7. CASE m \notin GivenUp(Msg)
    <2>1. Live(m)' <=> Live(m)
      BY <1>2, <1>3, <1>7 DEF GivenUp
    <2> QED
      BY <1>1, <1>4, <1>5, <1>7, <2>1 DEF FateOf
  <1> QED
    BY <1>6, <1>7

\* A step that writes nothing gives up what the service does not hold after it.
LEMMA OtherStepsMap ==
  ASSUME Inv, Inv', [Next]_vars, ~SubmitMessage, ~Write
  PROVE  \E M \in SUBSET Msg : Delivery!Drop(M)
  <1>1. sent' = sent
    BY OnlyWriteSends
  <1>2. Fates' = [m \in Msg |-> IF m \in GivenUp(Msg) THEN "dropped" ELSE Fates[m]]
    BY <1>1, FateAfter DEF Fates
  <1>3. Writes' = Writes
    BY <1>1 DEF Writes
  <1>4. \A m \in GivenUp(Msg) : Fates[m] = "held"
    BY DEF GivenUp, Fates
  <1>5. GivenUp(Msg) \in SUBSET Msg
    BY DEF GivenUp
  <1> QED
    BY <1>2, <1>3, <1>4, <1>5 DEF Delivery!Drop, Delivery!Dropped, Fates, Writes

\* The write of a user's prompt sends it, and may be the save that lets go of
\* others; the write of Continue sends no message.
LEMMA WriteMaps ==
  ASSUME Inv, Inv', Write
  PROVE  \E M \in SUBSET Msg : Delivery!Drop(M) \/ \E m \in Msg : Delivery!Send(m, M)
  <1> DEFINE M == GivenUp(Msg \ {hand})
  <1>1. /\ sent \in [Prompt -> Nat] /\ hand \in Prompt /\ Msg \subseteq Prompt
        /\ pc = "write" /\ sent' = [sent EXCEPT ![hand] = @ + 1]
    BY PlaceTyped DEF Inv, TypeOK, Write
  <1>2. Next /\ ~SubmitMessage
    BY DEF Write, SubmitMessage, workerVars, Next, Worker
  <1>3. \A m \in Msg : m # hand => sent'[m] = sent[m]
    BY <1>1
  <1>4. ASSUME NEW m \in Msg, m # hand
        PROVE  FateOf(m)' = IF m \in M THEN "dropped" ELSE FateOf(m)
    BY <1>2, <1>3, <1>4, FateAfter DEF GivenUp
  <1>5. M \in SUBSET Msg /\ \A m \in M : Fates[m] = "held"
    BY DEF GivenUp, Fates
  <1>6. CASE hand \notin Msg
    <2>1. Fates' = [m \in Msg |-> IF m \in M THEN "dropped" ELSE Fates[m]]
      BY <1>4, <1>6 DEF Fates
    <2>2. Writes' = Writes
      BY <1>3, <1>6 DEF Writes
    <2> HIDE DEF M
    <2> QED
      BY <1>5, <2>1, <2>2 DEF Delivery!Drop, Delivery!Dropped, Fates, Writes
  <1>7. CASE hand \in Msg
    <2>0. PICK x \in Msg : x = hand
      BY <1>7
    <2>1. InHand(x) /\ OnePlace(x)
      BY <1>1, <2>0 DEF InHand, Inv, OneCopy
    <2>2. sent[x] = 0 /\ FateOf(x) = "held"
      BY <2>1, FateMeans DEF OnePlace, Live, InPassing
    <2>3. sent'[x] = 1 /\ FateOf(x)' = "sent"
      <3>1. sent'[x] = 1
        BY <1>1, <2>0, <2>2
      <3> QED
        BY <3>1 DEF FateOf
    <2>4. ASSUME NEW m \in Msg
          PROVE  Fates'[m] = IF m = x THEN "sent"
                             ELSE IF m \in M THEN "dropped" ELSE Fates[m]
      <3>1. Fates'[m] = FateOf(m)' /\ Fates[m] = FateOf(m)
        BY DEF Fates
      <3> HIDE DEF M
      <3> QED
        BY <1>4, <2>0, <2>3, <3>1
    <2> HIDE DEF M
    <2>5. Fates' = [[m \in Msg |-> IF m \in M THEN "dropped" ELSE Fates[m]]
                      EXCEPT ![x] = "sent"]
      BY <2>4 DEF Fates
    <2>6. Writes' = [Writes EXCEPT ![x] = 1]
      BY <1>3, <2>0, <2>3 DEF Writes
    <2>7. \A m \in M \cup {x} : Fates[m] = "held"
      BY <1>5, <2>2 DEF Fates
    <2> QED
      BY <1>5, <2>5, <2>6, <2>7
         DEF Delivery!Send, Delivery!Dropped, Fates, Writes
  <1> QED
    BY <1>6, <1>7

\* The session starts with every message new, but for one it may hold.
LEMMA DeliveryStarts == Init => Delivery!Init
  <1> SUFFICES ASSUME Init PROVE Delivery!Init
    OBVIOUS
  <1>1. Inv
    BY InitOneCopy
  <1>2. \A m \in Msg : sent[m] = 0
    BY DEF Init, InitEmpty, InitPrompt, InitRest, Prompt
  <1>3. \A m \in Msg : m \in submitted => Live(m)
    BY DEF Init, InitEmpty, InitPrompt, Launch, ForConnection, Live, InPassing
  <1>4. \A m \in Msg : FateOf(m) \in {"new", "held"}
    BY <1>2, <1>3 DEF FateOf
  <1> QED
    BY <1>2, <1>4 DEF Delivery!Init

\* The session delivers its messages as MessageDelivery promises, for every set
\* of messages and every number of stops, crashes and restarts (send_turn,
\* send_queued, worker_ended, after_restart).
THEOREM ImplementsDelivery == Spec => DeliversOnce
  <1>1. Inv /\ Inv' /\ [Next]_vars => [Delivery!Next]_(Delivery!vars)
    <2> SUFFICES ASSUME Inv, Inv', [Next]_vars PROVE [Delivery!Next]_(Delivery!vars)
      OBVIOUS
    <2> QED
      BY SubmissionMaps, WriteMaps, OtherStepsMap DEF Delivery!Next
  <1> QED
    BY <1>1, InitOneCopy, NextOneCopy, DeliveryStarts, PTL
       DEF Spec, DeliversOnce, Delivery!Spec
=============================================================================
