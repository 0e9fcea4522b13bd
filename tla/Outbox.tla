------------------------------- MODULE Outbox -------------------------------
(***************************************************************************)
(* The messages a difu service holds for one saved server: the callers     *)
(* that send or hold a message, the worker that connects and delivers the  *)
(* held ones in order, the connection that drops requests and replies, and *)
(* the server that takes or refuses what it is sent.                       *)
(*                                                                         *)
(* A Link is the service's state for the server.  It is replaced, under a  *)
(* new generation, when the service restarts or the saved server changes;  *)
(* the new one reads outbox.json.  Workers of old generations run on until *)
(* they notice.                                                            *)
(***************************************************************************)
EXTENDS Naturals, FiniteSetsExt, SequencesExt

CONSTANTS
  Messages,   \* the messages users send; each is sent by its user once
  Sessions,   \* the server's sessions
  SessionOf,  \* the session a message is for
  Typed,      \* the text a message was written with
  Retyped,    \* the text an edit gives it
  Fault,      \* what may go wrong, each at most once (see Fails)
  MaxFaults,  \* bound: how much of it does
  MaxDrops    \* bound: connections that drop

FaultKind == {"restart", "reload", "disk", "delete", "late", "unseen"}

ASSUME OutboxAssumption ==
  /\ IsFiniteSet(Messages)
  /\ SessionOf \in [Messages -> Sessions]
  /\ Fault \subseteq FaultKind
  /\ MaxFaults \in Nat /\ MaxDrops \in Nat

VARIABLES
  outbox,    \* Link.outbox
  file,      \* outbox.json
  sending,   \* Link.sending; 0 when nothing is
  remote,    \* Link.remote; 0 when there is none
  gen,       \* State.generation
  worker,    \* the thread of each generation
  message,   \* how far each message's caller is, or what became of it
  before,    \* the messages taken from their users when this one was sent
  made,      \* connections are numbered 1..made
  open,      \* the connections that are not closed
  drops,     \* how many have dropped
  wire,      \* requests written to a connection, and the replies to them
  got,       \* the messages the server took, in order
  sessions,  \* the sessions the server has
  list,      \* a session list read from the server and not yet stored
  faults     \* what went wrong so far

linkVars   == <<outbox, file, sending, remote>>
callerVars == <<message, before>>
connVars   == <<made, open, drops, wire>>
serverVars == <<got, sessions>>
vars == <<linkVars, gen, worker, callerVars, connVars, serverVars, list,
          faults>>

-----------------------------------------------------------------------------
(* Held messages *)

Gens == 1..3
Text == {Typed[m] : m \in Messages} \cup {Retyped[m] : m \in Messages}

Queued == [id : Nat, msg : Messages, text : Text, error : BOOLEAN,
           uncertain : BOOLEAN]

Ready(held) == ~held.error

\* The first held message that the server has not refused.
NextReady(o) == o[Min({i \in DOMAIN o : Ready(o[i])})]
AnyReady(o)  == \E i \in DOMAIN o : Ready(o[i])

HasId(o, id) == \E i \in DOMAIN o : o[i].id = id

\* What o has of K (SelectSeq, in a form to prove about).
Keep(o, K) ==
  LET kept[n \in 0..Len(o)] ==
        IF n = 0 THEN <<>>
        ELSE IF o[n] \in K THEN Append(kept[n - 1], o[n])
                           ELSE kept[n - 1]
  IN kept[Len(o)]

Without(o, id) == Keep(o, {held \in Range(o) : held.id # id})

\* Mutant: the largest id is used again.
NextIdRepeated(o) == Max({o[i].id : i \in DOMAIN o} \cup {1})

NextId(o) == 1 + Max({o[i].id : i \in DOMAIN o} \cup {0})

Amend(o, id, field) ==
  [i \in DOMAIN o |-> IF o[i].id = id THEN [o[i] EXCEPT ![field] = TRUE]
                                      ELSE o[i]]

\* Mutant: a message being sent holds nothing back.
HeldForSending(o, s) ==
  \E i \in DOMAIN o : /\ SessionOf[o[i].msg] = s
                      /\ Ready(o[i]) /\ o[i].id # sending

HeldFor(o, s) == \E i \in DOMAIN o : SessionOf[o[i].msg] = s /\ Ready(o[i])

\* Queue entries are named by what they say: the first that says it is meant.
Named(o, i) ==
  \A j \in 1..(i - 1) : \/ SessionOf[o[j].msg] # SessionOf[o[i].msg]
                        \/ o[j].text # o[i].text

-----------------------------------------------------------------------------
(* What goes wrong *)

Fails(kind) ==
  /\ kind \in Fault \ faults
  /\ Cardinality(faults) < MaxFaults
  /\ faults' = faults \cup {kind}

\* A failed write leaves the file as it was, and is only reported.
Save(o) ==
  \/ file' = o /\ UNCHANGED faults
  \/ Fails("disk") /\ UNCHANGED file

-----------------------------------------------------------------------------
(* Workers and requests *)

NoItem == [id |-> 0]
NoList == [conn |-> 0, sessions |-> {}]
Outcome == {"none", "sent", "notSent", "lost", "refused"}

NewWorker == [pc |-> "off", conn |-> 0, item |-> NoItem, outcome |-> "none"]
Ended     == [NewWorker EXCEPT !.pc = "ended"]

\* held: the request is a worker's and not a caller's.
Request(c, m, text, held) ==
  [conn |-> c, msg |-> m, text |-> text, held |-> held, answer |-> "none"]

At(g, here) == worker[g].pc = here
Go(g, there) == worker' = [worker EXCEPT ![g].pc = there]

Result(g, outcome) ==
  worker' = [worker EXCEPT ![g].pc = "settle", ![g].outcome = outcome]

\* Every worker waiting on connection c learns of its end.
WorkersAfterDrop(c, unwritten) ==
  [g \in Gens |->
     IF worker[g].pc = "waiting" /\ worker[g].conn = c
     THEN [worker[g] EXCEPT
             !.pc = "settle",
             !.outcome = IF \E r \in unwritten : r.held THEN "notSent"
                                                         ELSE "lost"]
     ELSE worker[g]]

\* A caller whose request was not written holds the message, the others
\* return the error.
CallersAfterDrop(c, unwritten) ==
  [m \in Messages |->
     IF message[m] = [pc |-> "waiting", conn |-> c]
     THEN IF \E r \in unwritten : ~r.held /\ r.msg = m
          THEN [pc |-> "hold", conn |-> 0]
          ELSE [pc |-> "failed", conn |-> 0]
     ELSE message[m]]

Becomes(m, pc) == message' = [message EXCEPT ![m] = [pc |-> pc, conn |-> 0]]
Is(m, pcs) == message[m].pc \in pcs

Init ==
  /\ outbox = <<>> /\ file = <<>> /\ sending = 0 /\ remote = 0
  /\ gen = 1
  /\ worker = [g \in Gens |-> IF g = 1 THEN NewWorker ELSE Ended]
  /\ message = [m \in Messages |-> [pc |-> "new", conn |-> 0]]
  /\ before = [m \in Messages |-> {}]
  /\ made = 0 /\ open = {} /\ drops = 0 /\ wire = {}
  /\ got = <<>> /\ sessions = Sessions
  /\ list = NoList /\ faults = {}

-----------------------------------------------------------------------------
(* A user's message *)

\* One look under the lock decides between sending now and holding.
Check(m) ==
  /\ Is(m, {"new"})
  /\ IF remote \in open /\ ~HeldFor(outbox, SessionOf[m])
     THEN message' = [message EXCEPT ![m] = [pc |-> "direct", conn |-> remote]]
     ELSE Becomes(m, "hold")
  /\ before' = [before EXCEPT ![m] =
       {p \in Messages : SessionOf[p] = SessionOf[m] /\ Is(p, {"held"})}]
  /\ UNCHANGED <<linkVars, gen, worker, connVars, serverVars, list, faults>>

SendNow(m) ==
  /\ Is(m, {"direct"})
  /\ LET c == message[m].conn IN
     IF c \in open
     THEN /\ wire' = wire \cup {Request(c, m, Typed[m], FALSE)}
          /\ message' = [message EXCEPT ![m].pc = "waiting"]
     ELSE Becomes(m, "hold") /\ UNCHANGED wire
  /\ UNCHANGED <<linkVars, gen, worker, before, made, open, drops, serverVars,
                 list, faults>>

Hold(m) ==
  /\ Is(m, {"hold"})
  /\ LET held == [id |-> NextId(outbox), msg |-> m, text |-> Typed[m],
                  error |-> FALSE, uncertain |-> FALSE]
     IN \/ /\ outbox' = Append(outbox, held)
           /\ file' = outbox'
           /\ Becomes(m, "held")
           /\ UNCHANGED faults
        \/ Fails("disk") /\ Becomes(m, "failed") /\ UNCHANGED <<outbox, file>>
  /\ UNCHANGED <<sending, remote, gen, worker, before, connVars, serverVars,
                 list>>

\* Mutant: a message can be edited and removed while it is being sent.
EditableAlways(i) == Named(outbox, i)

\* The entry a user may edit or remove: not while it is being sent.
Editable(i) == Named(outbox, i) /\ outbox[i].id # sending

\* An edit that cannot be written is undone and refused: nothing changes.
EditHeld(i) ==
  /\ Editable(i)
  /\ outbox[i].text # Retyped[outbox[i].msg]  \* bound: one edit each
  /\ outbox' = [outbox EXCEPT ![i].text = Retyped[outbox[i].msg],
                              ![i].error = FALSE]
  /\ file' = outbox'
  /\ UNCHANGED <<sending, remote, gen, worker, callerVars, connVars,
                 serverVars, list, faults>>

RemoveHeld(i) ==
  /\ Editable(i)
  /\ outbox' = RemoveAt(outbox, i)
  /\ file' = outbox'
  /\ Becomes(outbox[i].msg, IF outbox[i].uncertain THEN "abandoned"
                                                   ELSE "removed")
  /\ UNCHANGED <<sending, remote, gen, worker, before, connVars, serverVars,
                 list, faults>>

-----------------------------------------------------------------------------
(* The worker of generation g *)

Current(g) == g = gen

Connect(g) ==
  /\ At(g, "off") /\ Current(g)
  /\ made' = made + 1
  /\ open' = open \cup {made'}
  /\ remote' = made'
  /\ worker' = [worker EXCEPT ![g].pc = "on", ![g].conn = made']
  /\ UNCHANGED <<outbox, file, sending, gen, callerVars, drops, wire,
                 serverVars, list, faults>>

\* It finds its connection closed, or its link replaced.
Disconnected(g) ==
  /\ At(g, "on") /\ Current(g)
  /\ worker[g].conn \notin open
  /\ remote' = 0
  /\ Go(g, "off")
  /\ UNCHANGED <<outbox, file, sending, gen, callerVars, connVars, serverVars,
                 list, faults>>

Retire(g) ==
  /\ worker[g].pc \in {"off", "on", "flush"} /\ ~Current(g)
  /\ worker' = [worker EXCEPT ![g] = Ended]
  /\ UNCHANGED <<linkVars, gen, callerVars, connVars, serverVars, list, faults>>

Flush(g) ==
  /\ At(g, "on") /\ Current(g)
  /\ worker[g].conn \in open
  /\ AnyReady(outbox)
  /\ Go(g, "flush")
  /\ UNCHANGED <<linkVars, gen, callerVars, connVars, serverVars, list, faults>>

Pick(g) ==
  /\ At(g, "flush") /\ Current(g)
  /\ IF AnyReady(outbox)
     THEN LET next == NextReady(outbox) IN
          /\ sending' = next.id
          /\ worker' = [worker EXCEPT
               ![g].item = next,
               ![g].pc = IF next.uncertain THEN "look" ELSE "send"]
     ELSE Go(g, "on") /\ UNCHANGED sending
  /\ UNCHANGED <<outbox, file, remote, gen, callerVars, connVars, serverVars,
                 list, faults>>

\* The server's session shows the text of the message.
Arrived(item) ==
  \E i \in DOMAIN got : /\ SessionOf[got[i].msg] = SessionOf[item.msg]
                        /\ got[i].text = item.text

\* Whatever goes wrong with the look counts as not arrived.  So does a message
\* that ten entries of its session have followed: "unseen" stands for both.
Look(g) ==
  /\ At(g, "look")
  /\ \/ /\ worker[g].conn \in open
        /\ IF SessionOf[worker[g].item.msg] \in sessions
              /\ Arrived(worker[g].item)
           THEN Result(g, "sent")
           ELSE Go(g, "send")
        /\ UNCHANGED faults
     \/ worker[g].conn \notin open /\ Go(g, "send") /\ UNCHANGED faults
     \/ Fails("unseen") /\ Go(g, "send")
  /\ UNCHANGED <<linkVars, gen, callerVars, connVars, serverVars, list>>

Send(g) ==
  /\ At(g, "send")
  /\ LET c == worker[g].conn
         item == worker[g].item IN
     IF c \in open
     THEN /\ wire' = wire \cup {Request(c, item.msg, item.text, TRUE)}
          /\ Go(g, "waiting")
     ELSE Result(g, "notSent") /\ UNCHANGED wire
  /\ UNCHANGED <<linkVars, gen, callerVars, made, open, drops, serverVars,
                 list, faults>>

\* Mutant: an unconfirmed message counts as sent.
OutboxLostIsSent(o, id, outcome) ==
  IF outcome \in {"sent", "lost"} THEN Without(o, id)
  ELSE IF outcome = "refused" THEN Amend(o, id, "error") ELSE o

\* Mutant: an unconfirmed message is not marked uncertain.
OutboxForgetsLost(o, id, outcome) ==
  IF outcome = "sent" THEN Without(o, id)
  ELSE IF outcome = "refused" THEN Amend(o, id, "error") ELSE o

\* Mutant: a refused message is tried again.
OutboxRetriesRefused(o, id, outcome) ==
  IF outcome = "sent" THEN Without(o, id)
  ELSE IF outcome = "lost" THEN Amend(o, id, "uncertain") ELSE o

\* What an outcome does to the held messages.
Outbox(o, id, outcome) ==
  CASE outcome = "sent"    -> Without(o, id)
    [] outcome = "lost"    -> Amend(o, id, "uncertain")
    [] outcome = "refused" -> Amend(o, id, "error")
    [] OTHER               -> o

\* The users see which message the server refused.
Refusal(id, outcome) ==
  IF outcome = "refused" /\ HasId(outbox, id)
  THEN LET held == CHOOSE i \in DOMAIN outbox : outbox[i].id = id
       IN Becomes(outbox[held].msg, "refused")
  ELSE UNCHANGED message

Settle(g) ==
  /\ At(g, "settle")
  /\ LET id == worker[g].item.id
         outcome == worker[g].outcome IN
     IF Current(g)
     THEN /\ outbox' = Outbox(outbox, id, outcome)
          /\ Save(outbox')
          /\ sending' = 0
          /\ Refusal(id, outcome)
          /\ worker' = [worker EXCEPT
               ![g].pc = IF outcome \in {"notSent", "lost"} THEN "on"
                                                            ELSE "flush",
               ![g].item = NoItem, ![g].outcome = "none"]
     ELSE /\ worker' = [worker EXCEPT ![g] = Ended]
          /\ UNCHANGED <<outbox, file, sending, message, faults>>
  /\ UNCHANGED <<remote, gen, before, connVars, serverVars, list>>

-----------------------------------------------------------------------------
(* The server's session list *)

\* A list that has lost no session changes nothing, and is left out.
ReadList(c) ==
  /\ list = NoList
  /\ c \in open /\ sessions # Sessions
  /\ list' = [conn |-> c, sessions |-> sessions]
  /\ UNCHANGED <<linkVars, gen, worker, callerVars, connVars, serverVars,
                 faults>>

\* Messages of sessions it no longer has go with them.  "cut" marks one that
\* was being delivered.
StoreSessions ==
  /\ list # NoList
  /\ list' = NoList
  /\ LET gone == {held \in Range(outbox) :
                   SessionOf[held.msg] \notin list.sessions} IN
     IF remote = list.conn /\ gone # {}
     THEN /\ outbox' = Keep(outbox, Range(outbox) \ gone)
          /\ Save(outbox')
          /\ message' = [m \in Messages |->
               IF \E held \in gone : held.msg = m
               THEN [pc |-> IF \E held \in gone :
                                 held.msg = m /\ held.id = sending
                            THEN "cut" ELSE "dropped",
                     conn |-> 0]
               ELSE message[m]]
     ELSE UNCHANGED <<outbox, file, message, faults>>
  /\ UNCHANGED <<sending, remote, gen, worker, before, connVars, serverVars>>

-----------------------------------------------------------------------------
(* The connection and the server *)

\* The client may find a connection closed before the server has read, or
\* answered, all that was written to it.  Requests still queued for the socket
\* were never written.
Drop(c) ==
  /\ c \in open /\ drops < MaxDrops
  /\ drops' = drops + 1
  /\ open' = open \ {c}
  /\ LET asked == {r \in wire : r.conn = c /\ r.answer = "none"} IN
     \E unwritten \in SUBSET asked :
       /\ wire' = {r \in wire : r.conn # c} \cup (asked \ unwritten)
       /\ worker' = WorkersAfterDrop(c, unwritten)
       /\ message' = CallersAfterDrop(c, unwritten)
  /\ UNCHANGED <<linkVars, gen, before, made, serverVars, list, faults>>

\* The server takes or refuses a request; after the connection closed it may
\* still take one that was on the way.
Take(r) ==
  /\ r.answer = "none"
  /\ IF r.conn \in open THEN UNCHANGED faults ELSE Fails("late")
  /\ \E ok \in IF SessionOf[r.msg] \in sessions THEN BOOLEAN ELSE {FALSE} :
       /\ got' = IF ok THEN Append(got, [msg |-> r.msg, text |-> r.text]) ELSE got
       /\ wire' = (wire \ {r}) \cup
            IF r.conn \in open
            THEN {[r EXCEPT !.answer = IF ok THEN "ok" ELSE "error"]}
            ELSE {}
  /\ UNCHANGED <<linkVars, gen, worker, callerVars, made, open, drops,
                 sessions, list>>

Hear(r) ==
  /\ r.answer # "none" /\ r.conn \in open
  /\ wire' = wire \ {r}
  /\ IF r.held
     THEN /\ \E g \in Gens :
               /\ At(g, "waiting") /\ worker[g].conn = r.conn
               /\ Result(g, IF r.answer = "ok" THEN "sent" ELSE "refused")
          /\ UNCHANGED message
     ELSE /\ Becomes(r.msg, IF r.answer = "ok" THEN "accepted" ELSE "rejected")
          /\ UNCHANGED worker
  /\ UNCHANGED <<linkVars, gen, before, made, open, drops, serverVars, list,
                 faults>>

Delete(s) ==
  /\ Fails("delete")
  /\ sessions' = sessions \ {s}
  /\ UNCHANGED <<linkVars, gen, worker, callerVars, connVars, got, list>>

-----------------------------------------------------------------------------
(* The service *)

\* Link::new, and the worker started for it.
NewLink ==
  /\ outbox' = file
  /\ sending' = 0 /\ remote' = 0
  /\ gen' = gen + 1

\* It stops or is killed, and starts again: every thread of it is gone.
Restart ==
  /\ Fails("restart")
  /\ NewLink
  /\ worker' = [g \in Gens |-> IF g = gen' THEN NewWorker ELSE Ended]
  /\ message' = [m \in Messages |->
       IF Is(m, {"direct", "waiting", "hold"}) THEN [pc |-> "failed", conn |-> 0]
                                               ELSE message[m]]
  /\ open' = {} /\ list' = NoList
  /\ wire' = {r \in wire : r.answer = "none"}
  /\ UNCHANGED <<file, before, made, drops, serverVars>>

\* servers.json has another address, key or id for the server.
Reload ==
  /\ Fails("reload")
  /\ NewLink
  /\ worker' = [worker EXCEPT ![gen'] = NewWorker]
  /\ UNCHANGED <<file, callerVars, connVars, serverVars, list>>

-----------------------------------------------------------------------------

Caller(m) == Check(m) \/ SendNow(m) \/ Hold(m)

Worker(g) ==
  \/ Connect(g) \/ Disconnected(g) \/ Retire(g) \/ Flush(g)
  \/ Pick(g) \/ Look(g) \/ Send(g) \/ Settle(g)

User == \E i \in DOMAIN outbox : EditHeld(i) \/ RemoveHeld(i)
Listing == StoreSessions \/ \E c \in open : ReadList(c)
Server == \/ \E r \in wire : Take(r) \/ Hear(r)
          \/ \E s \in sessions : Delete(s)
Service == Restart \/ Reload

Next ==
  \/ \E m \in Messages : Caller(m)
  \/ \E g \in Gens : Worker(g)
  \/ \E c \in open : Drop(c)
  \/ User \/ Listing \/ Server \/ Service

\* Callers and workers are threads of a live process; over a connection that
\* stays open the server answers what it is asked.
Fairness ==
  /\ \A m \in Messages : WF_vars(Caller(m))
  /\ \A g \in Gens : WF_vars(Worker(g))
  /\ WF_vars(\E r \in wire : r.conn \in open /\ (Take(r) \/ Hear(r)))

Spec == Init /\ [][Next]_vars
FairSpec == Spec /\ Fairness

-----------------------------------------------------------------------------
(* Properties *)

Copies(m, text) == {i \in DOMAIN got : got[i].msg = m /\ got[i].text = text}
Delivered(m) == \E i \in DOMAIN got : got[i].msg = m
First(m) == Min({i \in DOMAIN got : got[i].msg = m})
InOutbox(o, m) == \E i \in DOMAIN o : o[i].msg = m

\* The worker settled a message by its id after it went with its session.
Confused == \E m \in Messages : Is(m, {"cut"})

\* Held messages are in the order in which they were numbered.
Increasing(o) == \A i, j \in DOMAIN o : i < j => o[i].id < o[j].id

(***************************************************************************)
(* Types; and the ids of held messages increase along the outbox and its   *)
(* file, so that an id is unique within the outbox (Queued.id).            *)
(***************************************************************************)
TypeOK ==
  /\ outbox \in Seq(Queued) /\ file \in Seq(Queued)
  /\ Increasing(outbox) /\ Increasing(file)
  /\ gen \in Gens /\ sending \in Nat /\ remote \in 0..made
  /\ \A g \in Gens : /\ worker[g].outcome \in Outcome
                     /\ worker[g].item # NoItem => worker[g].item \in Queued
  /\ open \subseteq 1..made
  /\ sessions \subseteq Sessions
  /\ faults \subseteq Fault

(***************************************************************************)
(* A message a user was told is held stays in the outbox until the server  *)
(* has it, through restarts, replaced links, failed writes and dropped     *)
(* connections; a refused one stays too.  It leaves otherwise only by its  *)
(* user's hand or with its session (Link.outbox and outbox.json).          *)
(***************************************************************************)
HeldIsKept ==
  \A m \in Messages :
    Is(m, {"held", "refused"}) => (InOutbox(outbox, m) \/ Delivered(m))

(***************************************************************************)
(* The same, unless a message was dropped with its session while the       *)
(* worker delivered it: the worker then settles, by its id, what may be    *)
(* another message (Federation::flush, hold, store_sessions).              *)
(***************************************************************************)
HeldIsKeptUnlessCut == Confused \/ HeldIsKept

(***************************************************************************)
(* A message sent to a session while others were held for it reaches the   *)
(* server after them, whichever way each of them goes (Federation::message *)
(* and flush).                                                             *)
(***************************************************************************)
InOrder ==
  \A m \in Messages, p \in Messages :
    p \in before[m] /\ Is(p, {"held"}) /\ Delivered(m)
      => Confused \/ (Delivered(p) /\ First(p) < First(m))

(***************************************************************************)
(* However often connections drop, the server gets no message twice: an    *)
(* unconfirmed one is looked for before it is sent again (flush, deliver,  *)
(* arrived).  It holds while the service keeps running on the same saved   *)
(* server, and the look sees what the server was sent.                     *)
(***************************************************************************)
SentOnce ==
  faults \subseteq {"delete", "disk"}
    => \A m \in Messages, t \in Text : Cardinality(Copies(m, t)) <= 1

\* What docs/cloud-agents.md:1125-1128 says, without conditions.
NotSentTwice ==
  \A m \in Messages, t \in Text : Cardinality(Copies(m, t)) <= 1

(***************************************************************************)
(* A held message that its user removed, and whose delivery was not in     *)
(* doubt, never reaches the server (edit_held refuses while it is being    *)
(* sent).  It holds while the link is the same.                            *)
(***************************************************************************)
RemovedIsNotSent ==
  faults \cap {"restart", "reload"} = {}
    => \A m \in Messages : Is(m, {"removed"}) => ~Delivered(m)

(***************************************************************************)
(* Once connections stop dropping, every held message is delivered, or     *)
(* waits for its user with the server's refusal (Federation::work).        *)
(***************************************************************************)
Drained == <>[](~AnyReady(outbox))
=============================================================================
