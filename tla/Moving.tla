------------------------------- MODULE Moving -------------------------------
(***************************************************************************)
(* Moving a conversation between computers and a saved server.  Each place *)
(* a conversation is moved to gets a copy of it; the copy it left is       *)
(* archived and names the one that goes on.                                *)
(*                                                                         *)
(* To the server, a computer sends the package with Import and retires its *)
(* own copy on the answer.  To a computer, that computer asks the server   *)
(* for the package with Export, places it, and says so with Exported.  A   *)
(* user starts a move, or the agent asks for one that is made when its     *)
(* turn is over.                                                           *)
(***************************************************************************)
EXTENDS Naturals, FiniteSets

CONSTANTS
  Computers,  \* the computers that have the server saved
  Server,
  Messages,   \* what users write; each once
  MaxCopies,  \* bound: copies of the conversation
  MaxFaults   \* bound: dropped connections and restarts

Nowhere == "nowhere"

ASSUME MovingAssumption ==
  /\ Server \notin Computers
  /\ Nowhere \notin Computers \cup {Server}
  /\ MaxCopies \in Nat \ {0}
  /\ MaxFaults \in Nat

VARIABLES
  made,     \* copies are numbered 1..made
  copy,     \* the session record of each copy
  op,       \* the move each computer is making
  due,      \* threads started for moves the agent asked for
  listed,   \* the server's sessions a computer's list shows as asking for it
  offered,  \* Federation.returning: those already taken up
  wire,     \* requests at the server
  sent,     \* the messages that were accepted
  faults,
  refresh   \* Link.refresh: a computer's link is to read the list

vars == <<made, copy, op, due, listed, offered, wire, sent, faults, refresh>>

Copies == 1..MaxCopies
Places == Computers \cup {Server}
NoCopy == 0

\* asking: how the turn in which the agent last asked went (history).
Copy == [place : Places, state : {"running", "ready", "interrupted"},
         archived : BOOLEAN, movedTo : Copies \cup {NoCopy},
         chat : SUBSET Messages, asked : Places \cup {Nowhere},
         from : Computers \cup {Nowhere},
         asking : {"none", "open", "finished", "unfinished"}]

Phase == {"none", "import", "export", "place", "report"}

\* by: "user", or how the asking turn went when the package was made.
Op == [phase : Phase, copy : Copies \cup {NoCopy}, chat : SUBSET Messages,
       made : Copies \cup {NoCopy}, answer : {"none", "ok", "error"},
       by : {"user", "agent", "open", "finished", "unfinished"}]

Request == [type : {"Import", "Export", "Exported"}, at : Computers,
            copy : Copies, chat : SUBSET Messages,
            made : Copies \cup {NoCopy}, heard : BOOLEAN]

Idle == [phase |-> "none", copy |-> NoCopy, chat |-> {}, made |-> NoCopy,
         answer |-> "none", by |-> "user"]

\* Mutant: an imported session is left as Session::new makes it.
NewCopyStarting(p, chat) ==
  [place |-> p, state |-> "starting", archived |-> FALSE, movedTo |-> NoCopy,
   chat |-> chat, asked |-> Nowhere, from |-> Nowhere, asking |-> "none"]

NewCopy(p, chat) ==
  [place |-> p, state |-> "ready", archived |-> FALSE, movedTo |-> NoCopy,
   chat |-> chat, asked |-> Nowhere, from |-> Nowhere, asking |-> "none"]

Init ==
  /\ made = 1
  /\ \E p \in Places : copy = [c \in Copies |-> NewCopy(p, {})]
  /\ op = [k \in Computers |-> Idle]
  /\ due = [k \in Computers |-> {}]
  /\ listed = [k \in Computers |-> {}]
  /\ offered = [k \in Computers |-> {}]
  /\ wire = {}
  /\ sent = {}
  /\ faults = 0
  /\ refresh = [k \in Computers |-> TRUE]

Made == 1..made
At(p) == {c \in Made : copy[c].place = p}

Moved(c) == copy[c].movedTo # NoCopy

\* A move to the server holds the session's action lock while it waits.
\* Mutant: the lock is let go before the server answers.
LockedNever(c) == c \notin Copies

Locked(c) == \E k \in Computers : op[k].phase = "import" /\ op[k].copy = c

\* Mutant: only the archived flag is looked at.
MovableUnlessArchived(c) == ~copy[c].archived /\ copy[c].state # "running"

Movable(c) ==
  ~Moved(c) /\ ~copy[c].archived /\ copy[c].state # "running"

-----------------------------------------------------------------------------
(* The session: messages, turns, what its agent asks for *)

Accepts(c) == ~Moved(c) /\ ~copy[c].archived

\* A user writes at computer k, or at a phone (Nowhere).
Message(c, m, k) ==
  /\ m \notin sent
  /\ ~Locked(c) /\ Accepts(c)
  /\ copy[c].place # Server => k = copy[c].place
  /\ sent' = sent \cup {m}
  /\ copy' = [copy EXCEPT ![c].chat = @ \cup {m}, ![c].state = "running",
                          ![c].from = IF copy[c].place = Server THEN k ELSE @]
  /\ UNCHANGED <<made, op, due, listed, offered, wire, faults, refresh>>

\* difu_move_to_server and difu_move_to_computer.
Ask(c) ==
  LET to == IF copy[c].place = Server THEN copy[c].from ELSE Server IN
  /\ copy[c].state = "running" /\ ~Moved(c)
  /\ to # Nowhere
  /\ copy' = [copy EXCEPT ![c].asked = to, ![c].asking = "open"]
  /\ UNCHANGED <<made, op, due, listed, offered, wire, sent, faults, refresh>>

EndTurn(c) ==
  /\ copy[c].state = "running"
  /\ \E ok \in BOOLEAN :
       copy' = [copy EXCEPT
         ![c].state = IF ok THEN "ready" ELSE "interrupted",
         ![c].asking = IF @ # "open" THEN @
                       ELSE IF ok THEN "finished" ELSE "unfinished"]
  /\ UNCHANGED <<made, op, due, listed, offered, wire, sent, faults, refresh>>

Archive(c) ==
  /\ ~Locked(c) /\ ~copy[c].archived
  /\ copy' = [copy EXCEPT ![c].archived = TRUE,
                 ![c].state = IF @ = "running" THEN "interrupted" ELSE @,
                 ![c].asking = IF @ = "open" THEN "unfinished" ELSE @]
  /\ UNCHANGED <<made, op, due, listed, offered, wire, sent, faults, refresh>>

Unarchive(c) ==
  /\ ~Locked(c) /\ copy[c].archived
  /\ copy' = [copy EXCEPT ![c].archived = FALSE]
  /\ UNCHANGED <<made, op, due, listed, offered, wire, sent, faults, refresh>>

-----------------------------------------------------------------------------
(* What the agent asked for, once its turn is over *)

ScheduledMove(c) ==
  LET k == copy[c].place IN
  /\ k # Server
  /\ copy[c].asked # Nowhere /\ copy[c].state # "running"
  /\ copy' = [copy EXCEPT ![c].asked = Nowhere]
  /\ due' = IF copy[c].state = "ready"
            THEN [due EXCEPT ![k] = @ \cup {c}] ELSE due
  /\ UNCHANGED <<made, op, listed, offered, wire, sent, faults, refresh>>

CancelReturn(c) ==
  /\ copy[c].place = Server
  /\ copy[c].asked # Nowhere /\ copy[c].state = "interrupted"
  /\ copy' = [copy EXCEPT ![c].asked = Nowhere]
  /\ UNCHANGED <<made, op, due, listed, offered, wire, sent, faults, refresh>>

\* The list shows every session; those that matter ask for k, turn over.
Listed(k) == [listed EXCEPT ![k] = {c \in At(Server) :
                copy[c].asked = k /\ copy[c].state # "running"}]

\* What the link reads by itself.
Poll(k) ==
  /\ refresh[k]
  /\ listed' = Listed(k)
  /\ refresh' = [refresh EXCEPT ![k] = FALSE]
  /\ UNCHANGED <<made, copy, op, due, offered, wire, sent, faults>>

\* The list is also read after a change made through k, which may come at any
\* time.
List(k) ==
  /\ listed' = Listed(k)
  /\ UNCHANGED <<made, copy, op, due, offered, wire, sent, faults, refresh>>

\* An app lists the sessions, or listed them within the last fifteen seconds:
\* the link reads the list, as soon as it has a connection.
Show(k) ==
  /\ ~refresh[k]
  /\ refresh' = [refresh EXCEPT ![k] = TRUE]
  /\ UNCHANGED <<made, copy, op, due, listed, offered, wire, sent, faults>>

Return(k, c) ==
  /\ c \in listed[k] \ offered[k]
  /\ offered' = [offered EXCEPT ![k] = @ \cup {c}]
  /\ due' = [due EXCEPT ![k] = @ \cup {c}]
  /\ UNCHANGED <<made, copy, op, listed, wire, sent, faults, refresh>>

\* A minute later.
Forget(k, c) ==
  /\ c \in offered[k]
  /\ offered' = [offered EXCEPT ![k] = @ \ {c}]
  /\ UNCHANGED <<made, copy, op, due, listed, wire, sent, faults, refresh>>

-----------------------------------------------------------------------------
(* The computer's side of a move *)

ToServer(k, type, c, chat, n) ==
  wire \cup {[type |-> type, at |-> k, copy |-> c, chat |-> chat,
              made |-> n, heard |-> TRUE]}

Started(k, c, phase, chat, by) ==
  op' = [op EXCEPT ![k] = [Idle EXCEPT !.phase = phase, !.copy = c,
                                       !.chat = chat, !.by = by]]

MoveToServer(k, c, by) ==
  /\ op[k] = Idle
  /\ copy[c].place = k /\ Movable(c)
  /\ Started(k, c, "import", copy[c].chat,
             IF by = "user" THEN by ELSE copy[c].asking)
  /\ wire' = ToServer(k, "Import", c, copy[c].chat, NoCopy)

MoveHere(k, c, by) ==
  /\ op[k] = Idle
  /\ copy[c].place = Server
  /\ Started(k, c, "export", {}, by)
  /\ wire' = ToServer(k, "Export", c, {}, NoCopy)

Move(k, c) ==
  /\ MoveToServer(k, c, "user") \/ MoveHere(k, c, "user")
  /\ UNCHANGED <<made, copy, due, listed, offered, sent, faults, refresh>>

\* A move to the server that cannot be made is given up: due is emptied.
MoveDue(k, c) ==
  /\ c \in due[k] /\ op[k] = Idle
  /\ due' = [due EXCEPT ![k] = @ \ {c}]
  /\ \/ MoveToServer(k, c, "agent") \/ MoveHere(k, c, "agent")
     \/ copy[c].place = k /\ UNCHANGED <<op, wire>>
  /\ UNCHANGED <<made, copy, listed, offered, sent, faults, refresh>>

\* Mutant: the local copy is retired whatever the server answers.
RetireAnyway(k) ==
  /\ op[k].phase = "import" /\ op[k].answer # "none"
  /\ copy' = [copy EXCEPT ![op[k].copy].archived = TRUE,
                          ![op[k].copy].movedTo = made]
  /\ op' = [op EXCEPT ![k] = Idle]
  /\ UNCHANGED <<made, due, listed, offered, wire, sent, faults, refresh>>

Retire(k) ==
  /\ op[k].phase = "import" /\ op[k].answer # "none"
  /\ copy' = IF op[k].answer = "error" THEN copy
             ELSE [copy EXCEPT ![op[k].copy].movedTo = op[k].made,
                               ![op[k].copy].archived = TRUE,
                               ![op[k].copy].asked = Nowhere]
  /\ op' = [op EXCEPT ![k] = Idle]
  /\ UNCHANGED <<made, due, listed, offered, wire, sent, faults, refresh>>

Reporting(k, n) ==
  /\ op' = [op EXCEPT ![k].phase = "report", ![k].made = n,
                      ![k].answer = "none"]
  /\ wire' = ToServer(k, "Exported", op[k].copy, {}, n)

HearPackage(k) ==
  /\ op[k].phase = "export"
  /\ \/ /\ op[k].answer = "ok"
        /\ op' = [op EXCEPT ![k].phase = "place"]
        /\ UNCHANGED wire
     \/ op[k].answer = "error" /\ Reporting(k, NoCopy)
  /\ UNCHANGED <<made, copy, due, listed, offered, sent, faults, refresh>>

\* There is a clone to continue in and the package fits it, or not.
Place(k) ==
  /\ op[k].phase = "place"
  /\ \/ /\ made < MaxCopies
        /\ made' = made + 1
        /\ copy' = [copy EXCEPT ![made'] = NewCopy(k, op[k].chat)]
        /\ Reporting(k, made')
     \/ UNCHANGED <<made, copy>> /\ Reporting(k, NoCopy)
  /\ UNCHANGED <<due, listed, offered, sent, faults, refresh>>

Reported(k) ==
  /\ op[k].phase = "report" /\ op[k].answer # "none"
  /\ op' = [op EXCEPT ![k] = Idle]
  /\ UNCHANGED <<made, copy, due, listed, offered, wire, sent, faults, refresh>>

-----------------------------------------------------------------------------
(* The server's side *)

\* Nobody listens to the answer when the connection is gone.
Answer(r, answer) ==
  /\ wire' = wire \ {r}
  /\ op' = IF r.heard THEN [op EXCEPT ![r.at].answer = answer] ELSE op

Import(r) ==
  /\ r.type = "Import"
  /\ \/ /\ made < MaxCopies
        /\ made' = made + 1
        /\ copy' = [copy EXCEPT ![made'] = NewCopy(Server, r.chat)]
        /\ wire' = wire \ {r}
        /\ op' = IF r.heard THEN [op EXCEPT ![r.at].answer = "ok",
                                            ![r.at].made = made'] ELSE op
     \/ UNCHANGED <<made, copy>> /\ Answer(r, "error")
  /\ UNCHANGED <<due, listed, offered, sent, faults, refresh>>

Export(r) ==
  /\ r.type = "Export"
  /\ \/ /\ Movable(r.copy)
        /\ copy' = [copy EXCEPT ![r.copy].asked = Nowhere]
        /\ wire' = wire \ {r}
        /\ op' = IF ~r.heard THEN op
                 ELSE [op EXCEPT ![r.at].answer = "ok",
                         ![r.at].chat = copy[r.copy].chat,
                         ![r.at].by = IF @ = "user" THEN @
                                      ELSE copy[r.copy].asking]
     \/ UNCHANGED copy /\ Answer(r, "error")
  /\ UNCHANGED <<made, due, listed, offered, sent, faults, refresh>>

\* Mutant: a failure is not noted, and the request to return stays.
ExportedUnlessFailed(r) ==
  /\ r.type = "Exported"
  /\ copy' = IF r.made = NoCopy THEN copy
             ELSE [copy EXCEPT ![r.copy].movedTo = r.made,
                    ![r.copy].archived = TRUE, ![r.copy].asked = Nowhere]
  /\ Answer(r, "ok")
  /\ UNCHANGED <<made, due, listed, offered, sent, faults, refresh>>

\* The session that left is archived; a failure is only written in its chat.
Exported(r) ==
  /\ r.type = "Exported"
  /\ copy' = IF r.made = NoCopy THEN [copy EXCEPT ![r.copy].asked = Nowhere]
             ELSE [copy EXCEPT ![r.copy].movedTo = r.made,
                    ![r.copy].archived = TRUE, ![r.copy].asked = Nowhere,
                    ![r.copy].state = IF @ = "running" THEN "interrupted"
                                      ELSE @,
                    ![r.copy].asking = IF @ = "open" THEN "unfinished"
                                       ELSE @]
  /\ Answer(r, "ok")
  /\ UNCHANGED <<made, due, listed, offered, sent, faults, refresh>>

-----------------------------------------------------------------------------
(* Faults *)

Fault == faults < MaxFaults /\ faults' = faults + 1

\* What a computer asked is lost on its way, or arrives unheard.
Unheard(k) ==
  LET mine == {r \in wire : r.at = k} IN
  \/ wire' = wire \ mine
  \/ wire' = (wire \ mine) \cup {[r EXCEPT !.heard = FALSE] : r \in mine}

Drop(k) ==
  /\ Fault
  /\ op[k].phase \in {"import", "export", "report"} /\ op[k].answer # "error"
  /\ op' = [op EXCEPT ![k].answer = "error"]
  /\ Unheard(k)
  /\ refresh' = [refresh EXCEPT ![k] = TRUE]
  /\ UNCHANGED <<made, copy, due, listed, offered, sent>>

\* A session that worked continues by itself, or waits for its user; what the
\* agent asked for was never written.
Restarted(p) ==
  \E on \in BOOLEAN :
    copy' = [c \in Copies |->
      IF copy[c].place # p THEN copy[c]
      ELSE [copy[c] EXCEPT
        !.state = IF @ = "running" /\ ~(on /\ ~Moved(c) /\ ~copy[c].archived)
                  THEN "interrupted" ELSE @,
        !.asked = Nowhere, !.from = Nowhere,
        !.asking = IF @ = "open" THEN "unfinished" ELSE @]]

RestartComputer(k) ==
  /\ Fault
  /\ Restarted(k)
  /\ op' = [op EXCEPT ![k] = Idle]
  /\ due' = [due EXCEPT ![k] = {}]
  /\ listed' = [listed EXCEPT ![k] = {}]
  /\ offered' = [offered EXCEPT ![k] = {}]
  /\ Unheard(k)
  /\ refresh' = [refresh EXCEPT ![k] = TRUE]
  /\ UNCHANGED <<made, sent>>

RestartServer ==
  /\ Fault
  /\ Restarted(Server)
  /\ op' = [k \in Computers |->
              IF op[k].phase \in {"import", "export", "report"}
              THEN [op[k] EXCEPT !.answer = "error"] ELSE op[k]]
  /\ wire' = {}
  /\ refresh' = [k \in Computers |-> TRUE]
  /\ UNCHANGED <<made, due, listed, offered, sent>>

-----------------------------------------------------------------------------
Next ==
  \/ \E c \in Made :
       \/ \E m \in Messages, k \in Computers \cup {Nowhere} : Message(c, m, k)
       \/ Ask(c) \/ EndTurn(c) \/ Archive(c) \/ Unarchive(c)
       \/ ScheduledMove(c) \/ CancelReturn(c)
       \/ \E k \in Computers : Return(k, c) \/ Forget(k, c) \/ Move(k, c)
                               \/ MoveDue(k, c)
  \/ \E k \in Computers :
       \/ Poll(k) \/ List(k) \/ Show(k)
       \/ Retire(k) \/ HearPackage(k) \/ Place(k) \/ Reported(k)
       \/ Drop(k) \/ RestartComputer(k)
  \/ \E r \in wire : Import(r) \/ Export(r) \/ Exported(r)
  \/ RestartServer

\* The service's threads run, turns end, and a connected server answers.  A
\* move waits for the one before it: its turn comes if it keeps coming up.
\* The list is read for an app that lists and after connecting, and no app has
\* to list.
Fairness ==
  /\ WF_vars(\E c \in Made : EndTurn(c))
  /\ WF_vars(\E c \in Made : ScheduledMove(c) \/ CancelReturn(c))
  /\ \A k \in Computers :
       /\ WF_vars(Poll(k))
       /\ WF_vars(\E c \in Made : Return(k, c) \/ Forget(k, c))
       /\ SF_vars(\E c \in Made : MoveDue(k, c))
       /\ WF_vars(Retire(k) \/ HearPackage(k) \/ Place(k) \/ Reported(k))
  /\ WF_vars(\E r \in wire : Import(r) \/ Export(r) \/ Exported(r))

Spec == Init /\ [][Next]_vars /\ Fairness

-----------------------------------------------------------------------------
(* What moving promises *)

TypeOK ==
  /\ made \in Copies
  /\ copy \in [Copies -> Copy]
  /\ op \in [Computers -> Op]
  /\ due \in [Computers -> SUBSET Copies]
  /\ listed \in [Computers -> SUBSET Copies]
  /\ offered \in [Computers -> SUBSET Copies]
  /\ wire \subseteq Request
  /\ sent \subseteq Messages
  /\ faults \in 0..MaxFaults
  /\ refresh \in [Computers -> BOOLEAN]

\* However a move breaks off, the conversation goes on somewhere: a copy is
\* retired only for one that is there (Service::move_session, exported).
SomeCopyGoesOn == \E c \in Made : ~Moved(c)

\* What was said to a session before it moved to the server is there: nothing
\* gets in between its package and its retirement (Service::move_session).
CarriedToServer ==
  \A c \in Made :
    Moved(c) /\ copy[c].place # Server =>
      /\ copy[c].movedTo \in Made
      /\ copy[c].chat \subseteq copy[copy[c].movedTo].chat

\* With no connection dropped and nothing restarted, moves there and back
\* leave one copy to write to, whoever starts them and however often.
OneCopyGoesOn ==
  (faults = 0 /\ wire = {} /\ \A k \in Computers : op[k] = Idle) =>
    \A c, d \in Made : ~Moved(c) /\ ~Moved(d) => c = d

\* What the agent asked for is made, or given up: it does not stay on the
\* session through dropped connections and restarts, and there is always again
\* a moment when nothing is open.  A computer takes a session back as long as
\* an app there lists the sessions now and then (Federation::poll,
\* Service::scheduled_moves).
Settled(p) == []<>(\A c \in Copies : copy[c].asked # p)

AskedIsSettled ==
  /\ Settled(Server)
  /\ \A k \in Computers : []<>refresh[k] => Settled(k)

\* docs/cloud-agents.md:722-725: "once the turn has ended, the session's
\* summary carries return_to, and that computer's service, seeing its own
\* device id in the session list, takes the session", listed or not.
ReturnIsTaken == \A k \in Computers : Settled(k)

\* docs/cloud-agents.md:599, 725: "a turn that fails or is interrupted
\* cancels the move".
UnfinishedTurnCancels == \A k \in Computers : op[k].by # "unfinished"

\* server.rs:860: "The session stays as it is until that computer reports how
\* the move went": what the retired copy knows, the one that goes on knows.
NothingLeftBehind ==
  \A c \in Made : Moved(c) =>
    copy[c].chat \subseteq copy[copy[c].movedTo].chat
=============================================================================
